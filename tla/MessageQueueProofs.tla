------------------------- MODULE MessageQueueProofs -------------------------
(***************************************************************************)
(* Proofs about MessageQueue, for all sessions, entries, attempts, texts   *)
(* and bounds: its types, that nothing is delivered twice, that no entry   *)
(* is lost silently, that a confirmation names an attempt the engine took, *)
(* that a restart surfaces the delivery it cut off, and that a session     *)
(* stays within its limits.                                                *)
(***************************************************************************)
EXTENDS MessageQueue, SequenceTheorems, FiniteSetTheorems, WellFoundedInduction, TLAPS

-----------------------------------------------------------------------------
(* Sequences of entries                                                    *)

NoDup(E) == \A i, j \in DOMAIN E : E[i].id = E[j].id => i = j

(* Taking the entry at k out of a queue moves the later ones up.           *)
LEMMA RemovedPlaces ==
    ASSUME NEW E \in Seq(Entry), NEW k \in DOMAIN E
    PROVE  LET R == RemoveAt(E, k)
           IN /\ R \in Seq(Entry) /\ Len(R) = Len(E) - 1
              /\ DOMAIN R = 1..(Len(E) - 1)
              /\ \A i \in 1..(Len(E) - 1) : R[i] = E[IF i < k THEN i ELSE i + 1]
<1> DEFINE R == RemoveAt(E, k)
<1>1. k \in 1..Len(E)
  OBVIOUS
<1> DEFINE A == SubSeq(E, 1, k - 1)
           B == SubSeq(E, k + 1, Len(E))
<1>a. /\ A \in Seq(Entry) /\ Len(A) = k - 1
      /\ \A i \in 1..(k - 1) : A[i] = E[i]
  <2>1. \A i \in 1..(k - 1) : E[i] \in Entry
    BY <1>1
  <2>2. /\ A \in Seq(Entry) /\ Len(A) = IF 1 <= k - 1 THEN k - 1 - 1 + 1 ELSE 0
        /\ \A i \in 1..(k - 1 - 1 + 1) : A[i] = E[1 + i - 1]
    BY <1>1, <2>1, SubSeqProperties
  <2> QED
    BY <2>2, <1>1
<1>b. /\ B \in Seq(Entry) /\ Len(B) = Len(E) - k
      /\ \A i \in 1..(Len(E) - k) : B[i] = E[k + i]
  <2>1. \A i \in (k + 1)..Len(E) : E[i] \in Entry
    BY <1>1
  <2>2. /\ B \in Seq(Entry)
        /\ Len(B) = IF k + 1 <= Len(E) THEN Len(E) - (k + 1) + 1 ELSE 0
        /\ \A i \in 1..(Len(E) - (k + 1) + 1) : B[i] = E[k + 1 + i - 1]
    BY <1>1, <2>1, SubSeqProperties
  <2> QED
    BY <2>2, <1>1
<1>c. R = A \o B
  BY DEF RemoveAt
<1> HIDE DEF A, B, R
<1>2. /\ R \in Seq(Entry)
      /\ Len(R) = Len(E) - 1
      /\ DOMAIN R = 1..(Len(E) - 1)
  BY <1>1, <1>a, <1>b, <1>c
<1>3. \A i \in 1..(Len(E) - 1) : R[i] = E[IF i < k THEN i ELSE i + 1]
  <2>1. \A i \in 1..(Len(A) + Len(B)) :
           R[i] = IF i <= Len(A) THEN A[i] ELSE B[i - Len(A)]
    BY <1>a, <1>b, <1>c, ConcatProperties
  <2> TAKE i \in 1..(Len(E) - 1)
  <2>0. /\ Len(A) + Len(B) = Len(E) - 1
        /\ i \in 1..(Len(A) + Len(B))
    BY <1>1, <1>a, <1>b
  <2>2. CASE i < k
    <3>1. R[i] = A[i]
      BY <2>0, <2>1, <2>2, <1>1, <1>a
    <3> QED
      BY <3>1, <2>2, <1>1, <1>a
  <2>3. CASE i >= k
    <3>1. R[i] = B[i - (k - 1)]
      BY <2>0, <2>1, <2>3, <1>1, <1>a
    <3>2. i - (k - 1) \in 1..(Len(E) - k) /\ k + (i - (k - 1)) = i + 1
      BY <2>3, <1>1
    <3> QED
      BY <3>1, <3>2, <2>3, <1>b
  <2> QED
    BY <2>2, <2>3, <1>1
<1> QED
  BY <1>2, <1>3 DEF R

(* It leaves the other ids, once each.                                     *)
LEMMA RemoveAtEntries ==
    ASSUME NEW E \in Seq(Entry), NEW k \in DOMAIN E, NoDup(E)
    PROVE  /\ RemoveAt(E, k) \in Seq(Entry)
           /\ Len(RemoveAt(E, k)) = Len(E) - 1
           /\ NoDup(RemoveAt(E, k))
           /\ IdsOf(RemoveAt(E, k)) = IdsOf(E) \ {E[k].id}
<1> DEFINE R == RemoveAt(E, k)
<1>1. k \in 1..Len(E)
  OBVIOUS
<1> HIDE DEF R
<1>2. /\ R \in Seq(Entry)
      /\ Len(R) = Len(E) - 1
      /\ DOMAIN R = 1..(Len(E) - 1)
  BY RemovedPlaces DEF R
<1>3. \A i \in 1..(Len(E) - 1) : R[i] = E[IF i < k THEN i ELSE i + 1]
  BY RemovedPlaces DEF R
<1>4. NoDup(R)
  <2> SUFFICES ASSUME NEW i \in 1..(Len(E) - 1), NEW j \in 1..(Len(E) - 1),
                      R[i].id = R[j].id
               PROVE  i = j
    BY <1>2 DEF NoDup
  <2> DEFINE h(n) == IF n < k THEN n ELSE n + 1
  <2>1. h(i) \in DOMAIN E /\ h(j) \in DOMAIN E
    BY <1>1
  <2>2. E[h(i)].id = E[h(j)].id
    BY <1>3
  <2>3. h(i) = h(j)
    BY <2>1, <2>2 DEF NoDup
  <2> QED
    BY <2>3, <1>1
<1>5. IdsOf(R) = IdsOf(E) \ {E[k].id}
  <2>1. ASSUME NEW x \in IdsOf(R) PROVE x \in IdsOf(E) \ {E[k].id}
    <3>1. PICK i \in 1..(Len(E) - 1) : x = R[i].id
      BY <1>2 DEF IdsOf
    <3>2. PICK j \in DOMAIN E : j # k /\ x = E[j].id
      BY <3>1, <1>1, <1>3
    <3> QED
      BY <3>2 DEF IdsOf, NoDup
  <2>2. ASSUME NEW x \in IdsOf(E) \ {E[k].id} PROVE x \in IdsOf(R)
    <3>1. PICK j \in DOMAIN E : x = E[j].id
      BY DEF IdsOf
    <3>2. j # k /\ j \in 1..Len(E)
      BY <3>1
    <3>3. PICK i \in 1..(Len(E) - 1) : j = IF i < k THEN i ELSE i + 1
      <4>1. CASE j < k
        BY <4>1, <3>2, <1>1
      <4>2. CASE j > k
        <5>1. j - 1 \in 1..(Len(E) - 1) /\ ~(j - 1 < k) /\ j = (j - 1) + 1
          BY <4>2, <3>2, <1>1
        <5> QED
          BY <5>1
      <4> QED
        BY <4>1, <4>2, <3>2, <1>1
    <3>4. R[i].id = x
      BY <3>1, <3>3, <1>3
    <3> QED
      BY <3>4, <1>2 DEF IdsOf
  <2> QED
    BY <2>1, <2>2
<1> QED
  BY <1>2, <1>4, <1>5 DEF R

(* Putting an entry at k moves the later ones down.                        *)
IsInserted(E, k, e, R) ==
    /\ R \in Seq(Entry) /\ Len(R) = Len(E) + 1 /\ DOMAIN R = 1..(Len(E) + 1)
    /\ R[k] = e
    /\ \A i \in 1..(Len(E) + 1) :
          /\ i < k => R[i] = E[i]
          /\ i > k => R[i] = E[i - 1]

LEMMA InsertedPlaces ==
    ASSUME NEW E \in Seq(Entry), NEW k \in 1..(Len(E) + 1), NEW e \in Entry
    PROVE  IsInserted(E, k, e, InsertAt(E, k, e))
<1> DEFINE R == InsertAt(E, k, e)
<1> DEFINE A == SubSeq(E, 1, k - 1)
           B == SubSeq(E, k, Len(E))
           C == A \o <<e>>
<1>a. /\ A \in Seq(Entry) /\ Len(A) = k - 1
      /\ \A i \in 1..(k - 1) : A[i] = E[i]
  <2>1. \A i \in 1..(k - 1) : E[i] \in Entry
    OBVIOUS
  <2>2. /\ A \in Seq(Entry) /\ Len(A) = IF 1 <= k - 1 THEN k - 1 - 1 + 1 ELSE 0
        /\ \A i \in 1..(k - 1 - 1 + 1) : A[i] = E[1 + i - 1]
    BY <2>1, SubSeqProperties
  <2> QED
    BY <2>2
<1>b. /\ B \in Seq(Entry) /\ Len(B) = Len(E) - k + 1
      /\ \A i \in 1..(Len(E) - k + 1) : B[i] = E[k + i - 1]
  <2>1. \A i \in k..Len(E) : E[i] \in Entry
    OBVIOUS
  <2>2. /\ B \in Seq(Entry)
        /\ Len(B) = IF k <= Len(E) THEN Len(E) - k + 1 ELSE 0
        /\ \A i \in 1..(Len(E) - k + 1) : B[i] = E[k + i - 1]
    BY <2>1, SubSeqProperties
  <2> QED
    BY <2>2
<1>c. /\ C \in Seq(Entry) /\ Len(C) = k
      /\ \A i \in 1..(k - 1) : C[i] = E[i]
      /\ C[k] = e
  <2> HIDE DEF A
  <2>1. <<e>> \in Seq(Entry) /\ Len(<<e>>) = 1 /\ <<e>>[1] = e
    OBVIOUS
  <2>2. /\ C \in Seq(Entry) /\ Len(C) = Len(A) + 1
        /\ \A i \in 1..(Len(A) + 1) :
              C[i] = IF i <= Len(A) THEN A[i] ELSE <<e>>[i - Len(A)]
    BY <1>a, <2>1, ConcatProperties
  <2> QED
    BY <1>a, <2>1, <2>2
<1>d. R = C \o B
  BY DEF InsertAt
<1> HIDE DEF A, B, C, R
<1>e. \A i \in 1..(Len(C) + Len(B)) :
         R[i] = IF i <= Len(C) THEN C[i] ELSE B[i - Len(C)]
  BY <1>b, <1>c, <1>d, ConcatProperties
<1>2. /\ R \in Seq(Entry)
      /\ Len(R) = Len(E) + 1
      /\ DOMAIN R = 1..(Len(E) + 1)
  <2>1. R \in Seq(Entry) /\ Len(R) = Len(C) + Len(B)
    BY <1>b, <1>c, <1>d, ConcatProperties
  <2> QED
    BY <2>1, <1>b, <1>c
<1>3. /\ R[k] = e
      /\ \A i \in 1..(Len(E) + 1) :
            /\ i < k => R[i] = E[i]
            /\ i > k => R[i] = E[i - 1]
  BY <1>b, <1>c, <1>e
<1> QED
  BY <1>2, <1>3 DEF R, IsInserted

(* An entry with a new id adds just that id.                               *)
LEMMA InsertAtEntries ==
    ASSUME NEW E \in Seq(Entry), NEW k \in 1..(Len(E) + 1), NEW e \in Entry,
           NoDup(E), e.id \notin IdsOf(E)
    PROVE  /\ InsertAt(E, k, e) \in Seq(Entry)
           /\ NoDup(InsertAt(E, k, e))
           /\ IdsOf(InsertAt(E, k, e)) = IdsOf(E) \cup {e.id}
<1> DEFINE R == InsertAt(E, k, e)
<1>1. IsInserted(E, k, e, R)
  BY InsertedPlaces
<1> HIDE DEF R
<1>2. /\ R \in Seq(Entry)
      /\ Len(R) = Len(E) + 1
      /\ DOMAIN R = 1..(Len(E) + 1)
  BY <1>1 DEF IsInserted
<1>3. /\ R[k] = e
      /\ \A i \in 1..(Len(E) + 1) :
            /\ i < k => R[i] = E[i]
            /\ i > k => R[i] = E[i - 1]
  BY <1>1 DEF IsInserted
<1>4. NoDup(R)
  <2>1. \A i \in DOMAIN E : E[i].id # e.id
    BY DEF IdsOf
  <2> DEFINE h(n) == IF n < k THEN n ELSE n - 1
  <2>2. \A i \in 1..(Len(E) + 1) :
           i # k => h(i) \in DOMAIN E /\ R[i] = E[h(i)]
    BY <1>3
  <2>3. \A i, j \in 1..(Len(E) + 1) :
           i # k /\ j # k /\ R[i].id = R[j].id => i = j
    BY <2>2 DEF NoDup
  <2>4. \A i \in 1..(Len(E) + 1) : i # k => R[i].id # e.id
    BY <2>1, <2>2
  <2> QED
    BY <2>3, <2>4, <1>2, <1>3 DEF NoDup
<1>5. IdsOf(R) = IdsOf(E) \cup {e.id}
  <2>1. ASSUME NEW x \in IdsOf(R) PROVE x \in IdsOf(E) \cup {e.id}
    <3>1. PICK i \in 1..(Len(E) + 1) : x = R[i].id
      BY <1>2 DEF IdsOf
    <3>2. CASE i = k
      BY <3>1, <3>2, <1>3
    <3>3. CASE i < k
      BY <3>1, <3>3, <1>3 DEF IdsOf
    <3>4. CASE i > k
      <4>1. i - 1 \in DOMAIN E /\ x = E[i - 1].id
        BY <3>1, <3>4, <1>3
      <4> QED
        BY <4>1 DEF IdsOf
    <3> QED
      BY <3>2, <3>3, <3>4
  <2>2. e.id \in IdsOf(R)
    BY <1>2, <1>3 DEF IdsOf
  <2>3. ASSUME NEW x \in IdsOf(E) PROVE x \in IdsOf(R)
    <3>1. PICK j \in 1..Len(E) : x = E[j].id
      BY DEF IdsOf
    <3>2. CASE j < k
      <4>1. j \in DOMAIN R /\ x = R[j].id
        BY <3>1, <3>2, <1>2, <1>3
      <4> QED
        BY <4>1 DEF IdsOf
    <3>3. CASE j >= k
      <4>1. /\ j + 1 \in 1..(Len(E) + 1) /\ j + 1 > k
            /\ R[j + 1] = E[(j + 1) - 1] /\ (j + 1) - 1 = j
        BY <3>3, <1>3
      <4> QED
        BY <4>1, <3>1, <1>2 DEF IdsOf
    <3> QED
      BY <3>2, <3>3
  <2> QED
    BY <2>1, <2>2, <2>3
<1> QED
  BY <1>2, <1>4, <1>5 DEF R

(* queueAdd: a new id at the end.                                          *)
LEMMA AppendEntries ==
    ASSUME NEW E \in Seq(Entry), NEW e \in Entry,
           NoDup(E), e.id \notin IdsOf(E)
    PROVE  /\ Append(E, e) \in Seq(Entry)
           /\ NoDup(Append(E, e))
           /\ IdsOf(Append(E, e)) = IdsOf(E) \cup {e.id}
<1> DEFINE R == Append(E, e)
<1>1. /\ R \in Seq(Entry)
      /\ DOMAIN R = 1..(Len(E) + 1)
      /\ R[Len(E) + 1] = e
      /\ \A i \in 1..Len(E) : R[i] = E[i]
  OBVIOUS
<1>2. \A i \in DOMAIN E : E[i].id # e.id
  BY DEF IdsOf
<1>3. NoDup(R)
  BY <1>1, <1>2 DEF NoDup
<1>4. IdsOf(R) = IdsOf(E) \cup {e.id}
  BY <1>1 DEF IdsOf
<1> QED
  BY <1>1, <1>3, <1>4

(* queueUpdate: the same ids.                                              *)
LEMMA UpdateEntries ==
    ASSUME NEW E \in Seq(Entry), NEW i \in DOMAIN E, NEW text \in Texts,
           NoDup(E)
    PROVE  LET R == [E EXCEPT ![i].text = text]
           IN R \in Seq(Entry) /\ NoDup(R) /\ IdsOf(R) = IdsOf(E)
<1> DEFINE R == [E EXCEPT ![i].text = text]
<1>1. E[i] \in Entry
  OBVIOUS
<1>2. [E[i] EXCEPT !.text = text] \in Entry
  BY <1>1 DEF Entry
<1>3. R \in Seq(Entry) /\ DOMAIN R = DOMAIN E
  BY <1>2
<1>4. \A j \in DOMAIN E : R[j].id = E[j].id
  BY <1>1 DEF Entry
<1>5. NoDup(R)
  BY <1>3, <1>4 DEF NoDup
<1>6. IdsOf(R) = IdsOf(E)
  BY <1>3, <1>4 DEF IdsOf
<1> QED
  BY <1>3, <1>5, <1>6

(* queueRemove: at most the named id goes.                                 *)
LEMMA WithoutEntries ==
    ASSUME NEW E \in Seq(Entry), NEW id, NoDup(E)
    PROVE  /\ Without(E, id) \in Seq(Entry)
           /\ NoDup(Without(E, id))
           /\ IdsOf(Without(E, id)) \subseteq IdsOf(E)
<1>1. CASE \E i \in DOMAIN E : E[i].id = id
  <2> DEFINE k == CHOOSE i \in DOMAIN E : E[i].id = id
  <2>1. k \in DOMAIN E
    BY <1>1
  <2>2. Without(E, id) = RemoveAt(E, k)
    BY <1>1 DEF Without
  <2> HIDE DEF k
  <2> QED
    BY <2>1, <2>2, RemoveAtEntries
<1>2. CASE ~\E i \in DOMAIN E : E[i].id = id
  BY <1>2 DEF Without
<1> QED
  BY <1>1, <1>2

-----------------------------------------------------------------------------
(* The inductive invariant.  AtMostOnce alone is not inductive: it needs   *)
(* that whatever may still be sent, from memory or from the document a     *)
(* restart reads, was definitely refused in every earlier attempt, and     *)
(* that a delivery in progress is the only live attempt of an entry that   *)
(* no queue holds.                                                         *)

(* What holds of a set of queues Q, in memory or on disk, given the        *)
(* attempts made and the ids minted so far.                                *)
Sound(Q, att, mint) ==
    \A s \in Sessions :
        /\ NoDup(Q[s].entries)
        /\ IdsOf(Q[s].entries) \subseteq mint
        /\ \A x \in Sessions \ {s} :
              IdsOf(Q[s].entries) \cap IdsOf(Q[x].entries) = {}
        /\ \A id \in IdsOf(Q[s].entries), u \in Uuids :
              \A a \in att[u] : a.id = id => a.fate = "refused"

FlightSound(s, f) ==
    /\ \E a \in attempts[f.uuid] : a.id = f.id
    /\ \A u \in Uuids \ {f.uuid} :
          \A a \in attempts[u] : a.id = f.id => a.fate = "refused"
    /\ \A x \in Sessions : f.id \notin IdsOf(state[x].entries)
    /\ \A x \in Sessions \ {s} : \A t \in Sending(x) : \A g \in t.flight :
          g.id # f.id

FlightsSound ==
    \A s \in Sessions : \A t \in Sending(s) : \A f \in t.flight :
        FlightSound(s, f)

AttemptsMinted == \A u \in Uuids : \A a \in attempts[u] : a.id \in minted

IInv ==
    /\ TypeOK
    /\ Sound(state, attempts, minted)
    /\ Sound(disk.queues, attempts, minted)
    /\ FlightsSound
    /\ AttemptsMinted
    /\ AtMostOnce

-----------------------------------------------------------------------------
(* Options                                                                 *)

(* What the provers need of Option: the empty one, the full one, its uses. *)
LEMMA OptionFacts ==
    ASSUME NEW S
    PROVE  /\ {} \in Option(S)
           /\ \A x \in S : {x} \in Option(S)
           /\ \A X \in Option(S) : X \subseteq S
           /\ \A X \in Option(S) : \A Y : Y \subseteq X => Y \in Option(S)
           /\ \A X \in Option(S), x \in S : x \in X => X = {x}
  BY DEF Option

(* The empty queue holds nothing and is a queue.                           *)
LEMMA NoQueueFacts ==
    NoQueue \in Queue /\ NoDup(NoQueue.entries) /\ IdsOf(NoQueue.entries) = {}
<1>1. NoQueue.entries = <<>> /\ NoQueue.entries \in Seq(Entry)
  BY DEF NoQueue
<1>2. NoQueue \in Queue
  BY <1>1, OptionFacts DEF NoQueue, Queue
<1> QED
  BY <1>1, <1>2 DEF NoDup, IdsOf

-----------------------------------------------------------------------------
(* Soundness of queues                                                     *)

(* Replacing one queue by one that holds no more ids, up to new ones whose *)
(* attempts were all refused and that no other queue holds.                *)
LEMMA SoundReplace ==
    ASSUME NEW Q \in [Sessions -> Queue], NEW att, NEW mint, NEW mint2,
           Sound(Q, att, mint), mint \subseteq mint2,
           NEW s \in Sessions, NEW q \in Queue, NoDup(q.entries),
           NEW X \in SUBSET mint2,
           IdsOf(q.entries) \subseteq IdsOf(Q[s].entries) \cup X,
           \A x \in Sessions \ {s} : X \cap IdsOf(Q[x].entries) = {},
           \A id \in X, u \in Uuids :
               \A a \in att[u] : a.id = id => a.fate = "refused"
    PROVE  Sound([Q EXCEPT ![s] = q], att, mint2)
<1> DEFINE R == [Q EXCEPT ![s] = q]
<1>1. R[s] = q /\ \A x \in Sessions \ {s} : R[x] = Q[x]
  OBVIOUS
<1> HIDE DEF R
<1> SUFFICES ASSUME NEW y \in Sessions
             PROVE  /\ NoDup(R[y].entries)
                    /\ IdsOf(R[y].entries) \subseteq mint2
                    /\ \A x \in Sessions \ {y} :
                          IdsOf(R[y].entries) \cap IdsOf(R[x].entries) = {}
                    /\ \A id \in IdsOf(R[y].entries), u \in Uuids :
                          \A a \in att[u] : a.id = id => a.fate = "refused"
  BY DEF Sound, R
<1>2. CASE y = s
  BY <1>1, <1>2 DEF Sound
<1>3. CASE y # s
  BY <1>1, <1>3 DEF Sound
<1> QED
  BY <1>2, <1>3

(* Minting more ids disturbs nothing.                                      *)
LEMMA SoundMint ==
    ASSUME NEW Q, NEW att, NEW mint, NEW mint2,
           Sound(Q, att, mint), mint \subseteq mint2
    PROVE  Sound(Q, att, mint2)
  BY DEF Sound

(* The document of sound queues is a document with sound queues.           *)
LEMMA DocumentSound ==
    ASSUME NEW st \in [Sessions -> Queue], NEW recs \in SUBSET Sessions,
           NEW tn, NEW att, NEW mint, Sound(st, att, mint)
    PROVE  /\ DocumentOf(st, recs, tn) \in Document
           /\ Sound(DocumentOf(st, recs, tn).queues, att, mint)
<1> DEFINE held == {s \in recs : Keep(st[s], tn[s] # {})}
           qs == [s \in Sessions |-> IF s \in held THEN st[s] ELSE NoQueue]
           aw == {s \in held : tn[s] # {}}
<1>1. DocumentOf(st, recs, tn) = [queues |-> qs, held |-> held, awaiting |-> aw]
  BY DEF DocumentOf
<1>2. held \in SUBSET Sessions /\ aw \in SUBSET Sessions
  OBVIOUS
<1>3. \A s \in Sessions : qs[s] = st[s] \/ qs[s] = NoQueue
  OBVIOUS
<1> HIDE DEF held, aw
<1>4. qs \in [Sessions -> Queue]
  BY NoQueueFacts
<1> HIDE DEF qs
<1>5. DocumentOf(st, recs, tn) \in Document
  BY <1>1, <1>2, <1>4 DEF Document
<1>6. Sound(qs, att, mint)
  BY <1>3, NoQueueFacts DEF Sound
<1> QED
  BY <1>1, <1>5, <1>6

-----------------------------------------------------------------------------
(* Initial states                                                          *)

(* The initial state: no queues, no attempts, no deliveries.               *)
LEMMA InitIInv == Init => IInv
<1> SUFFICES ASSUME Init PROVE IInv
  OBVIOUS
<1>1. state \in [Sessions -> Queue] /\ \A s \in Sessions : state[s] = NoQueue
  BY NoQueueFacts DEF Init
<1>2. Sound(state, attempts, minted)
  BY <1>1, NoQueueFacts DEF Sound
<1>3. disk \in Document /\ Sound(disk.queues, attempts, minted)
  <2>1. disk = DocumentOf(state, records, turns) /\ records \in SUBSET Sessions
    BY DEF Init
  <2> QED
    BY <2>1, <1>1, <1>2, DocumentSound
<1>4. TypeOK
  <2>1. /\ turns \in [Sessions -> Option(Turn)]
        /\ rows \in [Sessions -> Option(Row)]
        /\ task \in [Sessions -> Option(Task)]
        /\ attempts \in [Uuids -> Option(Attempt)]
    BY OptionFacts DEF Init
  <2>2. /\ records \subseteq Sessions /\ delivered \in [Sessions -> SUBSET Uuids]
        /\ minted \subseteq Ids /\ discarded \subseteq Ids /\ reported \subseteq Ids
        /\ replaced \subseteq Ids /\ budget \in Budget
    BY BoundsAssumption DEF Init, Budget
  <2> QED
    BY <1>1, <1>3, <2>1, <2>2 DEF TypeOK
<1>5. FlightsSound /\ AttemptsMinted /\ AtMostOnce
  BY DEF Init, FlightsSound, Sending, AttemptsMinted, AtMostOnce, AttemptsOf
<1> QED
  BY <1>2, <1>3, <1>4, <1>5 DEF IInv

-----------------------------------------------------------------------------
(* Steps.  A step that leaves attempts, minted ids and deliveries alone    *)
(* keeps AttemptsMinted and AtMostOnce.                                    *)

(* Steps that leave the attempts and the minted ids alone.                 *)
LEMMA AttemptsKept ==
    ASSUME IInv, UNCHANGED attempts, minted \subseteq minted'
    PROVE  AttemptsMinted' /\ AtMostOnce'
  BY DEF IInv, AttemptsMinted, AtMostOnce, AttemptsOf, MayHaveArrived

(* Sound queues in memory and the document written from them, or an old    *)
(* sound document, after the queue of s became q.                          *)
LEMMA WriteSound ==
    ASSUME IInv, NEW s \in Sessions, NEW q \in Queue, NoDup(q.entries),
           NEW X \in SUBSET minted', minted \subseteq minted',
           UNCHANGED attempts,
           IdsOf(q.entries) \subseteq IdsOf(state[s].entries) \cup X,
           \A x \in Sessions \ {s} : X \cap IdsOf(state[x].entries) = {},
           \A id \in X, u \in Uuids :
               \A a \in attempts[u] : a.id = id => a.fate = "refused",
           state' = [state EXCEPT ![s] = q], records' = records \cup {s},
           \/ \E tn : disk' = DocumentOf(state', records', tn)
           \/ disk' = disk
    PROVE  /\ state' \in [Sessions -> Queue] /\ records' \subseteq Sessions
           /\ disk' \in Document
           /\ Sound(state', attempts', minted')
           /\ Sound(disk'.queues, attempts', minted')
<1>1. /\ state \in [Sessions -> Queue] /\ records \subseteq Sessions
      /\ disk \in Document
      /\ Sound(state, attempts, minted) /\ Sound(disk.queues, attempts, minted)
  BY DEF IInv, TypeOK
<1>2. state' \in [Sessions -> Queue] /\ records' \in SUBSET Sessions
  BY <1>1
<1>3. Sound(state', attempts', minted')
  BY <1>1, SoundReplace
<1>4. CASE \E tn : disk' = DocumentOf(state', records', tn)
  <2>1. PICK tn : disk' = DocumentOf(state', records', tn)
    BY <1>4
  <2> QED
    BY <1>2, <1>3, <2>1, DocumentSound
<1>5. CASE disk' = disk
  <2>1. Sound(disk.queues, attempts, minted')
    BY <1>1, SoundMint
  <2>2. disk'.queues = disk.queues /\ attempts' = attempts
    BY <1>5
  <2>3. Sound(disk'.queues, attempts', minted')
    BY <2>1, <2>2
  <2> QED
    BY <1>1, <1>2, <1>3, <1>5, <2>3
<1> QED
  BY <1>2, <1>3, <1>4, <1>5

(* A delivery in progress has its type.                                    *)
LEMMA SendingType ==
    ASSUME TypeOK, NEW s \in Sessions, NEW t \in task[s]
    PROVE  /\ t \in Task /\ task[s] = {t}
           /\ t.flight \subseteq Flight /\ t.flight \in Option(Flight)
           /\ t.row \in Option(Row) /\ t.previous \in Option(Turn)
           /\ t.index \in Nat \ {0} /\ t.auto \in BOOLEAN
<1>1. task[s] \in Option(Task)
  BY DEF TypeOK
<1>2. t \in Task /\ task[s] = {t}
  BY <1>1, OptionFacts
<1>3. /\ t.flight \in Option(Flight)
      /\ t.row \in Option(Row) /\ t.previous \in Option(Turn)
      /\ t.index \in Nat \ {0} /\ t.auto \in BOOLEAN
  BY <1>2 DEF Task
<1> QED
  BY <1>2, <1>3, OptionFacts

(* The mutations: no delivery of s is in progress.                         *)
LEMMA MutateStep ==
    ASSUME IInv, NEW s \in Sessions, NEW q \in Queue, Mutate(s, q),
           NoDup(q.entries),
           minted \subseteq minted', minted' \subseteq Ids, discarded' \subseteq Ids,
           IdsOf(q.entries) \subseteq
               IdsOf(state[s].entries) \cup (minted' \ minted)
    PROVE  IInv'
<1> DEFINE X == minted' \ minted
<1>1. /\ state' = [state EXCEPT ![s] = q] /\ records' = records \cup {s}
      /\ disk' = DocumentOf(state', records', turns)
      /\ UNCHANGED <<turns, delivered, rows, task, attempts, reported, replaced,
                  budget>>
  BY DEF Mutate, Transact
<1>2. /\ \A x \in Sessions \ {s} : X \cap IdsOf(state[x].entries) = {}
      /\ \A id \in X, u \in Uuids :
            \A a \in attempts[u] : a.id = id => a.fate = "refused"
  BY DEF IInv, Sound, AttemptsMinted
<1>3. /\ state' \in [Sessions -> Queue] /\ records' \subseteq Sessions
      /\ disk' \in Document
      /\ Sound(state', attempts', minted')
      /\ Sound(disk'.queues, attempts', minted')
  <2>1. X \in SUBSET minted'
    OBVIOUS
  <2>2. \E tn : disk' = DocumentOf(state', records', tn)
    BY <1>1
  <2>3. UNCHANGED attempts
    BY <1>1
  <2> HIDE DEF X
  <2>4. IdsOf(q.entries) \subseteq IdsOf(state[s].entries) \cup X
    BY DEF X
  <2> QED
    BY <1>1, <1>2, <2>1, <2>2, <2>3, <2>4, WriteSound
<1>4. TypeOK'
  BY <1>1, <1>3 DEF IInv, TypeOK
<1>5. FlightsSound'
  <2> SUFFICES ASSUME NEW y \in Sessions, NEW t \in Sending(y)',
                      NEW f \in t.flight
               PROVE  FlightSound(y, f)'
    BY DEF FlightsSound
  <2>1. t \in Sending(y) /\ \A x \in Sessions : Sending(x)' = Sending(x)
    BY <1>1 DEF Sending
  <2>2. FlightSound(y, f)
    BY <2>1 DEF IInv, FlightsSound
  <2>3. f.id \in minted
    <3>1. f.uuid \in Uuids
      BY <2>1, SendingType DEF IInv, Flight, Sending
    <3> QED
      BY <2>2, <3>1 DEF FlightSound, IInv, AttemptsMinted
  <2>4. \A x \in Sessions : f.id \notin IdsOf(state'[x].entries)
    <3>1. \A x \in Sessions : IdsOf(state'[x].entries) \subseteq
                                 IdsOf(state[x].entries) \cup X
      BY <1>1 DEF IInv, TypeOK
    <3> QED
      BY <2>2, <2>3, <3>1 DEF FlightSound
  <2> QED
    BY <2>1, <2>2, <2>4, <1>1 DEF FlightSound
<1>6. AttemptsMinted' /\ AtMostOnce'
  BY <1>1, AttemptsKept
<1> QED
  BY <1>3, <1>4, <1>5, <1>6 DEF IInv

(* The types of the parts of a queue.                                      *)
LEMMA QueueParts ==
    ASSUME TypeOK, NEW s \in Sessions
    PROVE  /\ state[s] \in Queue
           /\ state[s].entries \in Seq(Entry) /\ state[s].paused \in BOOLEAN
           /\ state[s].uncertain \in Option(Report)
           /\ state[s].confirmed \in Option(Report)
           /\ state[s].inFlight \in Option(Flight)
  BY DEF TypeOK, Queue

(* The client calls but send-now keep the invariant (queue_call).          *)
LEMMA CallSteps ==
    ASSUME IInv, NEW s \in Sessions,
           \/ QueueAdd(s) \/ QueueUpdate(s) \/ QueueRemove(s)
           \/ QueueResume(s) \/ QueueMove(s) \/ QueueClear(s)
    PROVE  IInv'
<1> DEFINE E == state[s].entries
<1>1. /\ TypeOK /\ E \in Seq(Entry) /\ NoDup(E) /\ IdsOf(E) \subseteq minted
      /\ minted \subseteq Ids /\ discarded \subseteq Ids /\ state[s] \in Queue
  BY QueueParts DEF IInv, Sound, TypeOK
<1>2. CASE QueueAdd(s)
  <2>1. PICK id \in Ids \ minted, text \in Texts :
          /\ Mutate(s, [state[s] EXCEPT
                          !.entries = Append(@, [id |-> id, text |-> text])])
          /\ minted' = minted \cup {id} /\ discarded' = discarded
    BY <1>2 DEF QueueAdd
  <2> DEFINE e == [id |-> id, text |-> text]
             q == [state[s] EXCEPT !.entries = Append(E, e)]
  <2>2. e \in Entry /\ e.id = id
    BY DEF Entry
  <2> HIDE DEF e
  <2>3. /\ Append(E, e) \in Seq(Entry) /\ NoDup(Append(E, e))
        /\ IdsOf(Append(E, e)) = IdsOf(E) \cup {id}
    BY <1>1, <2>2, AppendEntries
  <2>4. q \in Queue /\ q.entries = Append(E, e)
    BY <1>1, <2>3 DEF Queue
  <2>5. Mutate(s, q)
    BY <2>1 DEF e
  <2> QED
    BY <1>1, <2>1, <2>3, <2>4, <2>5, MutateStep
<1>3. CASE QueueUpdate(s)
  <2>1. PICK i \in DOMAIN E, text \in Texts :
          /\ Mutate(s, [state[s] EXCEPT !.entries[i].text = text])
          /\ minted' = minted /\ discarded' = discarded
    BY <1>3 DEF QueueUpdate
  <2> DEFINE R == [E EXCEPT ![i].text = text]
             q == [state[s] EXCEPT !.entries = R]
  <2>2. R \in Seq(Entry) /\ NoDup(R) /\ IdsOf(R) = IdsOf(E)
    BY <1>1, UpdateEntries
  <2>3. q \in Queue /\ q.entries = R
    BY <1>1, <2>2 DEF Queue
  <2>4. Mutate(s, q)
    BY <2>1
  <2> QED
    BY <1>1, <2>1, <2>2, <2>3, <2>4, MutateStep
<1>4. CASE QueueRemove(s)
  <2>1. PICK id \in minted :
          /\ Mutate(s, [state[s] EXCEPT
                          !.entries   = Without(@, id),
                          !.uncertain = {r \in @ : r.id # id},
                          !.confirmed = {r \in @ : r.id # id}])
          /\ discarded' = discarded \cup ({id} \cap IdsOf(E))
          /\ minted' = minted
    BY <1>4 DEF QueueRemove
  <2> DEFINE q == [state[s] EXCEPT
                     !.entries   = Without(@, id),
                     !.uncertain = {r \in @ : r.id # id},
                     !.confirmed = {r \in @ : r.id # id}]
  <2>2. /\ Without(E, id) \in Seq(Entry) /\ NoDup(Without(E, id))
        /\ IdsOf(Without(E, id)) \subseteq IdsOf(E)
    BY <1>1, WithoutEntries
  <2>3. /\ {r \in state[s].uncertain : r.id # id} \in Option(Report)
        /\ {r \in state[s].confirmed : r.id # id} \in Option(Report)
    BY <1>1, QueueParts, OptionFacts
  <2>4. q \in Queue /\ q.entries = Without(E, id)
    BY <1>1, <2>2, <2>3 DEF Queue
  <2>5. Mutate(s, q) /\ discarded' \subseteq Ids
    BY <1>1, <2>1
  <2> HIDE DEF q
  <2> QED
    BY <1>1, <2>1, <2>2, <2>4, <2>5, MutateStep
<1>5. CASE QueueResume(s)
  <2> DEFINE q == Resumed(state[s])
  <2>1. Mutate(s, q) /\ minted' = minted /\ discarded' = discarded
    BY <1>5 DEF QueueResume
  <2>2. q \in Queue /\ q.entries = E
    BY <1>1, OptionFacts DEF Queue, Resumed
  <2> QED
    BY <1>1, <2>1, <2>2, MutateStep
<1>6. CASE QueueMove(s)
  <2>1. PICK from \in DOMAIN E, to \in DOMAIN E :
          /\ Mutate(s, [state[s] EXCEPT
                !.entries = InsertAt(RemoveAt(E, from), to, E[from])])
          /\ minted' = minted /\ discarded' = discarded
    BY <1>6 DEF QueueMove
  <2> DEFINE A == RemoveAt(E, from)
             R == InsertAt(A, to, E[from])
             q == [state[s] EXCEPT !.entries = R]
  <2>2. A \in Seq(Entry) /\ NoDup(A) /\ IdsOf(A) = IdsOf(E) \ {E[from].id}
    BY <1>1, RemoveAtEntries
  <2>3. to \in 1..(Len(A) + 1)
    <3>1. Len(A) = Len(E) - 1
      BY <1>1, RemoveAtEntries
    <3> QED
      BY <1>1, <3>1
  <2>4. E[from] \in Entry /\ E[from].id \in IdsOf(E)
    BY <1>1 DEF IdsOf
  <2> HIDE DEF A
  <2>5. R \in Seq(Entry) /\ NoDup(R) /\ IdsOf(R) = IdsOf(A) \cup {E[from].id}
    BY <2>2, <2>3, <2>4, InsertAtEntries
  <2>6. q \in Queue /\ q.entries = R
    BY <1>1, <2>5 DEF Queue
  <2>7. Mutate(s, q)
    BY <2>1 DEF A
  <2> HIDE DEF R
  <2> QED
    BY <1>1, <2>1, <2>2, <2>4, <2>5, <2>6, <2>7, MutateStep
<1>7. CASE QueueClear(s)
  <2> DEFINE q == Resumed([state[s] EXCEPT !.entries = <<>>, !.uncertain = {}])
  <2>1. /\ Mutate(s, q) /\ minted' = minted
        /\ discarded' = discarded \cup IdsOf(E)
    BY <1>7 DEF QueueClear
  <2>2. q \in Queue /\ q.entries = <<>>
    <3>1. /\ <<>> \in Seq(Entry) /\ {} \in Option(Report) /\ FALSE \in BOOLEAN
      BY OptionFacts
    <3> QED
      BY <1>1, <3>1 DEF Queue, Resumed
  <2>3. NoDup(<<>>) /\ IdsOf(<<>>) = {}
    BY DEF NoDup, IdsOf
  <2>4. discarded' \subseteq Ids
    BY <1>1, <2>1
  <2> HIDE DEF q
  <2> QED
    BY <1>1, <2>1, <2>2, <2>3, <2>4, MutateStep
<1> QED
  BY <1>2, <1>3, <1>4, <1>5, <1>6, <1>7

-----------------------------------------------------------------------------
(* Deliveries                                                              *)

(* Deliveries that go on, while no queue gains one of their ids.           *)
LEMMA FlightsKept ==
    ASSUME IInv, UNCHANGED attempts,
           \A y \in Sessions : Sending(y)' \subseteq Sending(y),
           \A y \in Sessions : \A t \in Sending(y)' : \A f \in t.flight :
               \A x \in Sessions : f.id \notin IdsOf(state'[x].entries)
    PROVE  FlightsSound'
<1> SUFFICES ASSUME NEW y \in Sessions, NEW t \in Sending(y)', NEW f \in t.flight
             PROVE  FlightSound(y, f)'
  BY DEF FlightsSound
<1>1. FlightSound(y, f)
  BY DEF IInv, FlightsSound
<1> QED
  BY <1>1 DEF FlightSound

(* A committed queue, and its document or the old one.                     *)
LEMMA CommitSound ==
    ASSUME IInv, NEW s \in Sessions, NEW q \in Queue, NoDup(q.entries),
           NEW tn \in [Sessions -> Option(Turn)], Commit(s, q, tn),
           NEW X \in SUBSET minted, UNCHANGED <<attempts, minted>>,
           IdsOf(q.entries) \subseteq IdsOf(state[s].entries) \cup X,
           \A x \in Sessions \ {s} : X \cap IdsOf(state[x].entries) = {},
           \A id \in X, u \in Uuids :
               \A a \in attempts[u] : a.id = id => a.fate = "refused"
    PROVE  /\ state' = [state EXCEPT ![s] = q]
           /\ state' \in [Sessions -> Queue] /\ records' \subseteq Sessions
           /\ turns' \in [Sessions -> Option(Turn)]
           /\ disk' \in Document /\ budget' \in Budget
           /\ Sound(state', attempts', minted')
           /\ Sound(disk'.queues, attempts', minted')
<1>1. /\ state' = [state EXCEPT ![s] = q] /\ records' = records \cup {s}
      /\ turns' = tn
      /\ \/ disk' = DocumentOf(state', records', tn) /\ budget' = budget
         \/ /\ budget.write > 0 /\ budget' = [budget EXCEPT !.write = @ - 1]
            /\ disk' = disk
  BY DEF Commit, WriteFails
<1>2. budget' \in Budget
  BY <1>1 DEF IInv, TypeOK, Budget
<1>3. \/ \E tm : disk' = DocumentOf(state', records', tm)
      \/ disk' = disk
  BY <1>1
<1>4. /\ X \in SUBSET minted' /\ minted \subseteq minted' /\ attempts' = attempts
  OBVIOUS
<1>5. /\ state' \in [Sessions -> Queue] /\ records' \subseteq Sessions
      /\ disk' \in Document
      /\ Sound(state', attempts', minted')
      /\ Sound(disk'.queues, attempts', minted')
  BY <1>1, <1>3, <1>4, WriteSound
<1> QED
  BY <1>1, <1>2, <1>5

(* The same with no new ids, when the delivery of s is over or not begun.  *)
LEMMA CommitStep ==
    ASSUME IInv, NEW s \in Sessions, NEW q \in Queue, NoDup(q.entries),
           NEW tn \in [Sessions -> Option(Turn)], Commit(s, q, tn),
           IdsOf(q.entries) \subseteq IdsOf(state[s].entries),
           task' \in [Sessions -> Option(Task)],
           \A y \in Sessions : Sending(y)' \subseteq Sending(y),
           reported' \subseteq Ids,
           UNCHANGED <<delivered, rows, attempts, minted, discarded, replaced>>
    PROVE  IInv'
<1>1. /\ state' = [state EXCEPT ![s] = q]
      /\ state' \in [Sessions -> Queue] /\ records' \subseteq Sessions
      /\ turns' \in [Sessions -> Option(Turn)]
      /\ disk' \in Document /\ budget' \in Budget
      /\ Sound(state', attempts', minted')
      /\ Sound(disk'.queues, attempts', minted')
  <2>1. /\ {} \in SUBSET minted
        /\ IdsOf(q.entries) \subseteq IdsOf(state[s].entries) \cup {}
        /\ \A x \in Sessions \ {s} : {} \cap IdsOf(state[x].entries) = {}
        /\ \A id \in {}, u \in Uuids :
              \A a \in attempts[u] : a.id = id => a.fate = "refused"
    OBVIOUS
  <2>2. UNCHANGED <<attempts, minted>>
    OBVIOUS
  <2> QED
    BY <2>1, <2>2, CommitSound
<1>2. TypeOK'
  BY <1>1 DEF IInv, TypeOK
<1>3. FlightsSound'
  <2>1. \A x \in Sessions : IdsOf(state'[x].entries) \subseteq
                                IdsOf(state[x].entries)
    BY <1>1 DEF IInv, TypeOK
  <2>2. \A y \in Sessions : \A t \in Sending(y)' : \A f \in t.flight :
           \A x \in Sessions : f.id \notin IdsOf(state'[x].entries)
    BY <2>1 DEF IInv, FlightsSound, FlightSound
  <2> QED
    BY <2>2, FlightsKept
<1>4. AttemptsMinted' /\ AtMostOnce'
  BY AttemptsKept
<1> QED
  BY <1>1, <1>2, <1>3, <1>4 DEF IInv

(* Closing the delivery of s leaves the deliveries of the others.          *)
LEMMA EndTask ==
    ASSUME IInv, NEW s \in Sessions, task' = [task EXCEPT ![s] = {}]
    PROVE  /\ task' \in [Sessions -> Option(Task)]
           /\ Sending(s)' = {}
           /\ \A y \in Sessions : Sending(y)' \subseteq Sending(y)
           /\ \A y \in Sessions \ {s} : Sending(y)' = Sending(y)
  BY OptionFacts DEF IInv, TypeOK, Sending

(* Picking the head of a queue, and settling a report (flush_queue).       *)
LEMMA FlushQueueStep ==
    ASSUME IInv, NEW s \in Sessions, FlushQueue(s)
    PROVE  IInv'
<1> DEFINE q == Confirm(s)
<1>1. PICK r \in rows[s] :
        /\ Free(s)
        /\ IF q # state[s] THEN Commit(s, q, turns)
           ELSE UNCHANGED <<state, records, turns, disk, budget>>
        /\ task' = [task EXCEPT ![s] =
             IF WantsFlush(q, turns[s], r)
             THEN {[phase |-> "picked", auto |-> TRUE, row |-> {r},
                    flight |-> {}, index |-> 1, previous |-> {}]}
             ELSE {}]
        /\ UNCHANGED <<delivered, rows, attempts, minted, discarded,
                       reported, replaced>>
  BY DEF FlushQueue, history
<1>2. r \in Row
  BY OptionFacts DEF IInv, TypeOK
<1>3. [phase |-> "picked", auto |-> TRUE, row |-> {r},
       flight |-> {}, index |-> 1, previous |-> {}] \in Task
  <2>1. /\ {r} \in Option(Row) /\ {} \in Option(Flight) /\ {} \in Option(Turn)
    BY <1>2, OptionFacts
  <2> QED
    BY <2>1 DEF Task
<1>4. task' \in [Sessions -> Option(Task)]
  <2> DEFINE v == IF WantsFlush(q, turns[s], r)
                  THEN {[phase |-> "picked", auto |-> TRUE, row |-> {r},
                         flight |-> {}, index |-> 1, previous |-> {}]}
                  ELSE {}
  <2>1. v \in Option(Task)
    BY <1>3, OptionFacts
  <2>2. task' = [task EXCEPT ![s] = v]
    BY <1>1
  <2> HIDE DEF v
  <2> QED
    BY <2>1, <2>2 DEF IInv, TypeOK
<1>5. \A y \in Sessions : Sending(y)' \subseteq Sending(y)
  <2>1. ASSUME NEW y \in Sessions, NEW t \in task'[y], t.phase = "sending"
        PROVE  t \in task[y]
    <3>1. CASE y = s
      BY <2>1, <3>1, <1>1 DEF IInv, TypeOK
    <3>2. CASE y # s
      BY <3>2, <1>1 DEF IInv, TypeOK
    <3> QED
      BY <3>1, <3>2
  <2> QED
    BY <2>1 DEF Sending
<1>6. /\ q \in Queue /\ q.entries = state[s].entries
      /\ turns \in [Sessions -> Option(Turn)] /\ NoDup(q.entries)
  <2>1. state[s] \in Queue /\ NoDup(state[s].entries)
    BY QueueParts DEF IInv, Sound
  <2>2. {} \in Option(Report) /\ Confirmable(s) \in Option(Report)
    BY QueueParts, OptionFacts DEF IInv, Confirmable
  <2> QED
    BY <2>1, <2>2 DEF IInv, TypeOK, Queue, Confirm
<1> HIDE DEF q
<1>7. CASE q # state[s]
  <2>1. Commit(s, q, turns)
    BY <1>1, <1>7
  <2>2. /\ reported' \subseteq Ids
        /\ UNCHANGED <<delivered, rows, attempts, minted, discarded, replaced>>
    BY <1>1 DEF IInv, TypeOK
  <2> QED
    BY <1>4, <1>5, <1>6, <2>1, <2>2, CommitStep
<1>8. CASE q = state[s]
  <2>1. UNCHANGED <<state, records, turns, disk, budget, delivered, rows,
                    attempts, minted, discarded, reported, replaced>>
    BY <1>1, <1>8
  <2>2. TypeOK'
    BY <1>4, <2>1 DEF IInv, TypeOK
  <2>3. \A y \in Sessions : \A t \in Sending(y)' : \A f \in t.flight :
           \A x \in Sessions : f.id \notin IdsOf(state'[x].entries)
    BY <1>5, <2>1 DEF IInv, FlightsSound, FlightSound
  <2>4. FlightsSound'
    BY <1>5, <2>1, <2>3, FlightsKept
  <2>5. AttemptsMinted' /\ AtMostOnce'
    BY <2>1, AttemptsKept
  <2>6. Sound(state', attempts', minted') /\ Sound(disk'.queues, attempts', minted')
    BY <2>1 DEF IInv
  <2> QED
    BY <2>2, <2>4, <2>5, <2>6 DEF IInv
<1> QED
  BY <1>7, <1>8

(* The watch a send starts has its type.                                   *)
LEMMA AfterSendType ==
    ASSUME NEW row \in Option(Row), NEW previous \in Option(Turn)
    PROVE  AfterSend(row, previous) \in Turn
<1> DEFINE ready == \E r \in row : r.state = "ready"
           owed  == IF previous = {} THEN 0
                    ELSE (CHOOSE p \in previous : TRUE).ends + 1
           base  == IF ready THEN 1 ELSE 2
<1>1. owed \in Nat
  <2>1. CASE previous # {}
    <3>1. (CHOOSE p \in previous : TRUE) \in Turn
      BY <2>1, OptionFacts
    <3> QED
      BY <3>1 DEF Turn, MaxEnds
  <2> QED
    BY <2>1
<1>2. Clamp(owed, base) \in 0..MaxEnds
  BY <1>1 DEF Clamp, MaxEnds
<1>3. {r.prompts : r \in row} \in Option(Nat)
  <2>1. \A r \in row : r \in Row /\ row = {r}
    BY OptionFacts
  <2> QED
    BY <2>1 DEF Option, Row
<1>4. AfterSend(row, previous) =
        [ends |-> Clamp(owed, base), sawBusy |-> ~ready,
         prompts |-> {r.prompts : r \in row}, since |-> "off"]
  BY DEF AfterSend
<1> HIDE DEF owed, base
<1> QED
  BY <1>2, <1>3, <1>4 DEF Turn, Clock

(* New attempts leave queues sound that hold none of their ids.            *)
LEMMA SoundAttempts ==
    ASSUME NEW Q, NEW att, NEW att2, NEW mint, Sound(Q, att, mint),
           \A u \in Uuids :
               \/ att2[u] = att[u]
               \/ \A a \in att2[u] : \/ a.fate = "refused"
                                     \/ \A x \in Sessions :
                                          a.id \notin IdsOf(Q[x].entries)
    PROVE  Sound(Q, att2, mint)
  BY DEF Sound

(* A taken entry had no attempt that may have arrived, and has now one.    *)
LEMMA TakeStep ==
    ASSUME IInv, NEW s \in Sessions, NEW q \in Queue,
           q.entries = state[s].entries,
           NEW k \in DOMAIN q.entries, NEW u \in Uuids, NEW auto \in BOOLEAN,
           NEW row \in Option(Row), NEW previous \in Option(Turn),
           Take(s, q, k, u, auto, row, previous),
           budget' \in Budget, replaced' \subseteq Ids,
           UNCHANGED <<delivered, rows, minted, discarded, reported>>
    PROVE  IInv'
<1> DEFINE E == state[s].entries
           e == q.entries[k]
           f == [id |-> e.id, text |-> e.text, uuid |-> u]
           n == [q EXCEPT !.entries = RemoveAt(@, k), !.inFlight = {f}]
           tk == [phase |-> "sending", auto |-> auto, row |-> {},
                  flight |-> {f}, index |-> k, previous |-> previous]
           at == [session |-> s, id |-> e.id, fate |-> "pending"]
<1>1. /\ attempts[u] = {}
      /\ state' = [state EXCEPT ![s] = n] /\ records' = records \cup {s}
      /\ disk' = DocumentOf(state', records', turns)
      /\ turns' = [turns EXCEPT ![s] = {AfterSend(row, previous)}]
      /\ attempts' = [attempts EXCEPT ![u] = {at}]
      /\ task' = [task EXCEPT ![s] = {tk}]
  BY DEF Take, Transact, Fresh
<1>2. /\ E \in Seq(Entry) /\ NoDup(E) /\ e \in Entry /\ e.id \in IdsOf(E)
      /\ e.id \in minted /\ e.id \in Ids /\ e.text \in Texts
  <2>1. E \in Seq(Entry) /\ NoDup(E) /\ IdsOf(E) \subseteq minted
    BY QueueParts DEF IInv, Sound
  <2>2. e \in Entry /\ e.id \in IdsOf(E)
    BY <2>1 DEF IdsOf
  <2> QED
    BY <2>1, <2>2 DEF Entry
<1>3. /\ RemoveAt(E, k) \in Seq(Entry) /\ NoDup(RemoveAt(E, k))
      /\ IdsOf(RemoveAt(E, k)) = IdsOf(E) \ {e.id}
  BY <1>2, RemoveAtEntries
<1> HIDE DEF e
<1>4. f \in Flight /\ f.id = e.id /\ f.uuid = u
  BY <1>2 DEF Flight
<1>5. n \in Queue /\ n.entries = RemoveAt(E, k)
  <2>1. {f} \in Option(Flight)
    BY <1>4, OptionFacts
  <2> QED
    BY <1>3, <2>1 DEF Queue
<1>6. tk \in Task /\ tk.flight = {f} /\ tk.phase = "sending"
  <2>1. {f} \in Option(Flight) /\ {} \in Option(Row) /\ k \in Nat \ {0}
    BY <1>2, <1>4, OptionFacts
  <2> QED
    BY <2>1 DEF Task
<1>7. at \in Attempt /\ at.id = e.id /\ at.fate = "pending"
  BY <1>2 DEF Attempt
<1> HIDE DEF f, n, tk, at
<1>8. state' \in [Sessions -> Queue] /\ records' \in SUBSET Sessions
  BY <1>1, <1>5 DEF IInv, TypeOK
<1>9. Sound(state', attempts, minted)
  <2>1. /\ Sound(state, attempts, minted) /\ state \in [Sessions -> Queue]
        /\ NoDup(n.entries) /\ {} \in SUBSET minted
        /\ IdsOf(n.entries) \subseteq IdsOf(state[s].entries) \cup {}
        /\ \A x \in Sessions \ {s} : {} \cap IdsOf(state[x].entries) = {}
        /\ \A id \in {}, v \in Uuids :
              \A a \in attempts[v] : a.id = id => a.fate = "refused"
    BY <1>3, <1>5 DEF IInv, TypeOK
  <2> QED
    BY <1>1, <1>5, <2>1, SoundReplace
<1>10. \A x \in Sessions : /\ e.id \notin IdsOf(state'[x].entries)
                           /\ IdsOf(state'[x].entries) \subseteq
                                 IdsOf(state[x].entries)
  <2> TAKE x \in Sessions
  <2>1. CASE x = s
    BY <2>1, <1>1, <1>3, <1>5 DEF IInv, TypeOK
  <2>2. CASE x # s
    <3>1. state'[x] = state[x]
      BY <2>2, <1>1 DEF IInv, TypeOK
    <3>2. IdsOf(state[s].entries) \cap IdsOf(state[x].entries) = {}
      BY <2>2 DEF IInv, Sound
    <3> QED
      BY <3>1, <3>2, <1>2
  <2> QED
    BY <2>1, <2>2
<1>11. Sound(state', attempts', minted')
  <2>1. \A v \in Uuids :
           \/ attempts'[v] = attempts[v]
           \/ \A a \in attempts'[v] : \A x \in Sessions :
                 a.id \notin IdsOf(state'[x].entries)
    BY <1>1, <1>7, <1>10 DEF IInv, TypeOK
  <2>2. Sound(state', attempts', minted)
    BY <1>9, <2>1, SoundAttempts
  <2> QED
    BY <2>2
<1>12. disk' \in Document /\ Sound(disk'.queues, attempts', minted')
  BY <1>1, <1>8, <1>11, DocumentSound
<1>13. TypeOK'
  <2>1. turns' \in [Sessions -> Option(Turn)]
    <3>1. {AfterSend(row, previous)} \in Option(Turn)
      BY AfterSendType, OptionFacts
    <3> QED
      BY <1>1, <3>1 DEF IInv, TypeOK
  <2>2. task' \in [Sessions -> Option(Task)]
    <3>1. {tk} \in Option(Task)
      BY <1>6, OptionFacts
    <3> QED
      BY <1>1, <3>1 DEF IInv, TypeOK
  <2>3. attempts' \in [Uuids -> Option(Attempt)]
    <3>1. {at} \in Option(Attempt)
      BY <1>7, OptionFacts
    <3> QED
      BY <1>1, <3>1 DEF IInv, TypeOK
  <2> QED
    BY <1>8, <1>12, <2>1, <2>2, <2>3 DEF IInv, TypeOK
<1>14. /\ attempts'[u] = {at}
       /\ \A v \in Uuids \ {u} : attempts'[v] = attempts[v]
       /\ \A v \in Uuids : \A a \in attempts[v] : a.id = e.id => a.fate = "refused"
  BY <1>1, <1>2 DEF IInv, TypeOK, Sound
<1>15. FlightsSound'
  <2>1. Sending(s)' = {tk} /\ \A y \in Sessions \ {s} : Sending(y)' = Sending(y)
    BY <1>1, <1>6 DEF IInv, TypeOK, Sending
  <2>2. \A y \in Sessions \ {s} : \A t \in Sending(y) : \A g \in t.flight :
           FlightSound(y, g) /\ g.id # e.id /\ g.uuid \in Uuids \ {u}
    <3> SUFFICES ASSUME NEW y \in Sessions \ {s}, NEW t \in Sending(y),
                        NEW g \in t.flight
                 PROVE  FlightSound(y, g) /\ g.id # e.id /\ g.uuid \in Uuids \ {u}
      OBVIOUS
    <3>1. FlightSound(y, g)
      BY DEF IInv, FlightsSound
    <3>2. g.uuid \in Uuids
      BY SendingType DEF IInv, Sending, Flight
    <3> QED
      BY <3>1, <3>2, <1>1, <1>2 DEF FlightSound
  <2>3. FlightSound(s, f)'
    BY <1>4, <1>7, <1>10, <1>14, <2>1, <2>2 DEF FlightSound
  <2>4. ASSUME NEW y \in Sessions \ {s}, NEW t \in Sending(y), NEW g \in t.flight
        PROVE  FlightSound(y, g)'
    <3>1. FlightSound(y, g) /\ g.id # e.id /\ g.uuid \in Uuids \ {u}
      BY <2>2
    <3>2. \E a \in attempts'[g.uuid] : a.id = g.id
      BY <3>1, <1>14 DEF FlightSound
    <3>3. \A v \in Uuids \ {g.uuid} :
             \A a \in attempts'[v] : a.id = g.id => a.fate = "refused"
      BY <3>1, <1>7, <1>14 DEF FlightSound
    <3>4. \A x \in Sessions : g.id \notin IdsOf(state'[x].entries)
      BY <3>1, <1>10 DEF FlightSound
    <3>5. \A x \in Sessions \ {y} : \A t2 \in Sending(x)' : \A h \in t2.flight :
             h.id # g.id
      BY <3>1, <2>1, <1>4, <1>6 DEF FlightSound
    <3> QED
      BY <3>2, <3>3, <3>4, <3>5 DEF FlightSound
  <2> QED
    BY <2>1, <2>3, <2>4, <1>6 DEF FlightsSound
<1>16. AttemptsMinted'
  BY <1>2, <1>7, <1>14 DEF IInv, AttemptsMinted
<1>17. AtMostOnce'
  <2> SUFFICES ASSUME NEW id \in Ids, NEW v \in AttemptsOf(id)',
                      NEW w \in AttemptsOf(id)',
                      MayHaveArrived(v)', MayHaveArrived(w)'
               PROVE  v = w
    BY DEF AtMostOnce
  <2>1. \A x \in Uuids \ {u} : MayHaveArrived(x)' = MayHaveArrived(x)
    BY <1>14 DEF MayHaveArrived
  <2>2. attempts' \in [Uuids -> Option(Attempt)]
    BY <1>13 DEF TypeOK
  <2>3. CASE id = e.id
    <3>1. \A x \in Uuids \ {u} : x \in AttemptsOf(id)' => ~MayHaveArrived(x)'
      <4> SUFFICES ASSUME NEW x \in Uuids \ {u}, x \in AttemptsOf(id)'
                   PROVE  ~MayHaveArrived(x)'
        OBVIOUS
      <4>1. PICK a \in attempts'[x] : a.id = id
        BY DEF AttemptsOf
      <4>2. attempts'[x] = {a} /\ a \in attempts[x]
        BY <4>1, <2>2, <1>14, OptionFacts
      <4> QED
        BY <4>1, <4>2, <2>3, <1>14 DEF MayHaveArrived
    <3> QED
      BY <3>1 DEF AttemptsOf
  <2>4. CASE id # e.id
    <3>1. v \in AttemptsOf(id) \ {u} /\ w \in AttemptsOf(id) \ {u}
      BY <2>4, <1>7, <1>14 DEF AttemptsOf
    <3>2. MayHaveArrived(v) /\ MayHaveArrived(w)
      BY <3>1, <2>1 DEF AttemptsOf
    <3> QED
      BY <3>1, <3>2 DEF IInv, AtMostOnce
  <2> QED
    BY <2>3, <2>4
<1> QED
  BY <1>11, <1>12, <1>13, <1>15, <1>16, <1>17 DEF IInv

(* The worker and send-now take an entry (flush, send_now).                *)
LEMMA FlushTakeStep ==
    ASSUME IInv, NEW s \in Sessions, FlushTake(s) \/ QueueSendNow(s)
    PROVE  IInv'
<1>1. /\ state[s] \in Queue /\ state[s].entries \in Seq(Entry)
      /\ TypeOK /\ budget \in Budget
  BY QueueParts DEF IInv, TypeOK
<1>2. CASE FlushTake(s)
  <2>1. PICK t \in task[s], u \in Uuids :
          /\ state[s].entries # <<>>
          /\ Take(s, state[s], 1, u, TRUE, t.row, {})
          /\ UNCHANGED <<delivered, rows, minted, discarded,
                         reported, replaced, budget>>
    BY <1>2 DEF FlushTake, history
  <2>2. t.row \in Option(Row) /\ {} \in Option(Turn)
    BY <1>1, SendingType, OptionFacts
  <2>3. 1 \in DOMAIN state[s].entries
    BY <1>1, <2>1
  <2>4. budget' \in Budget /\ replaced' \subseteq Ids
    BY <1>1, <2>1 DEF TypeOK
  <2> QED
    BY <1>1, <2>1, <2>2, <2>3, <2>4, TakeStep
<1>3. CASE QueueSendNow(s)
  <2> DEFINE q == Resumed(state[s])
  <2>1. PICK i \in DOMAIN state[s].entries, u \in Uuids :
          /\ budget.sendNow > 0
          /\ budget' = [budget EXCEPT !.sendNow = @ - 1]
          /\ Take(s, q, i, u, FALSE, rows[s], turns[s])
          /\ replaced' = replaced \cup {f.id : f \in state[s].inFlight}
          /\ UNCHANGED <<delivered, rows, minted, discarded, reported>>
    BY <1>3 DEF QueueSendNow
  <2>2. q \in Queue /\ q.entries = state[s].entries
    BY <1>1, OptionFacts DEF Queue, Resumed
  <2>3. budget' \in Budget
    BY <1>1, <2>1 DEF Budget
  <2>4. rows[s] \in Option(Row) /\ turns[s] \in Option(Turn)
    BY <1>1 DEF TypeOK
  <2>5. replaced' \subseteq Ids
    <3>1. state[s].inFlight \subseteq Flight /\ replaced \subseteq Ids
      BY <1>1, QueueParts, OptionFacts DEF TypeOK
    <3> QED
      BY <2>1, <3>1 DEF Flight
  <2> HIDE DEF q
  <2> QED
    BY <2>1, <2>2, <2>3, <2>4, <2>5, TakeStep
<1> QED
  BY <1>2, <1>3

(* A flush that could not take its entry only pauses (flush).              *)
LEMMA FlushPauseStep ==
    ASSUME IInv, NEW s \in Sessions, FlushPause(s)
    PROVE  IInv'
<1> DEFINE q == [state[s] EXCEPT !.paused = TRUE]
<1>1. /\ task' = [task EXCEPT ![s] = {}]
      /\ UNCHANGED <<delivered, rows, attempts, minted, discarded,
                     reported, replaced>>
      /\ \/ Commit(s, q, turns)
         \/ /\ budget.write > 0
            /\ state' = [state EXCEPT ![s] = q]
            /\ records' = records \cup {s} /\ UNCHANGED turns
            /\ \/ /\ disk' = DocumentOf(state', records', turns)
                  /\ budget' = [budget EXCEPT !.write = @ - 1]
               \/ /\ budget.write > 1
                  /\ budget' = [budget EXCEPT !.write = @ - 2]
                  /\ UNCHANGED disk
  BY DEF FlushPause, history
<1>2. /\ q \in Queue /\ q.entries = state[s].entries /\ NoDup(q.entries)
      /\ turns \in [Sessions -> Option(Turn)]
      /\ reported' \subseteq Ids
  BY <1>1, QueueParts DEF IInv, TypeOK, Sound, Queue
<1>3. /\ task' \in [Sessions -> Option(Task)]
      /\ \A y \in Sessions : Sending(y)' \subseteq Sending(y)
  BY <1>1, EndTask
<1> HIDE DEF q
<1>4. CASE Commit(s, q, turns)
  BY <1>1, <1>2, <1>3, <1>4, CommitStep
<1>5. CASE ~Commit(s, q, turns)
  <2>1. /\ state' = [state EXCEPT ![s] = q] /\ records' = records \cup {s}
        /\ turns' = turns
        /\ budget' \in Budget
        /\ \/ \E tn : disk' = DocumentOf(state', records', tn)
           \/ disk' = disk
    BY <1>1, <1>5 DEF IInv, TypeOK, Budget
  <2>2. /\ state' \in [Sessions -> Queue] /\ records' \subseteq Sessions
        /\ disk' \in Document
        /\ Sound(state', attempts', minted')
        /\ Sound(disk'.queues, attempts', minted')
    <3>1. /\ {} \in SUBSET minted' /\ minted \subseteq minted'
          /\ attempts' = attempts
          /\ IdsOf(q.entries) \subseteq IdsOf(state[s].entries) \cup {}
          /\ \A x \in Sessions \ {s} : {} \cap IdsOf(state[x].entries) = {}
          /\ \A id \in {}, u \in Uuids :
                \A a \in attempts[u] : a.id = id => a.fate = "refused"
      BY <1>1, <1>2
    <3> QED
      BY <1>2, <2>1, <3>1, WriteSound
  <2>3. TypeOK'
    BY <1>1, <1>2, <1>3, <2>1, <2>2 DEF IInv, TypeOK
  <2>4. \A y \in Sessions : \A t \in Sending(y)' : \A f \in t.flight :
           \A x \in Sessions : f.id \notin IdsOf(state'[x].entries)
    <3>1. \A x \in Sessions : state'[x].entries = state[x].entries
      BY <1>2, <2>1 DEF IInv, TypeOK
    <3> QED
      BY <1>3, <3>1 DEF IInv, FlightsSound, FlightSound
  <2>5. FlightsSound'
    BY <1>1, <1>3, <2>4, FlightsKept
  <2>6. AttemptsMinted' /\ AtMostOnce'
    BY <1>1, AttemptsKept
  <2> QED
    BY <2>2, <2>3, <2>5, <2>6 DEF IInv
<1> QED
  BY <1>4, <1>5

(* Starting the clock of a watch keeps its type.                           *)
LEMMA DeliveredTurnsType ==
    ASSUME TypeOK, NEW s \in Sessions
    PROVE  DeliveredTurns(s) \in [Sessions -> Option(Turn)]
<1> DEFINE D == {Delivered(x) : x \in turns[s]}
<1>1. turns \in [Sessions -> Option(Turn)] /\ turns[s] \in Option(Turn)
  BY DEF TypeOK
<1>2. \A x \in turns[s] : x \in Turn /\ turns[s] = {x}
  BY <1>1, OptionFacts
<1>3. \A x \in Turn : Delivered(x) \in Turn
  BY DEF Delivered, Turn, Clock
<1>4. D \in Option(Turn)
  <2>1. CASE turns[s] = {}
    BY <2>1, OptionFacts
  <2>2. CASE turns[s] # {}
    <3>1. PICK x : x \in turns[s]
      BY <2>2
    <3>2. D = {Delivered(x)}
      BY <3>1, <1>2
    <3> QED
      BY <3>1, <3>2, <1>2, <1>3, OptionFacts
  <2> QED
    BY <2>1, <2>2
<1>5. DeliveredTurns(s) = [turns EXCEPT ![s] = D]
  BY DEF DeliveredTurns
<1> HIDE DEF D
<1> QED
  BY <1>1, <1>4, <1>5

(* Settling a delivery that was sent, or whose outcome is unknown.         *)
LEMMA SettleSteps ==
    ASSUME IInv, NEW s \in Sessions, SettleSent(s) \/ SettleUncertain(s)
    PROVE  IInv'
<1> DEFINE n == [state[s] EXCEPT !.inFlight = {}]
<1>1. /\ TypeOK /\ n \in Queue /\ n.entries = state[s].entries
      /\ NoDup(state[s].entries)
      /\ DeliveredTurns(s) \in [Sessions -> Option(Turn)]
      /\ reported \subseteq Ids
  <2>1. {} \in Option(Flight)
    BY OptionFacts
  <2> QED
    BY <2>1, QueueParts, DeliveredTurnsType DEF IInv, TypeOK, Sound, Queue
<1> HIDE DEF n
<1>2. CASE SettleSent(s)
  <2>1. /\ Commit(s, n, DeliveredTurns(s))
        /\ task' = [task EXCEPT ![s] = {}]
        /\ UNCHANGED <<delivered, rows, attempts, minted, discarded,
                       reported, replaced>>
    BY <1>2 DEF SettleSent, history, n
  <2>2. /\ task' \in [Sessions -> Option(Task)]
        /\ \A y \in Sessions : Sending(y)' \subseteq Sending(y)
    BY <2>1, EndTask
  <2> QED
    BY <1>1, <2>1, <2>2, CommitStep
<1>3. CASE SettleUncertain(s)
  <2>1. PICK t \in Sending(s) : \E f \in t.flight :
          /\ Commit(s, MarkUncertain(n, f), DeliveredTurns(s))
          /\ reported' = reported \cup {f.id}
          /\ task' = [task EXCEPT ![s] = {}]
          /\ UNCHANGED <<delivered, rows, attempts, minted, discarded, replaced>>
    BY <1>3 DEF SettleUncertain, n
  <2>2. PICK f \in t.flight :
          /\ Commit(s, MarkUncertain(n, f), DeliveredTurns(s))
          /\ reported' = reported \cup {f.id}
          /\ task' = [task EXCEPT ![s] = {}]
          /\ UNCHANGED <<delivered, rows, attempts, minted, discarded, replaced>>
    BY <2>1
  <2> DEFINE m == MarkUncertain(n, f)
  <2>3. f \in Flight /\ f.id \in Ids
    BY <1>1, SendingType DEF Sending, Flight
  <2>4. m \in Queue /\ m.entries = state[s].entries
    <3>0. [id |-> f.id, uuid |-> f.uuid] \in Report
      BY <2>3 DEF Flight, Report
    <3>1. {[id |-> f.id, uuid |-> f.uuid]} \in Option(Report)
      BY <3>0, OptionFacts
    <3>2. {} \in Option(Report)
      BY OptionFacts
    <3> QED
      BY <1>1, <3>1, <3>2 DEF MarkUncertain, Queue
  <2>5. /\ task' \in [Sessions -> Option(Task)]
        /\ \A y \in Sessions : Sending(y)' \subseteq Sending(y)
        /\ reported' \subseteq Ids
    BY <1>1, <2>2, <2>3, EndTask
  <2> HIDE DEF m
  <2>6. Commit(s, m, DeliveredTurns(s))
    BY <2>2 DEF m
  <2> QED
    BY <1>1, <2>2, <2>4, <2>5, <2>6, CommitStep
<1> QED
  BY <1>2, <1>3

(* A refused entry goes back: its attempt definitely did not arrive.       *)
LEMMA SettleRejectedStep ==
    ASSUME IInv, NEW s \in Sessions, SettleRejected(s)
    PROVE  IInv'
<1> DEFINE E == state[s].entries
<1>0. TypeOK /\ E \in Seq(Entry) /\ NoDup(E) /\ state[s] \in Queue
  BY QueueParts DEF IInv, Sound
<1>1. PICK t \in Sending(s) : \E f \in t.flight :
        LET k == IF t.index > Len(E) THEN Len(E) + 1 ELSE t.index
        IN /\ FateOf(f) = "refused"
           /\ Commit(s, [state[s] EXCEPT
                  !.inFlight = {},
                  !.entries  = InsertAt(E, k, [id |-> f.id, text |-> f.text]),
                  !.paused   = @ \/ t.auto],
                [turns EXCEPT ![s] = t.previous])
           /\ task' = [task EXCEPT ![s] = {}]
           /\ UNCHANGED <<delivered, rows, attempts, minted, discarded,
                          reported, replaced>>
  BY DEF SettleRejected, history
<1> DEFINE k == IF t.index > Len(E) THEN Len(E) + 1 ELSE t.index
           tn == [turns EXCEPT ![s] = t.previous]
<1>2. PICK f \in t.flight :
        /\ FateOf(f) = "refused"
        /\ Commit(s, [state[s] EXCEPT
               !.inFlight = {},
               !.entries  = InsertAt(E, k, [id |-> f.id, text |-> f.text]),
               !.paused   = @ \/ t.auto], tn)
        /\ task' = [task EXCEPT ![s] = {}]
        /\ UNCHANGED <<delivered, rows, attempts, minted, discarded,
                       reported, replaced>>
  BY <1>1
<1> DEFINE e == [id |-> f.id, text |-> f.text]
           R == InsertAt(E, k, e)
           q == [state[s] EXCEPT !.inFlight = {}, !.entries = R,
                                 !.paused = @ \/ t.auto]
<1>3. /\ t \in task[s] /\ f \in Flight /\ t.index \in Nat \ {0}
      /\ t.previous \in Option(Turn) /\ t.auto \in BOOLEAN
  BY <1>0, SendingType DEF Sending
<1>4. FlightSound(s, f)
  BY DEF IInv, FlightsSound
<1>5. /\ e \in Entry /\ e.id = f.id /\ e.id \notin IdsOf(E)
      /\ k \in 1..(Len(E) + 1)
  <2>1. e \in Entry /\ e.id = f.id
    BY <1>3 DEF Entry, Flight
  <2>2. f.id \notin IdsOf(E)
    BY <1>4 DEF FlightSound
  <2>3. Len(E) \in Nat
    BY <1>0
  <2> QED
    BY <1>3, <2>1, <2>2, <2>3
<1>6. /\ R \in Seq(Entry) /\ NoDup(R) /\ IdsOf(R) = IdsOf(E) \cup {f.id}
  <2> HIDE DEF e, k
  <2> QED
    BY <1>0, <1>5, InsertAtEntries
<1>7. q \in Queue /\ q.entries = R
  <2>1. {} \in Option(Flight)
    BY OptionFacts
  <2> HIDE DEF R
  <2>2. (state[s].paused \/ t.auto) \in BOOLEAN
    OBVIOUS
  <2> QED
    BY <1>0, <1>6, <2>1, <2>2 DEF Queue
<1>8. Commit(s, q, tn)
  BY <1>2
<1>9. tn \in [Sessions -> Option(Turn)]
  BY <1>0, <1>3 DEF TypeOK
<1> HIDE DEF q, R, tn, e, k
<1>10. \A u \in Uuids : \A a \in attempts[u] : a.id = f.id => a.fate = "refused"
  <2>1. \A a \in attempts[f.uuid] : a.fate = "refused"
    <3>1. attempts[f.uuid] \in Option(Attempt)
      BY <1>0, <1>3 DEF TypeOK, Flight
    <3>2. \A a \in attempts[f.uuid] : a = (CHOOSE b \in attempts[f.uuid] : TRUE)
      BY <3>1 DEF Option
    <3> QED
      BY <1>2, <3>2 DEF FateOf
  <2> QED
    BY <1>4, <2>1 DEF FlightSound
<1>11. f.id \in minted /\ \A x \in Sessions : f.id \notin IdsOf(state[x].entries)
  BY <1>3, <1>4 DEF FlightSound, IInv, AttemptsMinted, Flight
<1>12. /\ state' = [state EXCEPT ![s] = q]
       /\ state' \in [Sessions -> Queue] /\ records' \subseteq Sessions
       /\ turns' \in [Sessions -> Option(Turn)]
       /\ disk' \in Document /\ budget' \in Budget
       /\ Sound(state', attempts', minted')
       /\ Sound(disk'.queues, attempts', minted')
  <2>1. /\ {f.id} \in SUBSET minted
        /\ UNCHANGED <<attempts, minted>>
        /\ IdsOf(q.entries) \subseteq IdsOf(state[s].entries) \cup {f.id}
        /\ \A x \in Sessions \ {s} : {f.id} \cap IdsOf(state[x].entries) = {}
        /\ \A id \in {f.id}, u \in Uuids :
              \A a \in attempts[u] : a.id = id => a.fate = "refused"
    BY <1>2, <1>6, <1>7, <1>10, <1>11
  <2>2. NoDup(q.entries)
    BY <1>6, <1>7
  <2> QED
    BY <1>7, <1>8, <1>9, <2>1, <2>2, CommitSound
<1>13. /\ task' \in [Sessions -> Option(Task)]
       /\ Sending(s)' = {}
       /\ \A y \in Sessions : Sending(y)' \subseteq Sending(y)
  BY <1>2, EndTask
<1>14. TypeOK'
  BY <1>0, <1>2, <1>12, <1>13 DEF TypeOK
<1>15. FlightsSound'
  <2>1. \A x \in Sessions : IdsOf(state'[x].entries) \subseteq
                                IdsOf(state[x].entries) \cup {f.id}
    BY <1>0, <1>6, <1>7, <1>12 DEF TypeOK
  <2>2. \A y \in Sessions \ {s} : \A z \in Sending(y) : \A g \in z.flight :
           g.id # f.id
    BY <1>4 DEF FlightSound
  <2>3. \A y \in Sessions : \A z \in Sending(y)' : \A g \in z.flight :
           \A x \in Sessions : g.id \notin IdsOf(state'[x].entries)
    <3> SUFFICES ASSUME NEW y \in Sessions, NEW z \in Sending(y)',
                        NEW g \in z.flight, NEW x \in Sessions
                 PROVE  g.id \notin IdsOf(state'[x].entries)
      OBVIOUS
    <3>1. y # s /\ z \in Sending(y)
      BY <1>13
    <3>2. FlightSound(y, g) /\ g.id # f.id
      BY <3>1, <2>2 DEF IInv, FlightsSound
    <3> QED
      BY <3>2, <2>1 DEF FlightSound
  <2> QED
    BY <1>2, <1>13, <2>3, FlightsKept
<1>16. AttemptsMinted' /\ AtMostOnce'
  BY <1>2, AttemptsKept
<1> QED
  BY <1>12, <1>14, <1>15, <1>16 DEF IInv

-----------------------------------------------------------------------------
(* Steps that touch neither the queues nor the document nor the attempts.  *)

(* Steps that touch neither queues nor attempts and start no delivery.     *)
LEMMA QuietStep ==
    ASSUME IInv, TypeOK',
           \A y \in Sessions : Sending(y)' \subseteq Sending(y),
           UNCHANGED <<state, disk, attempts, minted>>
    PROVE  IInv'
<1>1. FlightsSound'
  <2>1. \A y \in Sessions : \A t \in Sending(y)' : \A f \in t.flight :
           \A x \in Sessions : f.id \notin IdsOf(state'[x].entries)
    BY DEF IInv, FlightsSound, FlightSound
  <2> QED
    BY <2>1, FlightsKept
<1>2. AttemptsMinted' /\ AtMostOnce'
  BY AttemptsKept
<1>3. Sound(state', attempts', minted') /\ Sound(disk'.queues, attempts', minted')
  BY DEF IInv
<1> QED
  BY <1>1, <1>2, <1>3 DEF IInv

(* The broker cutting off a send-now keeps the invariant.                  *)
LEMMA CallTimeoutStep ==
    ASSUME IInv, NEW s \in Sessions, CallTimeout(s)
    PROVE  IInv'
<1>1. /\ budget.timeout > 0 /\ budget' = [budget EXCEPT !.timeout = @ - 1]
      /\ task' = [task EXCEPT ![s] = {}]
      /\ UNCHANGED <<state, records, turns, delivered, disk, rows, attempts,
                     minted, discarded, reported, replaced>>
  BY DEF CallTimeout, hub, history
<1>2. /\ task' \in [Sessions -> Option(Task)]
      /\ \A y \in Sessions : Sending(y)' \subseteq Sending(y)
  BY <1>1, EndTask
<1>3. budget' \in Budget
  BY <1>1 DEF IInv, TypeOK, Budget
<1>4. TypeOK'
  BY <1>1, <1>2, <1>3 DEF IInv, TypeOK
<1> QED
  BY <1>1, <1>2, <1>4, QuietStep

(* One observed row keeps the type of the watch.                           *)
LEMMA ObserveTurnType ==
    ASSUME NEW turn \in Option(Turn), NEW r \in Row
    PROVE  ObserveTurn(turn, r) \in Option(Turn)
<1>1. \A t \in Turn : Watched(t, r) \in Turn
  <2> SUFFICES ASSUME NEW t \in Turn PROVE Watched(t, r) \in Turn
    OBVIOUS
  <2>1. r.prompts \in Nat /\ {r.prompts} \in Option(Nat)
    BY OptionFacts DEF Row
  <2>2. CASE r.state \in {"busy", "blocked"}
    <3>1. ~TurnEnds(t, r)
      BY <2>2 DEF TurnEnds
    <3>2. Watched(t, r) = [t EXCEPT !.sawBusy = TRUE]
      BY <2>2, <3>1, Zenon DEF Watched
    <3> QED
      BY <3>2 DEF Turn
  <2>3. CASE r.state \notin {"busy", "blocked"} /\ TurnEnds(t, r)
    <3>1. (IF t.ends = 0 THEN 0 ELSE t.ends - 1) \in 0..MaxEnds
      BY DEF Turn, MaxEnds
    <3> QED
      BY <2>1, <2>3, <3>1 DEF Watched, Turn, Clock
  <2>4. CASE r.state \notin {"busy", "blocked"} /\ ~TurnEnds(t, r)
    BY <2>4 DEF Watched
  <2> QED
    BY <2>2, <2>3, <2>4
<1>2. \A t \in turn : t \in Turn /\ turn = {t}
  BY OptionFacts
<1>3. ObserveTurn(turn, r) \subseteq Turn
  BY <1>1, <1>2 DEF ObserveTurn
<1>4. \A x, y \in ObserveTurn(turn, r) : x = y
  BY <1>2 DEF ObserveTurn
<1> QED
  BY <1>3, <1>4 DEF Option

(* Observed rows keep the invariant (observe).                             *)
LEMMA ObserveSteps ==
    ASSUME IInv, NEW s \in Sessions, Snapshot(s) \/ Tick(s)
    PROVE  IInv'
<1>1. PICK r \in Row : /\ ObserveRow(s, r)
                       /\ rows' = [rows EXCEPT ![s] = {r}] \/ rows' = rows
  <2>1. CASE Snapshot(s)
    <3>1. PICK st \in RowStates, prompts \in 0..MaxPrompts,
               receipts \in SUBSET Read(s) :
             LET r == [state |-> st, prompts |-> prompts, receipts |-> receipts]
             IN rows' = [rows EXCEPT ![s] = {r}] /\ ObserveRow(s, r)
      BY <2>1 DEF Snapshot
    <3>2. [state |-> st, prompts |-> prompts, receipts |-> receipts] \in Row
      BY RowStatesAssumption, BoundsAssumption DEF Row, Read
    <3> QED
      BY <3>1, <3>2
  <2>2. CASE Tick(s)
    <3>1. PICK r \in rows[s] : ObserveRow(s, r) /\ rows' = rows
      BY <2>2 DEF Tick
    <3>2. r \in Row
      BY OptionFacts DEF IInv, TypeOK
    <3> QED
      BY <3>1, <3>2
  <2> QED
    BY <2>1, <2>2
<1>2. /\ turns' = [turns EXCEPT ![s] = ObserveTurn(@, r)]
      /\ delivered' = [delivered EXCEPT ![s] =
                         IF s \in records THEN r.receipts ELSE {}]
      /\ UNCHANGED <<state, records, disk, task, attempts, minted, discarded,
                     reported, replaced, budget>>
  BY <1>1 DEF ObserveRow, history
<1>3. turns' \in [Sessions -> Option(Turn)]
  BY <1>2, ObserveTurnType DEF IInv, TypeOK
<1>4. rows' \in [Sessions -> Option(Row)]
  <2>1. {r} \in Option(Row)
    BY OptionFacts
  <2> QED
    BY <1>1, <2>1 DEF IInv, TypeOK
<1>5. delivered' \in [Sessions -> SUBSET Uuids]
  BY <1>2 DEF IInv, TypeOK, Row
<1>6. TypeOK'
  BY <1>2, <1>3, <1>4, <1>5 DEF IInv, TypeOK
<1>7. \A y \in Sessions : Sending(y)' \subseteq Sending(y)
  BY <1>2 DEF Sending
<1> QED
  BY <1>2, <1>6, <1>7, QuietStep

(* A row that vanishes keeps the invariant (seed).                         *)
LEMMA VanishStep ==
    ASSUME IInv, NEW s \in Sessions, Vanish(s)
    PROVE  IInv'
<1>1. /\ rows' = [rows EXCEPT ![s] = {}]
      /\ UNCHANGED <<state, records, turns, delivered, disk, task, attempts,
                     minted, discarded, reported, replaced, budget>>
  BY DEF Vanish, hub, history
<1>2. rows' \in [Sessions -> Option(Row)]
  BY <1>1, OptionFacts DEF IInv, TypeOK
<1>3. TypeOK'
  BY <1>1, <1>2 DEF IInv, TypeOK
<1>4. \A y \in Sessions : Sending(y)' \subseteq Sending(y)
  BY <1>1 DEF Sending
<1> QED
  BY <1>1, <1>3, <1>4, QuietStep

(* Time passing keeps the invariant.                                       *)
LEMMA StaleElapsesStep ==
    ASSUME IInv, NEW s \in Sessions, StaleElapses(s)
    PROVE  IInv'
<1>1. PICK t \in turns[s] :
        /\ turns' = [turns EXCEPT ![s] = {[t EXCEPT !.since = "stale"]}]
        /\ UNCHANGED <<state, records, delivered, disk, rows, task, attempts,
                       minted, discarded, reported, replaced, budget>>
  BY DEF StaleElapses, history
<1>2. t \in Turn
  BY OptionFacts DEF IInv, TypeOK
<1>3. [t EXCEPT !.since = "stale"] \in Turn
  BY <1>2 DEF Turn, Clock
<1>4. {[t EXCEPT !.since = "stale"]} \in Option(Turn)
  BY <1>3, OptionFacts
<1>5. TypeOK'
  BY <1>1, <1>4 DEF IInv, TypeOK
<1>6. \A y \in Sessions : Sending(y)' \subseteq Sending(y)
  BY <1>1 DEF Sending
<1> QED
  BY <1>1, <1>5, <1>6, QuietStep

-----------------------------------------------------------------------------
(* The engine decides a pending attempt.                                   *)
LEMMA EngineStep ==
    ASSUME IInv, NEW u \in Uuids, EngineAnswers(u)
    PROVE  IInv'
<1>1. PICK a \in attempts[u], fate \in {"taken", "refused"} :
        /\ a.fate = "pending"
        /\ attempts' = [attempts EXCEPT ![u] = {[a EXCEPT !.fate = fate]}]
        /\ UNCHANGED <<state, records, turns, delivered, disk, rows, task,
                       minted, discarded, reported, replaced, budget>>
  BY DEF EngineAnswers, hub, history
<1> DEFINE b == [a EXCEPT !.fate = fate]
<1>2. attempts \in [Uuids -> Option(Attempt)]
  BY DEF IInv, TypeOK
<1>3. a \in Attempt /\ attempts[u] = {a}
  BY <1>2, OptionFacts
<1>4. b \in Attempt /\ b.id = a.id
  BY <1>3 DEF Attempt
<1> HIDE DEF b
<1>5. /\ attempts'[u] = {b}
      /\ \A v \in Uuids \ {u} : attempts'[v] = attempts[v]
      /\ attempts' \in [Uuids -> Option(Attempt)]
  <2>1. {b} \in Option(Attempt)
    BY <1>4, OptionFacts
  <2> QED
    BY <1>1, <1>2, <2>1 DEF b
<1>6. TypeOK'
  BY <1>1, <1>5 DEF IInv, TypeOK
<1>7. /\ \A x \in Sessions : a.id \notin IdsOf(state[x].entries)
      /\ \A x \in Sessions : a.id \notin IdsOf(disk.queues[x].entries)
  BY <1>1 DEF IInv, Sound
<1>8. Sound(state', attempts', minted') /\ Sound(disk'.queues, attempts', minted')
  <2>1. /\ Sound(state, attempts, minted) /\ Sound(disk.queues, attempts, minted)
    BY DEF IInv
  <2>2. /\ \A v \in Uuids : \/ attempts'[v] = attempts[v]
                            \/ \A c \in attempts'[v] : \A x \in Sessions :
                                 c.id \notin IdsOf(state[x].entries)
        /\ \A v \in Uuids : \/ attempts'[v] = attempts[v]
                            \/ \A c \in attempts'[v] : \A x \in Sessions :
                                 c.id \notin IdsOf(disk.queues[x].entries)
    BY <1>4, <1>5, <1>7
  <2>3. Sound(state, attempts', minted) /\ Sound(disk.queues, attempts', minted)
    BY <2>1, <2>2, SoundAttempts
  <2> QED
    BY <1>1, <2>3
<1>9. FlightsSound'
  <2> SUFFICES ASSUME NEW y \in Sessions, NEW t \in Sending(y)', NEW f \in t.flight
               PROVE  FlightSound(y, f)'
    BY DEF FlightsSound
  <2>1. t \in Sending(y) /\ \A x \in Sessions : Sending(x)' = Sending(x)
    BY <1>1 DEF Sending
  <2>2. FlightSound(y, f)
    BY <2>1 DEF IInv, FlightsSound
  <2>3. f.uuid \in Uuids
    BY <2>1, SendingType DEF IInv, Sending, Flight
  <2>4. \E c \in attempts'[f.uuid] : c.id = f.id
    BY <2>2, <2>3, <1>3, <1>4, <1>5 DEF FlightSound
  <2>5. \A v \in Uuids \ {f.uuid} :
           \A c \in attempts'[v] : c.id = f.id => c.fate = "refused"
    BY <2>2, <1>1, <1>3, <1>4, <1>5 DEF FlightSound
  <2> QED
    BY <2>1, <2>2, <2>4, <2>5, <1>1 DEF FlightSound
<1>10. AttemptsMinted'
  BY <1>1, <1>3, <1>4, <1>5 DEF IInv, AttemptsMinted
<1>11. AtMostOnce'
  <2>1. \A id \in Ids : AttemptsOf(id)' = AttemptsOf(id)
    BY <1>3, <1>4, <1>5 DEF AttemptsOf
  <2>2. \A v \in Uuids : MayHaveArrived(v)' => MayHaveArrived(v)
    BY <1>1, <1>3, <1>5 DEF MayHaveArrived
  <2> QED
    BY <2>1, <2>2 DEF IInv, AtMostOnce, AttemptsOf
<1> QED
  BY <1>6, <1>8, <1>9, <1>10, <1>11 DEF IInv

(* Queues that each kept their entries or lost all of them stay sound.      *)
LEMMA SoundShrinks ==
    ASSUME NEW Q, NEW P, NEW att, NEW mint, Sound(Q, att, mint),
           \A s \in Sessions :
              \/ P[s].entries = Q[s].entries
              \/ NoDup(P[s].entries) /\ IdsOf(P[s].entries) = {}
    PROVE  Sound(P, att, mint)
<1> SUFFICES ASSUME NEW s \in Sessions
             PROVE  /\ NoDup(P[s].entries)
                    /\ IdsOf(P[s].entries) \subseteq mint
                    /\ \A x \in Sessions \ {s} :
                          IdsOf(P[s].entries) \cap IdsOf(P[x].entries) = {}
                    /\ \A id \in IdsOf(P[s].entries), u \in Uuids :
                          \A a \in att[u] : a.id = id => a.fate = "refused"
  BY DEF Sound
<1>1. \A x \in Sessions : IdsOf(P[x].entries) \subseteq IdsOf(Q[x].entries)
  OBVIOUS
<1>2. NoDup(P[s].entries)
  BY DEF Sound
<1>3. /\ IdsOf(Q[s].entries) \subseteq mint
      /\ \A x \in Sessions \ {s} :
            IdsOf(Q[s].entries) \cap IdsOf(Q[x].entries) = {}
      /\ \A id \in IdsOf(Q[s].entries), u \in Uuids :
            \A a \in att[u] : a.id = id => a.fate = "refused"
  BY DEF Sound
<1> QED
  BY <1>1, <1>2, <1>3

(* Closing and pruning drop queues, and leave the document as it was when  *)
(* the disk refuses the write.                                             *)
LEMMA DropStep ==
    ASSUME IInv, NEW S \in SUBSET Sessions, Drop(S),
           rows' \in [Sessions -> Option(Row)]
    PROVE  IInv'
<1>1. /\ state' = [s \in Sessions |-> IF s \in S THEN NoQueue ELSE state[s]]
      /\ records' = records \ S
      /\ turns' = [s \in Sessions |-> IF s \in S THEN {} ELSE turns[s]]
      /\ delivered' = [s \in Sessions |-> IF s \in S THEN {} ELSE delivered[s]]
      /\ discarded' = discarded \cup
           UNION {IdsOf(state[s].entries) \cup {f.id : f \in state[s].inFlight} :
                  s \in S}
      /\ \/ disk' = disk /\ budget' = budget
         \/ disk' = DocumentOf(state', records', turns') /\ budget' = budget
         \/ /\ budget.write > 0 /\ budget' = [budget EXCEPT !.write = @ - 1]
            /\ disk' = disk
      /\ UNCHANGED <<task, attempts, minted, reported, replaced>>
  BY DEF Drop, WriteFails
<1>2. /\ state' \in [Sessions -> Queue] /\ records' \in SUBSET Sessions
      /\ turns' \in [Sessions -> Option(Turn)]
      /\ delivered' \in [Sessions -> SUBSET Uuids]
  <2>1. {} \in Option(Turn)
    BY OptionFacts
  <2> QED
    BY <1>1, <2>1, NoQueueFacts DEF IInv, TypeOK
<1>3. \A s \in Sessions : state'[s] = state[s] \/ state'[s] = NoQueue
  BY <1>1
<1>4. Sound(state', attempts', minted')
  <2>1. \A s \in Sessions :
           \/ state'[s].entries = state[s].entries
           \/ NoDup(state'[s].entries) /\ IdsOf(state'[s].entries) = {}
    BY <1>3, NoQueueFacts
  <2>2. Sound(state, attempts, minted)
    BY DEF IInv
  <2>3. Sound(state', attempts, minted)
    BY <2>1, <2>2, SoundShrinks
  <2> QED
    BY <1>1, <2>3
<1>5. disk' \in Document /\ Sound(disk'.queues, attempts', minted')
  <2>1. CASE disk' = disk
    BY <1>1, <2>1 DEF IInv, TypeOK
  <2>2. CASE disk' = DocumentOf(state', records', turns')
    BY <1>2, <1>4, <2>2, DocumentSound
  <2> QED
    BY <1>1, <2>1, <2>2
<1>6. budget' \in Budget
  BY <1>1 DEF IInv, TypeOK, Budget
<1>7. discarded' \subseteq Ids
  <2>1. \A s \in S : /\ IdsOf(state[s].entries) \subseteq Ids
                     /\ {f.id : f \in state[s].inFlight} \subseteq Ids
    <3> TAKE s \in S
    <3>1. IdsOf(state[s].entries) \subseteq Ids
      BY DEF IInv, Sound, TypeOK
    <3>2. state[s].inFlight \subseteq Flight
      BY QueueParts, OptionFacts DEF IInv
    <3> QED
      BY <3>1, <3>2 DEF Flight
  <2>2. discarded \subseteq Ids
    BY DEF IInv, TypeOK
  <2> QED
    BY <1>1, <2>1, <2>2
<1>8. TypeOK'
  BY <1>1, <1>2, <1>5, <1>6, <1>7 DEF IInv, TypeOK
<1>9. FlightsSound'
  <2>1. \A y \in Sessions : Sending(y)' = Sending(y)
    BY <1>1 DEF Sending
  <2>2. \A y \in Sessions : \A t \in Sending(y)' : \A f \in t.flight :
           \A x \in Sessions : f.id \notin IdsOf(state'[x].entries)
    BY <1>3, <2>1, NoQueueFacts DEF IInv, FlightsSound, FlightSound
  <2> QED
    BY <1>1, <2>1, <2>2, FlightsKept
<1>10. AttemptsMinted' /\ AtMostOnce'
  BY <1>1, AttemptsKept
<1> QED
  BY <1>4, <1>5, <1>8, <1>9, <1>10 DEF IInv

(* Closing a session keeps the invariant (forget).                         *)
LEMMA CloseStep ==
    ASSUME IInv, NEW s \in Sessions, Close(s)
    PROVE  IInv'
<1>1. rows' = [rows EXCEPT ![s] = {}] /\ Drop({s})
  BY DEF Close
<1>2. rows' \in [Sessions -> Option(Row)]
  BY <1>1, OptionFacts DEF IInv, TypeOK
<1> QED
  BY <1>1, <1>2, DropStep

(* Pruning unknown sessions keeps the invariant (prune).                   *)
LEMMA PruneStep ==
    ASSUME IInv, Prune
    PROVE  IInv'
<1>1. PICK S \in SUBSET {s \in records : rows[s] = {}} : Drop(S) /\ rows' = rows
  BY DEF Prune
<1>2. S \in SUBSET Sessions /\ rows' \in [Sessions -> Option(Row)]
  BY <1>1 DEF IInv, TypeOK
<1> QED
  BY <1>1, <1>2, DropStep

(* A queue read back from the document holds the entries it held there.    *)
LEMMA OpenedType ==
    ASSUME NEW q \in Queue
    PROVE  Opened(q) \in Queue /\ Opened(q).entries = q.entries
<1>1. CASE q.inFlight = {}
  BY <1>1 DEF Opened
<1>2. CASE q.inFlight # {}
  <2> DEFINE f == CHOOSE f \in q.inFlight : TRUE
             n == [q EXCEPT !.inFlight = {}]
  <2>1. q.inFlight \in Option(Flight)
    BY DEF Queue
  <2>2. f \in Flight
    BY <1>2, <2>1, OptionFacts
  <2> HIDE DEF f
  <2>3. [id |-> f.id, uuid |-> f.uuid] \in Report
    BY <2>2 DEF Flight, Report
  <2>4. /\ {[id |-> f.id, uuid |-> f.uuid]} \in Option(Report)
        /\ {} \in Option(Report) /\ {} \in Option(Flight)
    BY <2>3, OptionFacts
  <2>5. n \in Queue /\ n.entries = q.entries
    BY <2>4 DEF Queue
  <2> HIDE DEF n
  <2>6. MarkUncertain(n, f) \in Queue /\ MarkUncertain(n, f).entries = n.entries
    BY <2>4, <2>5 DEF MarkUncertain, Queue
  <2>7. Opened(q) = MarkUncertain(n, f)
    BY <1>2 DEF Opened, n, f
  <2> QED
    BY <2>5, <2>6, <2>7
<1> QED
  BY <1>1, <1>2

(* A restart, at any point, keeps the invariant (open).                    *)
LEMMA RestartStep ==
    ASSUME IInv, Restart
    PROVE  IInv'
<1>1. /\ budget.crash > 0 /\ budget' = [budget EXCEPT !.crash = @ - 1]
      /\ state' = [s \in Sessions |-> Opened(disk.queues[s])]
      /\ records' = disk.held
      /\ turns' = [s \in Sessions |->
                     IF s \in disk.awaiting THEN {Restored} ELSE {}]
      /\ delivered' = [s \in Sessions |-> {}]
      /\ rows' = [s \in Sessions |-> {}]
      /\ task' = [s \in Sessions |-> {}]
      /\ reported' = reported \cup
           UNION {{f.id : f \in disk.queues[s].inFlight} : s \in Sessions}
      /\ UNCHANGED <<disk, attempts, minted, discarded, replaced>>
  BY DEF Restart
<1>2. /\ disk.queues \in [Sessions -> Queue] /\ disk.held \subseteq Sessions
      /\ Sound(disk.queues, attempts, minted)
  BY DEF IInv, TypeOK, Document
<1>3. /\ state' \in [Sessions -> Queue]
      /\ \A s \in Sessions : state'[s].entries = disk.queues[s].entries
  BY <1>1, <1>2, OpenedType
<1>4. Sound(state', attempts', minted')
  <2>1. Sound(state', attempts, minted)
    BY <1>2, <1>3, SoundShrinks
  <2> QED
    BY <1>1, <2>1
<1>5. Sound(disk'.queues, attempts', minted')
  BY <1>1, <1>2
<1>6. /\ turns' \in [Sessions -> Option(Turn)]
      /\ rows' \in [Sessions -> Option(Row)]
      /\ task' \in [Sessions -> Option(Task)]
  <2>1. Restored \in Turn
    <3>1. {} \in Option(Nat)
      BY OptionFacts
    <3> QED
      BY <3>1 DEF Restored, Turn, Clock, MaxEnds
  <2>2. /\ {Restored} \in Option(Turn) /\ {} \in Option(Turn)
        /\ {} \in Option(Row) /\ {} \in Option(Task)
    BY <2>1, OptionFacts
  <2> QED
    BY <1>1, <2>2
<1>7. reported' \subseteq Ids
  <2>1. \A s \in Sessions : {f.id : f \in disk.queues[s].inFlight} \subseteq Ids
    <3> TAKE s \in Sessions
    <3>1. disk.queues[s].inFlight \in Option(Flight)
      BY <1>2 DEF Queue
    <3>2. disk.queues[s].inFlight \subseteq Flight
      BY <3>1, OptionFacts
    <3> QED
      BY <3>2 DEF Flight
  <2>2. reported \subseteq Ids
    BY DEF IInv, TypeOK
  <2> QED
    BY <1>1, <2>1, <2>2
<1>8. budget' \in Budget /\ delivered' \in [Sessions -> SUBSET Uuids]
  BY <1>1 DEF IInv, TypeOK, Budget
<1>9. TypeOK'
  BY <1>1, <1>2, <1>3, <1>6, <1>7, <1>8 DEF IInv, TypeOK
<1>10. FlightsSound'
  BY <1>1 DEF FlightsSound, Sending
<1>11. AttemptsMinted' /\ AtMostOnce'
  BY <1>1, AttemptsKept
<1> QED
  BY <1>4, <1>5, <1>9, <1>10, <1>11 DEF IInv

-----------------------------------------------------------------------------
(* Every step of the queue keeps the inductive invariant.                  *)
LEMMA NextIInv == IInv /\ [Next]_vars => IInv'
<1> SUFFICES ASSUME IInv, [Next]_vars PROVE IInv'
  OBVIOUS
<1>1. CASE \E s \in Sessions : Calls(s)
  BY <1>1, CallSteps, FlushTakeStep, CallTimeoutStep DEF Calls
<1>2. CASE \E s \in Sessions : Worker(s)
  BY <1>2, FlushQueueStep, FlushTakeStep, FlushPauseStep, SettleSteps,
     SettleRejectedStep DEF Worker
<1>3. CASE \E s \in Sessions : Environment(s)
  BY <1>3, ObserveSteps, VanishStep, StaleElapsesStep, CloseStep
     DEF Environment
<1>4. CASE \E u \in Uuids : EngineAnswers(u)
  BY <1>4, EngineStep
<1>5. CASE Prune
  BY <1>5, PruneStep
<1>6. CASE Restart
  BY <1>6, RestartStep
<1>7. CASE UNCHANGED vars
  <2>1. TypeOK' /\ \A y \in Sessions : Sending(y)' \subseteq Sending(y)
    BY <1>7 DEF IInv, TypeOK, vars, Sending
  <2>2. UNCHANGED <<state, disk, attempts, minted>>
    BY <1>7 DEF vars
  <2> QED
    BY <2>1, <2>2, QuietStep
<1> QED
  BY <1>1, <1>2, <1>3, <1>4, <1>5, <1>6, <1>7 DEF Next

(* The queue's state keeps its type: message_queue.rs Queue, Turn and the  *)
(* persisted document, over every interleaving of calls, deliveries,       *)
(* crashes and refused writes.                                             *)
THEOREM TypeCorrect == Spec => []TypeOK
<1>1. IInv => TypeOK
  BY DEF IInv
<1> QED
  BY <1>1, InitIInv, NextIInv, PTL DEF Spec

(* No queued message is handed to the agent twice, for any number of       *)
(* sessions, entries, attempts, crashes, refused writes and timeouts       *)
(* (message_queue.rs transact, settle, open: "a crash mid-send can never   *)
(* replay it").                                                            *)
THEOREM DeliveredAtMostOnce == Spec => []AtMostOnce
<1>1. IInv => AtMostOnce
  BY DEF IInv
<1> QED
  BY <1>1, InitIInv, NextIInv, PTL DEF Spec

-----------------------------------------------------------------------------
(* What became of an entry: the inductive invariant.  A restart continues  *)
(* from the document, which may be older than memory, so what holds of the *)
(* queues in memory is also said of the queues on disk.                    *)

(* What the attempts `att` say of an entry and a uuid.                     *)
Named(att, id, u) == \E a \in att[u] : a.id = id
TakenAs(att, id, u) == \E a \in att[u] : a.id = id /\ a.fate = "taken"
WasRead(att, u) == \E a \in att[u] : a.fate = "taken"
Arrived(att, id) == \E u \in Uuids : TakenAs(att, id, u)

(* Attempts keep their entry and, once taken, stay taken.                  *)
Evolves(att, next) ==
    \A u \in Uuids : \A a \in att[u] : \E b \in next[u] :
        b.id = a.id /\ (a.fate = "taken" => b.fate = "taken")

(* An entry is queued or in flight.                                        *)
Holds(q, id) == id \in IdsOf(q.entries) \/ \E f \in q.inFlight : f.id = id

(* Entries that somebody was told about, or that the property excuses.     *)
Gone == discarded \cup reported \cup replaced

(* Every other entry is in one of the queues Q, or was taken.              *)
Kept(Q, att, ids) ==
    \A id \in ids : (\E s \in Sessions : Holds(Q[s], id)) \/ Arrived(att, id)

(* Confirmations, reports and records in flight name real attempts.        *)
HonestQueue(q, att) ==
    /\ \A c \in q.confirmed : TakenAs(att, c.id, c.uuid)
    /\ \A r \in q.uncertain : Named(att, r.id, r.uuid)
    /\ \A f \in q.inFlight : Named(att, f.id, f.uuid)

Honest(Q, att) == \A s \in Sessions : HonestQueue(Q[s], att)

(* The engine reports as read only what it took.                           *)
ReceiptsTrue ==
    \A s \in Sessions :
        /\ \A u \in delivered[s] : WasRead(attempts, u)
        /\ \A r \in rows[s] : \A u \in r.receipts : WasRead(attempts, u)

(* A session without a record has an empty queue.                          *)
Covers(recs, Q) == \A s \in Sessions \ recs : Q[s] = NoQueue

RecordsCover == Covers(records, state) /\ Covers(disk.held, disk.queues)

(* Two sets of queues that differ at most in whether they are paused.      *)
SameQueues(P, Q) ==
    \A s \in Sessions : /\ P[s].entries = Q[s].entries
                        /\ P[s].inFlight = Q[s].inFlight
                        /\ P[s].uncertain = Q[s].uncertain
                        /\ P[s].confirmed = Q[s].confirmed

(* A record in flight is on disk, whatever writes failed since.            *)
FlightsPersisted ==
    \A s \in Sessions : state[s].inFlight \subseteq disk.queues[s].inFlight

(* A record in flight is the one the delivery in progress put there.       *)
FlightsOwned ==
    \A s \in Sessions : \A t \in task[s] :
        /\ t.phase = "picked" => state[s].inFlight = {}
        /\ t.phase = "sending" => state[s].inFlight \subseteq t.flight

QueuesInv ==
    /\ Kept(state, attempts, minted \ Gone)
    /\ Kept(disk.queues, attempts, minted \ Gone)
    /\ Honest(state, attempts)
    /\ Honest(disk.queues, attempts)
    /\ RecordsCover
    /\ FlightsPersisted

LossInv == QueuesInv /\ ReceiptsTrue /\ FlightsOwned

-----------------------------------------------------------------------------
(* Lemmas about attempts and documents                                     *)

(* What was taken or named stays taken or named.                           *)
LEMMA EvolvesFacts ==
    ASSUME NEW att, NEW next, Evolves(att, next)
    PROVE  /\ \A u \in Uuids : WasRead(att, u) => WasRead(next, u)
           /\ \A id : Arrived(att, id) => Arrived(next, id)
           /\ \A q \in Queue : HonestQueue(q, att) => HonestQueue(q, next)
<1>1. \A u \in Uuids : WasRead(att, u) => WasRead(next, u)
  BY DEF Evolves, WasRead
<1>2. \A id : \A u \in Uuids : /\ Named(att, id, u) => Named(next, id, u)
                               /\ TakenAs(att, id, u) => TakenAs(next, id, u)
  BY DEF Evolves, Named, TakenAs
<1>3. \A id : Arrived(att, id) => Arrived(next, id)
  BY <1>2 DEF Arrived
<1>4. ASSUME NEW q \in Queue, HonestQueue(q, att)
      PROVE  HonestQueue(q, next)
  <2>1. /\ q.confirmed \subseteq Report /\ q.uncertain \subseteq Report
        /\ q.inFlight \subseteq Flight
    <3>1. /\ q.confirmed \in Option(Report) /\ q.uncertain \in Option(Report)
          /\ q.inFlight \in Option(Flight)
      BY DEF Queue
    <3> QED
      BY <3>1, OptionFacts
  <2>2. /\ \A r \in Report : r.uuid \in Uuids
        /\ \A f \in Flight : f.uuid \in Uuids
    BY DEF Report, Flight
  <2> QED
    BY <1>2, <1>4, <2>1, <2>2 DEF HonestQueue
<1> QED
  BY <1>1, <1>3, <1>4

(* Attempts that stay as they are evolve.                                  *)
LEMMA EvolvesSame ==
    ASSUME NEW att PROVE Evolves(att, att)
  BY DEF Evolves

(* The document loses nothing of the queues it was made of.                *)
LEMMA DocumentKeeps ==
    ASSUME NEW st \in [Sessions -> Queue], NEW recs \in SUBSET Sessions, NEW tn,
           Covers(recs, st)
    PROVE  /\ SameQueues(DocumentOf(st, recs, tn).queues, st)
           /\ Covers(DocumentOf(st, recs, tn).held,
                     DocumentOf(st, recs, tn).queues)
<1> DEFINE held == {s \in recs : Keep(st[s], tn[s] # {})}
           qs == [s \in Sessions |-> IF s \in held THEN st[s] ELSE NoQueue]
           aw == {s \in held : tn[s] # {}}
<1>1. DocumentOf(st, recs, tn) = [queues |-> qs, held |-> held, awaiting |-> aw]
  BY DEF DocumentOf
<1>2. /\ DocumentOf(st, recs, tn).queues = qs
      /\ DocumentOf(st, recs, tn).held = held
  BY <1>1
<1>3. \A s \in Sessions \ held : qs[s] = NoQueue
  OBVIOUS
<1>4. ASSUME NEW s \in Sessions
      PROVE  /\ qs[s].entries = st[s].entries
             /\ qs[s].inFlight = st[s].inFlight
             /\ qs[s].uncertain = st[s].uncertain
             /\ qs[s].confirmed = st[s].confirmed
  <2>1. CASE s \in held
    BY <2>1
  <2>2. CASE s \in recs \ held
    <3>1. ~Keep(st[s], tn[s] # {})
      BY <2>2
    <3>2. /\ st[s].entries = <<>> /\ st[s].inFlight = {}
          /\ st[s].uncertain = {} /\ st[s].confirmed = {}
      BY <3>1 DEF Keep
    <3>3. qs[s] = NoQueue
      BY <2>2
    <3> QED
      BY <3>2, <3>3 DEF NoQueue
  <2>3. CASE s \notin recs
    BY <2>3 DEF Covers
  <2> QED
    BY <2>1, <2>2, <2>3
<1> HIDE DEF qs, held
<1> QED
  BY <1>2, <1>3, <1>4 DEF Covers, SameQueues

-----------------------------------------------------------------------------
(* One queue is replaced                                                   *)

(* The queue of s became q, in memory and on disk or only in memory.       *)
LEMMA QueueStep ==
    ASSUME IInv, TypeOK', QueuesInv, NEW s \in Sessions, NEW q \in Queue,
           state' = [state EXCEPT ![s] = q], records' = records \cup {s},
           \/ \E tn : disk' = DocumentOf(state', records', tn)
           \/ /\ disk' = disk /\ minted' = minted
              /\ q.inFlight \subseteq state[s].inFlight,
           Evolves(attempts, attempts'), Gone \subseteq Gone',
           HonestQueue(q, attempts'),
           \A id \in minted \ Gone' :
              Holds(state[s], id) => Holds(q, id) \/ Arrived(attempts', id),
           \A id \in minted' \ minted : Holds(q, id)
    PROVE  QueuesInv'
<1>1. /\ state \in [Sessions -> Queue] /\ records \subseteq Sessions
      /\ disk.queues \in [Sessions -> Queue]
      /\ state' \in [Sessions -> Queue] /\ records' \in SUBSET Sessions
  BY DEF IInv, TypeOK, Document
<1>2. state'[s] = q /\ \A x \in Sessions \ {s} : state'[x] = state[x]
  BY <1>1
<1>3. /\ \A id : Arrived(attempts, id) => Arrived(attempts', id)
      /\ \A p \in Queue : HonestQueue(p, attempts) => HonestQueue(p, attempts')
  BY EvolvesFacts
<1>4. Kept(state', attempts', minted' \ Gone')
  <2> SUFFICES ASSUME NEW id \in minted' \ Gone'
               PROVE  \/ \E x \in Sessions : Holds(state'[x], id)
                      \/ Arrived(attempts', id)
    BY DEF Kept
  <2>1. CASE id \notin minted
    BY <2>1, <1>2
  <2>2. CASE id \in minted
    <3>1. (\E x \in Sessions : Holds(state[x], id)) \/ Arrived(attempts, id)
      BY <2>2 DEF QueuesInv, Kept
    <3> QED
      BY <2>2, <3>1, <1>2, <1>3
  <2> QED
    BY <2>1, <2>2
<1>5. Honest(state', attempts')
  BY <1>1, <1>2, <1>3 DEF QueuesInv, Honest
<1>6. Covers(records', state')
  BY <1>2 DEF QueuesInv, RecordsCover, Covers
<1>7. CASE \E tn : disk' = DocumentOf(state', records', tn)
  <2>1. PICK tn : disk' = DocumentOf(state', records', tn)
    BY <1>7
  <2>2. SameQueues(disk'.queues, state') /\ Covers(disk'.held, disk'.queues)
    BY <1>1, <1>6, <2>1, DocumentKeeps
  <2>3. Kept(disk'.queues, attempts', minted' \ Gone')
    BY <1>4, <2>2 DEF Kept, Holds, SameQueues
  <2>4. Honest(disk'.queues, attempts')
    BY <1>5, <2>2 DEF Honest, HonestQueue, SameQueues
  <2> QED
    BY <1>4, <1>5, <1>6, <2>2, <2>3, <2>4
       DEF QueuesInv, RecordsCover, FlightsPersisted, SameQueues
<1>8. CASE disk' = disk /\ minted' = minted /\ q.inFlight \subseteq state[s].inFlight
  <2>1. Kept(disk'.queues, attempts', minted' \ Gone')
    BY <1>3, <1>8 DEF QueuesInv, Kept
  <2>2. Honest(disk'.queues, attempts')
    BY <1>1, <1>3, <1>8 DEF QueuesInv, Honest
  <2>3. FlightsPersisted'
    BY <1>2, <1>8 DEF QueuesInv, FlightsPersisted
  <2> QED
    BY <1>4, <1>5, <1>6, <1>8, <2>1, <2>2, <2>3 DEF QueuesInv, RecordsCover
<1> QED
  BY <1>7, <1>8

(* Receipts stay true while rows and receipts stay as they are.            *)
LEMMA ReceiptsKept ==
    ASSUME IInv, ReceiptsTrue, Evolves(attempts, attempts'),
           UNCHANGED <<delivered, rows>>
    PROVE  ReceiptsTrue'
<1>1. \A u \in Uuids : WasRead(attempts, u) => WasRead(attempts', u)
  BY EvolvesFacts
<1>2. \A s \in Sessions : /\ delivered[s] \subseteq Uuids
                          /\ \A r \in rows[s] : r.receipts \subseteq Uuids
  <2> TAKE s \in Sessions
  <2>1. \A r \in rows[s] : r \in Row
    BY OptionFacts DEF IInv, TypeOK
  <2> QED
    BY <2>1 DEF IInv, TypeOK, Row
<1> QED
  BY <1>1, <1>2 DEF ReceiptsTrue

(* Deliveries that end or go on, of queues that gain no record in flight.  *)
LEMMA OwnedKept ==
    ASSUME FlightsOwned,
           \A y \in Sessions : /\ task'[y] \subseteq task[y]
                               /\ \/ task'[y] = {}
                                  \/ state'[y].inFlight \subseteq state[y].inFlight
    PROVE  FlightsOwned'
  BY DEF FlightsOwned

-----------------------------------------------------------------------------
(* Client calls                                                            *)

(* A mutation that keeps every entry it does not discard.                  *)
LEMMA MutateLoss ==
    ASSUME IInv, IInv', LossInv, NEW s \in Sessions, NEW q \in Queue,
           Mutate(s, q),
           q.inFlight = state[s].inFlight,
           q.uncertain \subseteq state[s].uncertain,
           q.confirmed \subseteq state[s].confirmed,
           discarded \subseteq discarded',
           IdsOf(state[s].entries) \ discarded' \subseteq IdsOf(q.entries),
           minted' \ minted \subseteq IdsOf(q.entries)
    PROVE  LossInv'
<1>1. /\ state' = [state EXCEPT ![s] = q] /\ records' = records \cup {s}
      /\ disk' = DocumentOf(state', records', turns)
      /\ UNCHANGED <<turns, delivered, rows, task, attempts, reported, replaced,
                     budget>>
      /\ task[s] = {}
  BY DEF Mutate, Transact, Free
<1>2. Evolves(attempts, attempts') /\ Gone \subseteq Gone'
  BY <1>1, EvolvesSame DEF Gone
<1>3. HonestQueue(q, attempts')
  <2>1. HonestQueue(state[s], attempts)
    BY DEF LossInv, QueuesInv, Honest
  <2> QED
    BY <1>1, <2>1 DEF HonestQueue
<1>4. /\ \A id \in minted \ Gone' : Holds(state[s], id) => Holds(q, id)
      /\ \A id \in minted' \ minted : Holds(q, id)
  BY DEF Holds, Gone
<1>5. QueuesInv'
  <2>1. \E tn : disk' = DocumentOf(state', records', tn)
    BY <1>1
  <2>2. TypeOK' /\ QueuesInv
    BY DEF IInv, LossInv
  <2> QED
    BY <1>1, <1>2, <1>3, <1>4, <2>1, <2>2, QueueStep
<1>6. ReceiptsTrue'
  BY <1>1, <1>2, ReceiptsKept DEF LossInv
<1>7. FlightsOwned'
  <2>1. \A y \in Sessions : /\ task'[y] \subseteq task[y]
                            /\ state'[y].inFlight \subseteq state[y].inFlight
    BY <1>1 DEF IInv, TypeOK
  <2> QED
    BY <2>1, OwnedKept DEF LossInv
<1> QED
  BY <1>5, <1>6, <1>7 DEF LossInv

(* No client call but send-now loses an entry (queue_call).                *)
LEMMA CallLoss ==
    ASSUME IInv, IInv', LossInv, NEW s \in Sessions,
           \/ QueueAdd(s) \/ QueueUpdate(s) \/ QueueRemove(s)
           \/ QueueResume(s) \/ QueueMove(s) \/ QueueClear(s)
    PROVE  LossInv'
<1> DEFINE E == state[s].entries
<1>1. /\ E \in Seq(Entry) /\ NoDup(E) /\ IdsOf(E) \subseteq minted
      /\ state[s] \in Queue
      /\ state[s].uncertain \in Option(Report)
      /\ state[s].confirmed \in Option(Report)
  BY QueueParts DEF IInv, Sound
<1>2. CASE QueueAdd(s)
  <2>1. PICK id \in Ids \ minted, text \in Texts :
          /\ Mutate(s, [state[s] EXCEPT
                          !.entries = Append(@, [id |-> id, text |-> text])])
          /\ minted' = minted \cup {id} /\ discarded' = discarded
    BY <1>2 DEF QueueAdd
  <2> DEFINE e == [id |-> id, text |-> text]
             q == [state[s] EXCEPT !.entries = Append(E, e)]
  <2>2. e \in Entry /\ e.id = id
    BY DEF Entry
  <2> HIDE DEF e
  <2>3. /\ Append(E, e) \in Seq(Entry)
        /\ IdsOf(Append(E, e)) = IdsOf(E) \cup {id}
    BY <1>1, <2>2, AppendEntries
  <2>4. /\ q \in Queue /\ q.entries = Append(E, e)
        /\ q.inFlight = state[s].inFlight
        /\ q.uncertain = state[s].uncertain /\ q.confirmed = state[s].confirmed
    BY <1>1, <2>3 DEF Queue
  <2>5. Mutate(s, q)
    BY <2>1 DEF e
  <2> HIDE DEF q
  <2> QED
    BY <2>1, <2>3, <2>4, <2>5, MutateLoss
<1>3. CASE QueueUpdate(s)
  <2>1. PICK i \in DOMAIN E, text \in Texts :
          /\ Mutate(s, [state[s] EXCEPT !.entries[i].text = text])
          /\ minted' = minted /\ discarded' = discarded
    BY <1>3 DEF QueueUpdate
  <2> DEFINE R == [E EXCEPT ![i].text = text]
             q == [state[s] EXCEPT !.entries = R]
  <2>2. R \in Seq(Entry) /\ IdsOf(R) = IdsOf(E)
    BY <1>1, UpdateEntries
  <2>3. Mutate(s, q)
    BY <2>1
  <2> HIDE DEF R
  <2>4. /\ q \in Queue /\ q.entries = R
        /\ q.inFlight = state[s].inFlight
        /\ q.uncertain = state[s].uncertain /\ q.confirmed = state[s].confirmed
    BY <1>1, <2>2 DEF Queue
  <2> HIDE DEF q
  <2> QED
    BY <2>1, <2>2, <2>3, <2>4, MutateLoss
<1>4. CASE QueueRemove(s)
  <2>1. PICK id \in minted :
          /\ Mutate(s, [state[s] EXCEPT
                          !.entries   = Without(@, id),
                          !.uncertain = {r \in @ : r.id # id},
                          !.confirmed = {r \in @ : r.id # id}])
          /\ discarded' = discarded \cup ({id} \cap IdsOf(E))
          /\ minted' = minted
    BY <1>4 DEF QueueRemove
  <2> DEFINE q == [state[s] EXCEPT
                     !.entries   = Without(@, id),
                     !.uncertain = {r \in @ : r.id # id},
                     !.confirmed = {r \in @ : r.id # id}]
  <2>2. /\ Without(E, id) \in Seq(Entry)
        /\ IdsOf(E) \ {id} \subseteq IdsOf(Without(E, id))
    <3>1. CASE \E i \in DOMAIN E : E[i].id = id
      <4> DEFINE i == CHOOSE i \in DOMAIN E : E[i].id = id
      <4>1. i \in DOMAIN E /\ E[i].id = id
        BY <3>1
      <4>2. Without(E, id) = RemoveAt(E, i)
        BY <3>1 DEF Without
      <4> HIDE DEF i
      <4> QED
        BY <1>1, <4>1, <4>2, RemoveAtEntries
    <3>2. CASE ~\E i \in DOMAIN E : E[i].id = id
      BY <1>1, <3>2 DEF Without
    <3> QED
      BY <3>1, <3>2
  <2>3. /\ {r \in state[s].uncertain : r.id # id} \in Option(Report)
        /\ {r \in state[s].confirmed : r.id # id} \in Option(Report)
    BY <1>1, OptionFacts
  <2>4. /\ q \in Queue /\ q.entries = Without(E, id)
        /\ q.inFlight = state[s].inFlight
        /\ q.uncertain = {r \in state[s].uncertain : r.id # id}
        /\ q.confirmed = {r \in state[s].confirmed : r.id # id}
    BY <1>1, <2>2, <2>3 DEF Queue
  <2>5. Mutate(s, q)
    BY <2>1
  <2> HIDE DEF q
  <2>6. /\ q.uncertain \subseteq state[s].uncertain
        /\ q.confirmed \subseteq state[s].confirmed
    BY <2>4
  <2>7. IdsOf(E) \ discarded' \subseteq IdsOf(q.entries)
    BY <2>1, <2>2, <2>4
  <2> QED
    BY <2>1, <2>4, <2>5, <2>6, <2>7, MutateLoss
<1>5. CASE QueueResume(s)
  <2> DEFINE q == Resumed(state[s])
  <2>1. Mutate(s, q) /\ minted' = minted /\ discarded' = discarded
    BY <1>5 DEF QueueResume
  <2>2. /\ q \in Queue /\ q.entries = E
        /\ q.inFlight = state[s].inFlight
        /\ q.uncertain = state[s].uncertain /\ q.confirmed = {}
    BY <1>1, OptionFacts DEF Queue, Resumed
  <2> HIDE DEF q
  <2> QED
    BY <2>1, <2>2, MutateLoss
<1>6. CASE QueueMove(s)
  <2>1. PICK from \in DOMAIN E, to \in DOMAIN E :
          /\ Mutate(s, [state[s] EXCEPT
                !.entries = InsertAt(RemoveAt(E, from), to, E[from])])
          /\ minted' = minted /\ discarded' = discarded
    BY <1>6 DEF QueueMove
  <2> DEFINE A == RemoveAt(E, from)
             R == InsertAt(A, to, E[from])
             q == [state[s] EXCEPT !.entries = R]
  <2>2. /\ A \in Seq(Entry) /\ NoDup(A) /\ IdsOf(A) = IdsOf(E) \ {E[from].id}
        /\ Len(A) = Len(E) - 1
    BY <1>1, RemoveAtEntries
  <2>3. to \in 1..(Len(A) + 1)
    BY <1>1, <2>2
  <2>4. E[from] \in Entry /\ E[from].id \notin IdsOf(A)
    BY <1>1, <2>2
  <2> HIDE DEF A
  <2>5. R \in Seq(Entry) /\ IdsOf(R) = IdsOf(A) \cup {E[from].id}
    BY <2>2, <2>3, <2>4, InsertAtEntries
  <2>6. Mutate(s, q)
    BY <2>1 DEF A
  <2> HIDE DEF R
  <2>7. /\ q \in Queue /\ q.entries = R
        /\ q.inFlight = state[s].inFlight
        /\ q.uncertain = state[s].uncertain /\ q.confirmed = state[s].confirmed
    BY <1>1, <2>5 DEF Queue
  <2> HIDE DEF q
  <2> QED
    BY <2>1, <2>2, <2>5, <2>6, <2>7, MutateLoss
<1>7. CASE QueueClear(s)
  <2> DEFINE q == Resumed([state[s] EXCEPT !.entries = <<>>, !.uncertain = {}])
  <2>1. /\ Mutate(s, q) /\ minted' = minted
        /\ discarded' = discarded \cup IdsOf(E)
    BY <1>7 DEF QueueClear
  <2>2. /\ q \in Queue /\ q.inFlight = state[s].inFlight
        /\ q.uncertain = {} /\ q.confirmed = {}
    <3>1. /\ <<>> \in Seq(Entry) /\ {} \in Option(Report) /\ FALSE \in BOOLEAN
      BY OptionFacts
    <3> QED
      BY <1>1, <3>1 DEF Queue, Resumed
  <2> HIDE DEF q
  <2> QED
    BY <2>1, <2>2, MutateLoss
<1> QED
  BY <1>2, <1>3, <1>4, <1>5, <1>6, <1>7

-----------------------------------------------------------------------------
(* Deliveries                                                              *)

(* A committed queue that keeps every entry, or whose lost entry was taken *)
(* or reported.                                                            *)
LEMMA CommitLoss ==
    ASSUME IInv, IInv', LossInv, NEW s \in Sessions, NEW q \in Queue,
           state' = [state EXCEPT ![s] = q], records' = records \cup {s},
           (\E tn : disk' = DocumentOf(state', records', tn)) \/ disk' = disk,
           q.inFlight \subseteq state[s].inFlight,
           HonestQueue(q, attempts),
           reported \subseteq reported',
           \A id \in minted \ Gone' :
              Holds(state[s], id) => Holds(q, id) \/ Arrived(attempts, id),
           UNCHANGED <<delivered, rows, attempts, minted, discarded, replaced>>
    PROVE  QueuesInv' /\ ReceiptsTrue'
<1>1. Evolves(attempts, attempts') /\ Gone \subseteq Gone' /\ minted' = minted
  BY EvolvesSame DEF Gone
<1>2. QueuesInv'
  <2>1. TypeOK' /\ QueuesInv /\ HonestQueue(q, attempts')
    BY DEF IInv, LossInv
  <2>2. \A id \in minted \ Gone' :
           Holds(state[s], id) => Holds(q, id) \/ Arrived(attempts', id)
    OBVIOUS
  <2>3. \/ \E tn : disk' = DocumentOf(state', records', tn)
        \/ /\ disk' = disk /\ minted' = minted
           /\ q.inFlight \subseteq state[s].inFlight
    BY <1>1
  <2>4. \A id \in minted' \ minted : Holds(q, id)
    BY <1>1
  <2> QED
    BY <1>1, <2>1, <2>2, <2>3, <2>4, QueueStep
<1>3. ReceiptsTrue'
  BY <1>1, ReceiptsKept DEF LossInv
<1> QED
  BY <1>2, <1>3

(* A commit and what it does to memory and the document.                   *)
LEMMA CommitWrites ==
    ASSUME NEW s, NEW q, NEW tn, Commit(s, q, tn)
    PROVE  /\ state' = [state EXCEPT ![s] = q] /\ records' = records \cup {s}
           /\ (\E tm : disk' = DocumentOf(state', records', tm)) \/ disk' = disk
           /\ turns' = tn
           /\ budget' = budget \/ budget' = [budget EXCEPT !.write = @ - 1]
  BY DEF Commit, WriteFails

(* Deciding to flush moves nothing, and confirms only what was read:       *)
(* confirm, flush_queue.                                                   *)
LEMMA FlushQueueLoss ==
    ASSUME IInv, IInv', LossInv, NEW s \in Sessions, FlushQueue(s)
    PROVE  LossInv'
<1> DEFINE q == Confirm(s)
<1>1. PICK r \in rows[s] :
        /\ IF q # state[s] THEN Commit(s, q, turns)
           ELSE UNCHANGED <<state, records, turns, disk, budget>>
        /\ task' = [task EXCEPT ![s] =
             IF WantsFlush(q, turns[s], r)
             THEN {[phase |-> "picked", auto |-> TRUE, row |-> {r},
                    flight |-> {}, index |-> 1, previous |-> {}]}
             ELSE {}]
        /\ UNCHANGED <<delivered, rows, attempts, minted, discarded, reported,
                       replaced>>
  BY DEF FlushQueue, history
<1>2. /\ q \in Queue /\ q.entries = state[s].entries
      /\ q.inFlight = state[s].inFlight
      /\ q = state[s] \/ (q.uncertain = {} /\ q.confirmed = Confirmable(s))
  <2>1. /\ state[s] \in Queue /\ {} \in Option(Report)
        /\ Confirmable(s) \in Option(Report)
    BY QueueParts, OptionFacts DEF IInv, Confirmable
  <2> QED
    BY <2>1 DEF Queue, Confirm
<1>3. HonestQueue(q, attempts)
  <2>1. HonestQueue(state[s], attempts)
    BY DEF LossInv, QueuesInv, Honest
  <2>2. \A c \in Confirmable(s) : TakenAs(attempts, c.id, c.uuid)
    <3> SUFFICES ASSUME NEW c \in Confirmable(s)
                 PROVE  TakenAs(attempts, c.id, c.uuid)
      OBVIOUS
    <3>1. c \in state[s].uncertain /\ c.uuid \in delivered[s]
      BY DEF Confirmable
    <3>2. PICK a \in attempts[c.uuid] : a.id = c.id
      BY <2>1, <3>1 DEF HonestQueue, Named
    <3>3. PICK b \in attempts[c.uuid] : b.fate = "taken"
      BY <3>1 DEF LossInv, ReceiptsTrue, WasRead
    <3>4. a = b
      <4>1. c.uuid \in Uuids
        BY <3>1 DEF IInv, TypeOK
      <4>2. attempts[c.uuid] \in Option(Attempt)
        BY <4>1 DEF IInv, TypeOK
      <4> QED
        BY <3>2, <3>3, <4>2 DEF Option
    <3> QED
      BY <3>2, <3>3, <3>4 DEF TakenAs
  <2> QED
    BY <1>2, <2>1, <2>2 DEF HonestQueue
<1>4. QueuesInv' /\ ReceiptsTrue' /\ state'[s].inFlight = state[s].inFlight
      /\ \A y \in Sessions \ {s} : state'[y] = state[y]
  <2>1. CASE q # state[s]
    <3>1. /\ state' = [state EXCEPT ![s] = q] /\ records' = records \cup {s}
          /\ (\E tn : disk' = DocumentOf(state', records', tn)) \/ disk' = disk
      BY <1>1, <2>1, CommitWrites
    <3>2. /\ \A id : Holds(state[s], id) => Holds(q, id)
          /\ reported \subseteq reported'
          /\ UNCHANGED <<delivered, rows, attempts, minted, discarded, replaced>>
      BY <1>1, <1>2 DEF Holds
    <3>3. /\ state'[s] = q /\ \A y \in Sessions \ {s} : state'[y] = state[y]
      BY <3>1 DEF IInv, TypeOK
    <3> HIDE DEF q
    <3>4. QueuesInv' /\ ReceiptsTrue'
      BY <1>2, <1>3, <3>1, <3>2, CommitLoss
    <3> QED
      BY <1>2, <3>3, <3>4
  <2>2. CASE q = state[s]
    <3>1. UNCHANGED <<state, records, disk, delivered, rows, attempts, minted,
                      discarded, reported, replaced>>
      BY <1>1, <2>2
    <3> QED
      BY <3>1 DEF LossInv, QueuesInv, ReceiptsTrue, RecordsCover, Gone,
                  FlightsPersisted
  <2> QED
    BY <2>1, <2>2
<1>5. FlightsOwned'
  <2> SUFFICES ASSUME NEW y \in Sessions, NEW t \in task'[y]
               PROVE  /\ t.phase = "picked" => state'[y].inFlight = {}
                      /\ t.phase = "sending" => state'[y].inFlight \subseteq t.flight
    BY DEF FlightsOwned
  <2>1. CASE y = s
    <3>1. t.phase = "picked" /\ WantsFlush(q, turns[s], r)
      BY <1>1, <2>1 DEF IInv, TypeOK
    <3>2. q.inFlight = {}
      BY <3>1 DEF WantsFlush
    <3> QED
      BY <1>2, <1>4, <2>1, <3>1, <3>2
  <2>2. CASE y # s
    <3>1. t \in task[y] /\ state'[y] = state[y]
      BY <1>1, <1>4, <2>2 DEF IInv, TypeOK
    <3> QED
      BY <3>1 DEF LossInv, FlightsOwned
  <2> QED
    BY <2>1, <2>2
<1> QED
  BY <1>4, <1>5 DEF LossInv

(* The delivery of s ends and its queue gains no record in flight.         *)
LEMMA EndedOwned ==
    ASSUME IInv, FlightsOwned, NEW s \in Sessions, NEW q,
           state' = [state EXCEPT ![s] = q], task' = [task EXCEPT ![s] = {}]
    PROVE  FlightsOwned'
<1>1. \A y \in Sessions : /\ task'[y] \subseteq task[y]
                          /\ \/ task'[y] = {}
                             \/ state'[y].inFlight \subseteq state[y].inFlight
  <2> TAKE y \in Sessions
  <2>1. CASE y = s
    BY <2>1 DEF IInv, TypeOK
  <2>2. CASE y # s
    BY <2>2 DEF IInv, TypeOK
  <2> QED
    BY <2>1, <2>2
<1> QED
  BY <1>1, OwnedKept

(* A flush that could not take its entry loses nothing (flush).            *)
LEMMA FlushPauseLoss ==
    ASSUME IInv, IInv', LossInv, NEW s \in Sessions, FlushPause(s)
    PROVE  LossInv'
<1> DEFINE q == [state[s] EXCEPT !.paused = TRUE]
<1>1. /\ task' = [task EXCEPT ![s] = {}]
      /\ UNCHANGED <<delivered, rows, attempts, minted, discarded, reported,
                     replaced>>
      /\ \/ Commit(s, q, turns)
         \/ /\ state' = [state EXCEPT ![s] = q]
            /\ records' = records \cup {s}
            /\ disk' = DocumentOf(state', records', turns) \/ disk' = disk
  BY DEF FlushPause, history
<1>2. /\ q \in Queue /\ q.entries = state[s].entries
      /\ q.inFlight = state[s].inFlight
      /\ q.uncertain = state[s].uncertain /\ q.confirmed = state[s].confirmed
  BY QueueParts DEF IInv, Queue
<1> HIDE DEF q
<1>3. /\ state' = [state EXCEPT ![s] = q] /\ records' = records \cup {s}
      /\ (\E tn : disk' = DocumentOf(state', records', tn)) \/ disk' = disk
  BY <1>1, CommitWrites
<1>4. HonestQueue(q, attempts)
  BY <1>2 DEF LossInv, QueuesInv, Honest, HonestQueue
<1>5. \A id : Holds(state[s], id) => Holds(q, id)
  BY <1>2 DEF Holds
<1>6. QueuesInv' /\ ReceiptsTrue'
  BY <1>1, <1>2, <1>3, <1>4, <1>5, CommitLoss
<1>7. FlightsOwned'
  BY <1>1, <1>3, EndedOwned DEF LossInv
<1> QED
  BY <1>6, <1>7 DEF LossInv

(* What is in flight in the queue of s while it is being sent is the       *)
(* flight of that delivery, and its attempt exists.                        *)
LEMMA SendingFlight ==
    ASSUME IInv, LossInv, NEW s \in Sessions, NEW t \in Sending(s),
           NEW f \in t.flight
    PROVE  /\ t \in task[s] /\ f \in Flight /\ t.flight = {f}
           /\ state[s].inFlight \subseteq {f}
           /\ Named(attempts, f.id, f.uuid)
           /\ attempts[f.uuid] \in Option(Attempt)
           /\ (FateOf(f) = "taken" \/ Receipted(s, f)) => Arrived(attempts, f.id)
<1>1. /\ t \in task[s] /\ t.phase = "sending" /\ TypeOK
  BY DEF Sending, IInv
<1>2. f \in Flight /\ t.flight = {f}
  BY <1>1, SendingType, OptionFacts
<1>3. state[s].inFlight \subseteq {f}
  BY <1>1, <1>2 DEF LossInv, FlightsOwned
<1>4. FlightSound(s, f)
  BY DEF IInv, FlightsSound
<1>5. PICK a \in attempts[f.uuid] : a.id = f.id
  BY <1>4 DEF FlightSound
<1>6. f.uuid \in Uuids /\ attempts[f.uuid] \in Option(Attempt)
  BY <1>1, <1>2 DEF TypeOK, Flight
<1>7. \A b \in attempts[f.uuid] : b = a
  BY <1>5, <1>6 DEF Option
<1>8. ASSUME FateOf(f) = "taken" \/ Receipted(s, f)
      PROVE  Arrived(attempts, f.id)
  <2>1. a.fate = "taken"
    <3>1. CASE FateOf(f) = "taken"
      <4>1. (CHOOSE b \in attempts[f.uuid] : TRUE) = a
        BY <1>5, <1>7
      <4> QED
        BY <3>1, <4>1 DEF FateOf
    <3>2. CASE Receipted(s, f)
      BY <3>2, <1>7 DEF Receipted, LossInv, ReceiptsTrue, WasRead
    <3> QED
      BY <1>8, <3>1, <3>2
  <2> QED
    BY <2>1, <1>5, <1>6 DEF Arrived, TakenAs
<1> QED
  BY <1>1, <1>2, <1>3, <1>5, <1>6, <1>8 DEF Named

(* A sent entry leaves its queue because the engine took it (settle).      *)
LEMMA SettleSentLoss ==
    ASSUME IInv, IInv', LossInv, NEW s \in Sessions, SettleSent(s)
    PROVE  LossInv'
<1> DEFINE q == [state[s] EXCEPT !.inFlight = {}]
<1>1. PICK t \in Sending(s) : \E f \in t.flight :
        /\ FateOf(f) = "taken" \/ Receipted(s, f)
        /\ Commit(s, q, DeliveredTurns(s))
        /\ task' = [task EXCEPT ![s] = {}]
        /\ UNCHANGED <<delivered, rows, attempts, minted, discarded, reported,
                       replaced>>
  BY DEF SettleSent, history
<1>2. PICK f \in t.flight :
        /\ FateOf(f) = "taken" \/ Receipted(s, f)
        /\ Commit(s, q, DeliveredTurns(s))
        /\ task' = [task EXCEPT ![s] = {}]
        /\ UNCHANGED <<delivered, rows, attempts, minted, discarded, reported,
                       replaced>>
  BY <1>1
<1>3. /\ q \in Queue /\ q.entries = state[s].entries /\ q.inFlight = {}
      /\ q.uncertain = state[s].uncertain /\ q.confirmed = state[s].confirmed
  BY QueueParts, OptionFacts DEF IInv, Queue
<1> HIDE DEF q
<1>4. /\ state' = [state EXCEPT ![s] = q] /\ records' = records \cup {s}
      /\ (\E tn : disk' = DocumentOf(state', records', tn)) \/ disk' = disk
  BY <1>2, CommitWrites
<1>5. HonestQueue(q, attempts)
  BY <1>3 DEF LossInv, QueuesInv, Honest, HonestQueue
<1>6. \A id : Holds(state[s], id) => Holds(q, id) \/ Arrived(attempts, id)
  <2>1. state[s].inFlight \subseteq {f} /\ Arrived(attempts, f.id)
    BY <1>2, SendingFlight
  <2> QED
    BY <1>3, <2>1 DEF Holds
<1>7. QueuesInv' /\ ReceiptsTrue'
  BY <1>2, <1>3, <1>4, <1>5, <1>6, CommitLoss
<1>8. FlightsOwned'
  BY <1>2, <1>4, EndedOwned DEF LossInv
<1> QED
  BY <1>7, <1>8 DEF LossInv

(* An entry whose outcome is unknown is reported under its uuid (settle).  *)
LEMMA SettleUncertainLoss ==
    ASSUME IInv, IInv', LossInv, NEW s \in Sessions, SettleUncertain(s)
    PROVE  LossInv'
<1>1. PICK t \in Sending(s) : \E f \in t.flight :
        /\ Commit(s, MarkUncertain([state[s] EXCEPT !.inFlight = {}], f),
                  DeliveredTurns(s))
        /\ reported' = reported \cup {f.id}
        /\ task' = [task EXCEPT ![s] = {}]
        /\ UNCHANGED <<delivered, rows, attempts, minted, discarded, replaced>>
  BY DEF SettleUncertain
<1>2. PICK f \in t.flight :
        /\ Commit(s, MarkUncertain([state[s] EXCEPT !.inFlight = {}], f),
                  DeliveredTurns(s))
        /\ reported' = reported \cup {f.id}
        /\ task' = [task EXCEPT ![s] = {}]
        /\ UNCHANGED <<delivered, rows, attempts, minted, discarded, replaced>>
  BY <1>1
<1> DEFINE q == MarkUncertain([state[s] EXCEPT !.inFlight = {}], f)
<1>3. /\ f \in Flight /\ state[s].inFlight \subseteq {f}
      /\ Named(attempts, f.id, f.uuid)
  BY SendingFlight
<1>4. /\ q \in Queue /\ q.entries = state[s].entries /\ q.inFlight = {}
      /\ q.uncertain = {[id |-> f.id, uuid |-> f.uuid]} /\ q.confirmed = {}
  <2>1. [id |-> f.id, uuid |-> f.uuid] \in Report
    BY <1>3 DEF Flight, Report
  <2>2. /\ {[id |-> f.id, uuid |-> f.uuid]} \in Option(Report)
        /\ {} \in Option(Report) /\ {} \in Option(Flight)
        /\ state[s] \in Queue
    BY <2>1, OptionFacts, QueueParts DEF IInv
  <2> QED
    BY <2>2 DEF MarkUncertain, Queue
<1> HIDE DEF q
<1>5. /\ state' = [state EXCEPT ![s] = q] /\ records' = records \cup {s}
      /\ (\E tn : disk' = DocumentOf(state', records', tn)) \/ disk' = disk
  <2>1. Commit(s, q, DeliveredTurns(s))
    BY <1>2 DEF q
  <2> QED
    BY <2>1, CommitWrites
<1>6. HonestQueue(q, attempts)
  BY <1>3, <1>4 DEF HonestQueue
<1>7. \A id \in minted \ Gone' : Holds(state[s], id) => Holds(q, id)
  BY <1>2, <1>3, <1>4 DEF Holds, Gone
<1>8. QueuesInv' /\ ReceiptsTrue'
  BY <1>2, <1>4, <1>5, <1>6, <1>7, CommitLoss
<1>9. FlightsOwned'
  BY <1>2, <1>5, EndedOwned DEF LossInv
<1> QED
  BY <1>8, <1>9 DEF LossInv

(* A refused entry is back in its queue (settle).                          *)
LEMMA SettleRejectedLoss ==
    ASSUME IInv, IInv', LossInv, NEW s \in Sessions, SettleRejected(s)
    PROVE  LossInv'
<1> DEFINE E == state[s].entries
<1>1. PICK t \in Sending(s) : \E f \in t.flight :
        LET k == IF t.index > Len(E) THEN Len(E) + 1 ELSE t.index
        IN /\ Commit(s, [state[s] EXCEPT
                  !.inFlight = {},
                  !.entries  = InsertAt(E, k, [id |-> f.id, text |-> f.text]),
                  !.paused   = @ \/ t.auto],
                [turns EXCEPT ![s] = t.previous])
           /\ task' = [task EXCEPT ![s] = {}]
           /\ UNCHANGED <<delivered, rows, attempts, minted, discarded, reported,
                          replaced>>
  BY DEF SettleRejected, history
<1> DEFINE k == IF t.index > Len(E) THEN Len(E) + 1 ELSE t.index
           tn == [turns EXCEPT ![s] = t.previous]
<1>2. PICK f \in t.flight :
        /\ Commit(s, [state[s] EXCEPT
               !.inFlight = {},
               !.entries  = InsertAt(E, k, [id |-> f.id, text |-> f.text]),
               !.paused   = @ \/ t.auto], tn)
        /\ task' = [task EXCEPT ![s] = {}]
        /\ UNCHANGED <<delivered, rows, attempts, minted, discarded, reported,
                       replaced>>
  BY <1>1
<1> DEFINE e == [id |-> f.id, text |-> f.text]
           R == InsertAt(E, k, e)
           q == [state[s] EXCEPT !.inFlight = {}, !.entries = R,
                                 !.paused = @ \/ t.auto]
<1>3. /\ E \in Seq(Entry) /\ NoDup(E) /\ state[s] \in Queue
      /\ f \in Flight /\ state[s].inFlight \subseteq {f}
      /\ t.index \in Nat \ {0} /\ t.auto \in BOOLEAN
  <2>1. t \in task[s] /\ f \in Flight /\ state[s].inFlight \subseteq {f}
    BY SendingFlight
  <2> QED
    BY <2>1, QueueParts, SendingType DEF IInv, Sound
<1>4. e \in Entry /\ e.id = f.id /\ e.id \notin IdsOf(E) /\ k \in 1..(Len(E) + 1)
  <2>1. e \in Entry /\ e.id = f.id
    BY <1>3 DEF Entry, Flight
  <2>2. f.id \notin IdsOf(E)
    BY DEF IInv, FlightsSound, FlightSound
  <2>3. Len(E) \in Nat
    BY <1>3
  <2> QED
    BY <1>3, <2>1, <2>2, <2>3
<1>5. R \in Seq(Entry) /\ IdsOf(R) = IdsOf(E) \cup {f.id}
  <2> HIDE DEF e, k
  <2> QED
    BY <1>3, <1>4, InsertAtEntries
<1>6. /\ q \in Queue /\ q.entries = R /\ q.inFlight = {}
      /\ q.uncertain = state[s].uncertain /\ q.confirmed = state[s].confirmed
  <2> HIDE DEF R
  <2>1. {} \in Option(Flight) /\ (state[s].paused \/ t.auto) \in BOOLEAN
    BY OptionFacts
  <2> QED
    BY <1>3, <1>5, <2>1 DEF Queue
<1>7. Commit(s, q, tn)
  BY <1>2
<1> HIDE DEF q, R, tn, e, k
<1>8. /\ state' = [state EXCEPT ![s] = q] /\ records' = records \cup {s}
      /\ (\E tm : disk' = DocumentOf(state', records', tm)) \/ disk' = disk
  BY <1>7, CommitWrites
<1>9. HonestQueue(q, attempts)
  BY <1>6 DEF LossInv, QueuesInv, Honest, HonestQueue
<1>10. \A id : Holds(state[s], id) => Holds(q, id)
  BY <1>3, <1>5, <1>6 DEF Holds
<1>11. QueuesInv' /\ ReceiptsTrue'
  BY <1>2, <1>6, <1>8, <1>9, <1>10, CommitLoss
<1>12. FlightsOwned'
  BY <1>2, <1>8, EndedOwned DEF LossInv
<1> QED
  BY <1>11, <1>12 DEF LossInv

(* A taken entry is in flight, in memory and on disk, before it is sent.   *)
LEMMA TakeLoss ==
    ASSUME IInv, IInv', LossInv, NEW s \in Sessions, NEW q \in Queue,
           q.entries = state[s].entries,
           q.uncertain = state[s].uncertain,
           q.confirmed \subseteq state[s].confirmed,
           NEW k \in DOMAIN q.entries, NEW u \in Uuids, NEW auto,
           NEW row, NEW previous,
           Take(s, q, k, u, auto, row, previous),
           replaced' = replaced \cup {f.id : f \in state[s].inFlight},
           UNCHANGED <<delivered, rows, minted, discarded, reported>>
    PROVE  LossInv'
<1> DEFINE E == state[s].entries
           e == q.entries[k]
           f == [id |-> e.id, text |-> e.text, uuid |-> u]
           n == [q EXCEPT !.entries = RemoveAt(@, k), !.inFlight = {f}]
           tk == [phase |-> "sending", auto |-> auto, row |-> {},
                  flight |-> {f}, index |-> k, previous |-> previous]
           at == [session |-> s, id |-> e.id, fate |-> "pending"]
<1>1. /\ attempts[u] = {}
      /\ state' = [state EXCEPT ![s] = n] /\ records' = records \cup {s}
      /\ disk' = DocumentOf(state', records', turns)
      /\ attempts' = [attempts EXCEPT ![u] = {at}]
      /\ task' = [task EXCEPT ![s] = {tk}]
  BY DEF Take, Transact, Fresh
<1>2. E \in Seq(Entry) /\ NoDup(E) /\ e \in Entry
  BY QueueParts DEF IInv, Sound
<1>3. /\ RemoveAt(E, k) \in Seq(Entry)
      /\ IdsOf(RemoveAt(E, k)) = IdsOf(E) \ {e.id}
  BY <1>2, RemoveAtEntries
<1> HIDE DEF e
<1>4. f \in Flight /\ f.id = e.id /\ f.uuid = u
  BY <1>2 DEF Flight, Entry
<1>5. /\ n \in Queue /\ n.entries = RemoveAt(E, k) /\ n.inFlight = {f}
      /\ n.uncertain = q.uncertain /\ n.confirmed = q.confirmed
  <2>1. {f} \in Option(Flight)
    BY <1>4, OptionFacts
  <2> QED
    BY <1>3, <2>1 DEF Queue
<1>6. /\ tk.phase = "sending" /\ tk.flight = {f} /\ at.id = e.id
  OBVIOUS
<1> HIDE DEF f, n, tk, at
<1>7. /\ attempts'[u] = {at} /\ \A v \in Uuids \ {u} : attempts'[v] = attempts[v]
  BY <1>1 DEF IInv, TypeOK
<1>8. Evolves(attempts, attempts') /\ Gone \subseteq Gone'
  BY <1>1, <1>7 DEF Evolves, Gone
<1>9. HonestQueue(n, attempts')
  <2>1. HonestQueue(state[s], attempts')
    <3>1. HonestQueue(state[s], attempts) /\ state[s] \in Queue
      BY QueueParts DEF IInv, LossInv, QueuesInv, Honest
    <3> QED
      BY <1>8, <3>1, EvolvesFacts
  <2>2. Named(attempts', f.id, f.uuid)
    BY <1>4, <1>6, <1>7 DEF Named
  <2> QED
    BY <1>5, <2>1, <2>2 DEF HonestQueue
<1>10. \A id \in minted \ Gone' : Holds(state[s], id) => Holds(n, id)
  BY <1>3, <1>4, <1>5 DEF Holds, Gone
<1>11. QueuesInv'
  <2>1. \E tn : disk' = DocumentOf(state', records', tn)
    BY <1>1
  <2>2. /\ TypeOK' /\ QueuesInv
        /\ \A id \in minted' \ minted : Holds(n, id)
    BY DEF IInv, LossInv
  <2> QED
    BY <1>1, <1>5, <1>8, <1>9, <1>10, <2>1, <2>2, QueueStep
<1>12. ReceiptsTrue'
  BY <1>8, ReceiptsKept DEF LossInv
<1>13. FlightsOwned'
  <2> SUFFICES ASSUME NEW y \in Sessions, NEW t \in task'[y]
               PROVE  /\ t.phase = "picked" => state'[y].inFlight = {}
                      /\ t.phase = "sending" => state'[y].inFlight \subseteq t.flight
    BY DEF FlightsOwned
  <2>1. CASE y = s
    <3>1. t = tk /\ state'[y] = n
      BY <1>1, <2>1 DEF IInv, TypeOK
    <3> QED
      BY <3>1, <1>5, <1>6
  <2>2. CASE y # s
    <3>1. t \in task[y] /\ state'[y] = state[y]
      BY <1>1, <2>2 DEF IInv, TypeOK
    <3> QED
      BY <3>1 DEF LossInv, FlightsOwned
  <2> QED
    BY <2>1, <2>2
<1> QED
  BY <1>11, <1>12, <1>13 DEF LossInv

(* The worker finds no record in flight to overwrite; a send-now may       *)
(* (flush, send_now).                                                      *)
LEMMA TakesLoss ==
    ASSUME IInv, IInv', LossInv, NEW s \in Sessions,
           FlushTake(s) \/ QueueSendNow(s)
    PROVE  LossInv'
<1>1. /\ state[s] \in Queue /\ state[s].entries \in Seq(Entry)
      /\ {} \in Option(Report)
  BY QueueParts, OptionFacts DEF IInv
<1>2. CASE FlushTake(s)
  <2>1. PICK t \in task[s], u \in Uuids :
          /\ t.phase = "picked"
          /\ state[s].entries # <<>>
          /\ Take(s, state[s], 1, u, TRUE, t.row, {})
          /\ UNCHANGED <<delivered, rows, minted, discarded, reported, replaced>>
    BY <1>2 DEF FlushTake, history
  <2>2. 1 \in DOMAIN state[s].entries
    BY <1>1, <2>1
  <2>3. state[s].inFlight = {}
    BY <2>1 DEF LossInv, FlightsOwned
  <2>4. replaced' = replaced \cup {f.id : f \in state[s].inFlight}
    BY <2>1, <2>3
  <2> QED
    BY <1>1, <2>1, <2>2, <2>4, TakeLoss
<1>3. CASE QueueSendNow(s)
  <2> DEFINE q == Resumed(state[s])
  <2>1. PICK i \in DOMAIN state[s].entries, u \in Uuids :
          /\ Take(s, q, i, u, FALSE, rows[s], turns[s])
          /\ replaced' = replaced \cup {f.id : f \in state[s].inFlight}
          /\ UNCHANGED <<delivered, rows, minted, discarded, reported>>
    BY <1>3 DEF QueueSendNow
  <2>2. /\ q \in Queue /\ q.entries = state[s].entries
        /\ q.uncertain = state[s].uncertain /\ q.confirmed = {}
    BY <1>1 DEF Queue, Resumed
  <2> HIDE DEF q
  <2> QED
    BY <2>1, <2>2, TakeLoss
<1> QED
  BY <1>2, <1>3

-----------------------------------------------------------------------------
(* Steps that leave the queues and the document alone                      *)

(* Queues, document, ids and reports stay as they are.                     *)
LEMMA QuietLoss ==
    ASSUME IInv, LossInv, Evolves(attempts, attempts'),
           \A y \in Sessions : task'[y] \subseteq task[y],
           UNCHANGED <<state, records, disk, minted, discarded, reported, replaced>>
    PROVE  QueuesInv' /\ FlightsOwned'
<1>1. /\ state \in [Sessions -> Queue] /\ disk.queues \in [Sessions -> Queue]
  BY DEF IInv, TypeOK, Document
<1>2. /\ \A id : Arrived(attempts, id) => Arrived(attempts', id)
      /\ \A p \in Queue : HonestQueue(p, attempts) => HonestQueue(p, attempts')
  BY EvolvesFacts
<1>3. /\ Kept(state', attempts', minted' \ Gone')
      /\ Kept(disk'.queues, attempts', minted' \ Gone')
  BY <1>2 DEF LossInv, QueuesInv, Kept, Gone
<1>4. Honest(state', attempts') /\ Honest(disk'.queues, attempts')
  BY <1>1, <1>2 DEF LossInv, QueuesInv, Honest
<1>5. FlightsOwned'
  BY OwnedKept DEF LossInv
<1> QED
  BY <1>3, <1>4, <1>5 DEF LossInv, QueuesInv, RecordsCover, FlightsPersisted

(* The broker cutting off a send-now, rows that vanish, time passing.      *)
LEMMA CallTimeoutLoss ==
    ASSUME IInv, LossInv, NEW s \in Sessions,
           CallTimeout(s) \/ Vanish(s) \/ StaleElapses(s)
    PROVE  LossInv'
<1>1. /\ UNCHANGED <<state, records, disk, attempts, delivered, minted, discarded,
                     reported, replaced>>
      /\ task' = task \/ task' = [task EXCEPT ![s] = {}]
      /\ rows' = rows \/ rows' = [rows EXCEPT ![s] = {}]
  BY DEF CallTimeout, Vanish, StaleElapses, hub, history
<1>2. \A y \in Sessions : task'[y] \subseteq task[y] /\ rows'[y] \subseteq rows[y]
  BY <1>1 DEF IInv, TypeOK
<1>3. Evolves(attempts, attempts')
  BY <1>1, EvolvesSame
<1>4. QueuesInv' /\ FlightsOwned'
  BY <1>1, <1>2, <1>3, QuietLoss
<1>5. ReceiptsTrue'
  BY <1>1, <1>2 DEF LossInv, ReceiptsTrue
<1> QED
  BY <1>4, <1>5 DEF LossInv

(* A row carries receipts of what the engine took (refresh, observe).      *)
LEMMA ObserveLoss ==
    ASSUME IInv, LossInv, NEW s \in Sessions, Snapshot(s) \/ Tick(s)
    PROVE  LossInv'
<1>1. PICK r : /\ ObserveRow(s, r)
               /\ \A u \in r.receipts : WasRead(attempts, u)
               /\ rows' = [rows EXCEPT ![s] = {r}] \/ rows' = rows
  <2>1. CASE Snapshot(s)
    <3>1. PICK st \in RowStates, prompts \in 0..MaxPrompts,
               receipts \in SUBSET Read(s) :
             LET r == [state |-> st, prompts |-> prompts, receipts |-> receipts]
             IN rows' = [rows EXCEPT ![s] = {r}] /\ ObserveRow(s, r)
      BY <2>1 DEF Snapshot
    <3> DEFINE r == [state |-> st, prompts |-> prompts, receipts |-> receipts]
    <3>2. r.receipts = receipts
      OBVIOUS
    <3>3. \A u \in receipts : WasRead(attempts, u)
      BY DEF Read, WasRead
    <3>4. rows' = [rows EXCEPT ![s] = {r}] /\ ObserveRow(s, r)
      BY <3>1
    <3> HIDE DEF r
    <3> QED
      BY <3>2, <3>3, <3>4
  <2>2. CASE Tick(s)
    <3>1. PICK r \in rows[s] : ObserveRow(s, r) /\ rows' = rows
      BY <2>2 DEF Tick
    <3> QED
      BY <3>1 DEF LossInv, ReceiptsTrue
  <2> QED
    BY <2>1, <2>2
<1>2. /\ delivered' = [delivered EXCEPT ![s] =
                         IF s \in records THEN r.receipts ELSE {}]
      /\ UNCHANGED <<state, records, disk, task, attempts, minted, discarded,
                     reported, replaced>>
  BY <1>1 DEF ObserveRow, history
<1>3. QueuesInv' /\ FlightsOwned'
  BY <1>2, EvolvesSame, QuietLoss
<1>4. ReceiptsTrue'
  <2> SUFFICES ASSUME NEW y \in Sessions
               PROVE  /\ \A u \in delivered'[y] : WasRead(attempts, u)
                      /\ \A x \in rows'[y] : \A u \in x.receipts :
                            WasRead(attempts, u)
    BY <1>2 DEF ReceiptsTrue
  <2>1. delivered'[y] \subseteq delivered[y] \cup r.receipts
    BY <1>2 DEF IInv, TypeOK
  <2>2. rows'[y] \subseteq rows[y] \cup {r}
    BY <1>1 DEF IInv, TypeOK
  <2> QED
    BY <1>1, <2>1, <2>2 DEF LossInv, ReceiptsTrue
<1> QED
  BY <1>3, <1>4 DEF LossInv

(* The engine answers a pending attempt.                                   *)
LEMMA EngineLoss ==
    ASSUME IInv, LossInv, NEW u \in Uuids, EngineAnswers(u)
    PROVE  LossInv'
<1>1. PICK a \in attempts[u], fate \in {"taken", "refused"} :
        /\ a.fate = "pending"
        /\ attempts' = [attempts EXCEPT ![u] = {[a EXCEPT !.fate = fate]}]
        /\ UNCHANGED <<state, records, delivered, disk, rows, task,
                       minted, discarded, reported, replaced>>
  BY DEF EngineAnswers, hub, history
<1>2. attempts \in [Uuids -> Option(Attempt)]
  BY DEF IInv, TypeOK
<1>3. a \in Attempt /\ attempts[u] = {a}
  BY <1>2, OptionFacts
<1> DEFINE b == [a EXCEPT !.fate = fate]
<1>4. b.id = a.id
  BY <1>3 DEF Attempt
<1>5. attempts'[u] = {b} /\ \A v \in Uuids \ {u} : attempts'[v] = attempts[v]
  BY <1>1, <1>2
<1> HIDE DEF b
<1>6. Evolves(attempts, attempts')
  BY <1>1, <1>3, <1>4, <1>5 DEF Evolves
<1>7. QueuesInv' /\ FlightsOwned'
  BY <1>1, <1>6, QuietLoss
<1>8. ReceiptsTrue'
  BY <1>1, <1>6, ReceiptsKept DEF LossInv
<1> QED
  BY <1>7, <1>8 DEF LossInv

-----------------------------------------------------------------------------
(* Dropped queues and restarts                                             *)

(* What a dropped queue held was discarded (forget, prune).                *)
LEMMA DropLoss ==
    ASSUME IInv, IInv', LossInv, NEW S \in SUBSET Sessions, Drop(S),
           \A s \in Sessions : rows'[s] \subseteq rows[s]
    PROVE  LossInv'
<1>1. /\ state' = [s \in Sessions |-> IF s \in S THEN NoQueue ELSE state[s]]
      /\ records' = records \ S
      /\ delivered' = [s \in Sessions |-> IF s \in S THEN {} ELSE delivered[s]]
      /\ discarded' = discarded \cup
           UNION {IdsOf(state[s].entries) \cup {f.id : f \in state[s].inFlight} :
                  s \in S}
      /\ disk' = disk \/ disk' = DocumentOf(state', records', turns')
      /\ UNCHANGED <<task, attempts, minted, reported, replaced>>
  BY DEF Drop, WriteFails
<1>2. /\ \A s \in S : state'[s] = NoQueue
      /\ \A s \in Sessions \ S : state'[s] = state[s]
      /\ NoQueue.inFlight = {} /\ NoQueue.uncertain = {} /\ NoQueue.confirmed = {}
  BY <1>1 DEF NoQueue
<1>3. Gone \subseteq Gone'
  BY <1>1 DEF Gone
<1>4. Kept(state', attempts', minted' \ Gone')
  <2> SUFFICES ASSUME NEW id \in minted \ Gone'
               PROVE  \/ \E x \in Sessions : Holds(state'[x], id)
                      \/ Arrived(attempts, id)
    BY <1>1 DEF Kept
  <2>1. (\E x \in Sessions : Holds(state[x], id)) \/ Arrived(attempts, id)
    BY <1>3 DEF LossInv, QueuesInv, Kept
  <2>2. \A s \in S : ~Holds(state[s], id)
    <3> SUFFICES ASSUME NEW s \in S, Holds(state[s], id) PROVE id \in discarded'
      BY DEF Gone
    <3>1. id \in IdsOf(state[s].entries) \cup {f.id : f \in state[s].inFlight}
      BY DEF Holds
    <3> QED
      BY <1>1, <3>1
  <2> QED
    BY <1>2, <2>1, <2>2
<1>5. Honest(state', attempts')
  BY <1>1, <1>2 DEF LossInv, QueuesInv, Honest, HonestQueue
<1>6. Covers(records', state')
  BY <1>1, <1>2 DEF LossInv, QueuesInv, RecordsCover, Covers
<1>7. QueuesInv'
  <2>1. CASE disk' = disk
    <3>1. Kept(disk'.queues, attempts', minted' \ Gone')
      BY <1>1, <1>3, <2>1 DEF LossInv, QueuesInv, Kept
    <3>2. FlightsPersisted'
      BY <1>2, <2>1 DEF LossInv, QueuesInv, FlightsPersisted
    <3>3. Honest(disk'.queues, attempts') /\ Covers(disk'.held, disk'.queues)
      BY <1>1, <2>1 DEF LossInv, QueuesInv, RecordsCover
    <3> QED
      BY <1>4, <1>5, <1>6, <3>1, <3>2, <3>3 DEF QueuesInv, RecordsCover
  <2>2. CASE disk' = DocumentOf(state', records', turns')
    <3>1. state' \in [Sessions -> Queue] /\ records' \in SUBSET Sessions
      BY DEF IInv, TypeOK
    <3>2. SameQueues(disk'.queues, state') /\ Covers(disk'.held, disk'.queues)
      BY <1>6, <2>2, <3>1, DocumentKeeps
    <3>3. Kept(disk'.queues, attempts', minted' \ Gone')
      BY <1>4, <3>2 DEF Kept, Holds, SameQueues
    <3>4. Honest(disk'.queues, attempts')
      BY <1>5, <3>2 DEF Honest, HonestQueue, SameQueues
    <3> QED
      BY <1>4, <1>5, <1>6, <3>2, <3>3, <3>4
         DEF QueuesInv, RecordsCover, FlightsPersisted, SameQueues
  <2> QED
    BY <1>1, <2>1, <2>2
<1>8. ReceiptsTrue'
  <2>1. \A s \in Sessions : delivered'[s] \subseteq delivered[s]
    BY <1>1
  <2> QED
    BY <1>1, <2>1 DEF LossInv, ReceiptsTrue
<1>9. FlightsOwned'
  BY <1>1, <1>2 DEF LossInv, FlightsOwned
<1> QED
  BY <1>7, <1>8, <1>9 DEF LossInv

(* Closing a session and pruning unknown ones (forget, prune).             *)
LEMMA DropsLoss ==
    ASSUME IInv, IInv', LossInv, Prune \/ \E s \in Sessions : Close(s)
    PROVE  LossInv'
<1>1. CASE Prune
  <2>1. PICK S \in SUBSET {s \in records : rows[s] = {}} : Drop(S) /\ rows' = rows
    BY <1>1 DEF Prune
  <2>2. S \in SUBSET Sessions
    BY DEF IInv, TypeOK
  <2> QED
    BY <2>1, <2>2, DropLoss
<1>2. CASE \E s \in Sessions : Close(s)
  <2>1. PICK s \in Sessions : rows' = [rows EXCEPT ![s] = {}] /\ Drop({s})
    BY <1>2 DEF Close
  <2>2. \A x \in Sessions : rows'[x] \subseteq rows[x]
    BY <2>1 DEF IInv, TypeOK
  <2> QED
    BY <2>1, <2>2, DropLoss
<1> QED
  BY <1>1, <1>2

(* A queue read back from the document reports what was in flight.         *)
LEMMA OpenedFacts ==
    ASSUME NEW q \in Queue
    PROVE  /\ Opened(q).entries = q.entries /\ Opened(q).inFlight = {}
           /\ Opened(q).confirmed \subseteq q.confirmed
           /\ \A r \in Opened(q).uncertain :
                 r \in q.uncertain \/ \E f \in q.inFlight :
                                         r.id = f.id /\ r.uuid = f.uuid
           /\ \A f \in q.inFlight :
                 /\ Opened(q).paused
                 /\ Opened(q).uncertain = {[id |-> f.id, uuid |-> f.uuid]}
<1>1. q.inFlight \in Option(Flight)
  BY DEF Queue
<1>2. CASE q.inFlight = {}
  BY <1>2 DEF Opened
<1>3. CASE q.inFlight # {}
  <2> DEFINE f == CHOOSE f \in q.inFlight : TRUE
             n == [q EXCEPT !.inFlight = {}]
  <2>1. f \in q.inFlight /\ q.inFlight = {f}
    BY <1>1, <1>3, OptionFacts
  <2>2. Opened(q) = MarkUncertain(n, f)
    BY <1>3 DEF Opened
  <2> HIDE DEF f
  <2>3. /\ MarkUncertain(n, f).entries = q.entries
        /\ MarkUncertain(n, f).inFlight = {}
        /\ MarkUncertain(n, f).uncertain = {[id |-> f.id, uuid |-> f.uuid]}
        /\ MarkUncertain(n, f).confirmed = {} /\ MarkUncertain(n, f).paused = TRUE
    BY DEF MarkUncertain, Queue
  <2> QED
    BY <2>1, <2>2, <2>3
<1> QED
  BY <1>2, <1>3

(* A restart surfaces every record in flight the document holds (open).    *)
LEMMA RestartLoss ==
    ASSUME IInv, LossInv, Restart
    PROVE  LossInv'
<1>1. /\ state' = [s \in Sessions |-> Opened(disk.queues[s])]
      /\ records' = disk.held
      /\ delivered' = [s \in Sessions |-> {}]
      /\ rows' = [s \in Sessions |-> {}]
      /\ task' = [s \in Sessions |-> {}]
      /\ reported' = reported \cup
           UNION {{f.id : f \in disk.queues[s].inFlight} : s \in Sessions}
      /\ UNCHANGED <<disk, attempts, minted, discarded, replaced>>
  BY DEF Restart
<1>2. disk.queues \in [Sessions -> Queue]
  BY DEF IInv, TypeOK, Document
<1>3. \A s \in Sessions :
         /\ state'[s].entries = disk.queues[s].entries
         /\ state'[s].inFlight = {}
         /\ state'[s].confirmed \subseteq disk.queues[s].confirmed
         /\ \A r \in state'[s].uncertain :
               \/ r \in disk.queues[s].uncertain
               \/ \E f \in disk.queues[s].inFlight : r.id = f.id /\ r.uuid = f.uuid
  BY <1>1, <1>2, OpenedFacts
<1>4. Gone \subseteq Gone'
  BY <1>1 DEF Gone
<1>5. Kept(disk'.queues, attempts', minted' \ Gone')
  BY <1>1, <1>4 DEF LossInv, QueuesInv, Kept
<1>6. Kept(state', attempts', minted' \ Gone')
  <2>1. \A s \in Sessions : \A f \in disk.queues[s].inFlight : f.id \in Gone'
    BY <1>1 DEF Gone
  <2> QED
    BY <1>1, <1>3, <1>5, <2>1 DEF Kept, Holds
<1>7. Honest(state', attempts') /\ Honest(disk'.queues, attempts')
  <2>1. Honest(disk.queues, attempts)
    BY DEF LossInv, QueuesInv
  <2>2. ASSUME NEW s \in Sessions
        PROVE  HonestQueue(state'[s], attempts)
    <3>1. HonestQueue(disk.queues[s], attempts)
      BY <2>1 DEF Honest
    <3>2. \A c \in state'[s].confirmed : TakenAs(attempts, c.id, c.uuid)
      BY <1>3, <3>1 DEF HonestQueue
    <3>3. \A r \in state'[s].uncertain : Named(attempts, r.id, r.uuid)
      <4>1. TAKE r \in state'[s].uncertain
      <4>2. CASE r \in disk.queues[s].uncertain
        BY <3>1, <4>2 DEF HonestQueue
      <4>3. CASE \E f \in disk.queues[s].inFlight : r.id = f.id /\ r.uuid = f.uuid
        BY <3>1, <4>3 DEF HonestQueue
      <4> QED
        BY <1>3, <4>2, <4>3
    <3> QED
      BY <1>3, <3>2, <3>3 DEF HonestQueue
  <2> QED
    BY <1>1, <2>1, <2>2 DEF Honest
<1>8. RecordsCover'
  <2>1. ASSUME NEW s \in Sessions \ records'
        PROVE  state'[s] = NoQueue
    <3>1. disk.queues[s] = NoQueue
      BY <1>1 DEF LossInv, QueuesInv, RecordsCover, Covers
    <3>2. Opened(NoQueue) = NoQueue
      BY DEF Opened, NoQueue
    <3> QED
      BY <1>1, <3>1, <3>2
  <2> QED
    BY <1>1, <2>1 DEF LossInv, QueuesInv, RecordsCover, Covers
<1>9. FlightsPersisted' /\ ReceiptsTrue' /\ FlightsOwned'
  BY <1>1, <1>3 DEF FlightsPersisted, ReceiptsTrue, FlightsOwned
<1> QED
  BY <1>5, <1>6, <1>7, <1>8, <1>9 DEF LossInv, QueuesInv

-----------------------------------------------------------------------------
(* Initially there is nothing to lose.                                     *)
LEMMA InitLoss == Init => LossInv
<1> SUFFICES ASSUME Init PROVE LossInv
  OBVIOUS
<1>1. /\ \A s \in Sessions : state[s] = NoQueue
      /\ state \in [Sessions -> Queue] /\ records \in SUBSET Sessions
      /\ disk = DocumentOf(state, records, turns) /\ minted = {}
  BY NoQueueFacts DEF Init
<1>2. Covers(records, state)
  BY <1>1 DEF Covers
<1>3. SameQueues(disk.queues, state) /\ Covers(disk.held, disk.queues)
  BY <1>1, <1>2, DocumentKeeps
<1>4. \A s \in Sessions : /\ state[s].inFlight = {} /\ state[s].uncertain = {}
                          /\ state[s].confirmed = {}
  BY <1>1 DEF NoQueue
<1>5. Honest(state, attempts) /\ Honest(disk.queues, attempts)
  BY <1>3, <1>4 DEF Honest, HonestQueue, SameQueues
<1>6. /\ Kept(state, attempts, minted \ Gone)
      /\ Kept(disk.queues, attempts, minted \ Gone)
  BY <1>1 DEF Kept
<1>7. FlightsPersisted
  BY <1>4 DEF FlightsPersisted
<1>8. ReceiptsTrue /\ FlightsOwned
  BY DEF Init, ReceiptsTrue, FlightsOwned
<1> QED
  BY <1>2, <1>3, <1>5, <1>6, <1>7, <1>8 DEF LossInv, QueuesInv, RecordsCover

(* Every step keeps the invariant.                                         *)
LEMMA NextLoss == IInv /\ LossInv /\ [Next]_vars => LossInv'
<1> SUFFICES ASSUME IInv, LossInv, [Next]_vars PROVE LossInv'
  OBVIOUS
<1>0. IInv'
  BY NextIInv
<1>1. CASE \E s \in Sessions : Calls(s)
  BY <1>0, <1>1, CallLoss, TakesLoss, CallTimeoutLoss DEF Calls
<1>2. CASE \E s \in Sessions : Worker(s)
  BY <1>0, <1>2, FlushQueueLoss, TakesLoss, FlushPauseLoss, SettleSentLoss,
     SettleRejectedLoss, SettleUncertainLoss DEF Worker
<1>3. CASE \E s \in Sessions : Environment(s)
  BY <1>0, <1>3, ObserveLoss, CallTimeoutLoss, DropsLoss DEF Environment
<1>4. CASE \E u \in Uuids : EngineAnswers(u)
  BY <1>4, EngineLoss
<1>5. CASE Prune
  BY <1>0, <1>5, DropsLoss
<1>6. CASE Restart
  BY <1>6, RestartLoss
<1>7. CASE UNCHANGED vars
  <2>1. UNCHANGED <<state, records, disk, task, attempts, delivered, rows, minted,
                    discarded, reported, replaced>>
    BY <1>7 DEF vars
  <2>2. QueuesInv' /\ FlightsOwned'
    BY <2>1, EvolvesSame, QuietLoss
  <2>3. ReceiptsTrue'
    BY <2>1 DEF LossInv, ReceiptsTrue
  <2> QED
    BY <2>2, <2>3 DEF LossInv
<1> QED
  BY <1>1, <1>2, <1>3, <1>4, <1>5, <1>6, <1>7 DEF Next

(* Only a restart spends the budget of restarts.                           *)
LEMMA OnlyRestartCrashes ==
    ASSUME IInv, [Next]_vars, budget'.crash # budget.crash
    PROVE  Restart
<1>1. budget \in Budget /\ budget.crash \in Nat
  BY DEF IInv, TypeOK, Budget
<1>2. \A q, tn : \A s \in Sessions : Commit(s, q, tn) => budget'.crash = budget.crash
  BY <1>1 DEF Commit, WriteFails, Budget
<1>3. ASSUME NEW s \in Sessions, Calls(s) PROVE budget'.crash = budget.crash
  BY <1>1, <1>3 DEF Calls, QueueAdd, QueueUpdate, QueueRemove, QueueResume,
     QueueMove, QueueClear, QueueSendNow, CallTimeout, Mutate, Budget
<1>4. ASSUME NEW s \in Sessions, Worker(s) PROVE budget'.crash = budget.crash
  <2>1. CASE FlushPause(s)
    BY <1>1, <1>2, <2>1 DEF FlushPause, Budget
  <2>2. CASE ~FlushPause(s)
    BY <1>1, <1>2, <1>4, <2>2 DEF Worker, FlushQueue, FlushTake, SettleSent,
       SettleRejected, SettleUncertain
  <2> QED
    BY <2>1, <2>2
<1>5. ASSUME NEW s \in Sessions, Environment(s) PROVE budget'.crash = budget.crash
  BY <1>1, <1>5 DEF Environment, Snapshot, Vanish, Tick, StaleElapses, Close,
     Drop, WriteFails, ObserveRow, Budget
<1>6. ASSUME NEW u \in Uuids, EngineAnswers(u) PROVE budget'.crash = budget.crash
  BY <1>6 DEF EngineAnswers
<1>7. ASSUME Prune PROVE budget'.crash = budget.crash
  BY <1>1, <1>7 DEF Prune, Drop, WriteFails, Budget
<1> QED
  BY <1>3, <1>4, <1>5, <1>6, <1>7 DEF Next, vars

-----------------------------------------------------------------------------
(* No accepted entry vanishes: until the engine took it, it is queued or   *)
(* in flight, or it was reported, or a client discarded it, or a later     *)
(* send-now overwrote the record of one the broker had cut off             *)
(* (message_queue.rs transact, settle, open, for any number of sessions,   *)
(* crashes, refused writes and timeouts).                                  *)
THEOREM NothingVanishes == Spec => []NoSilentLoss
<1>1. LossInv => NoSilentLoss
  BY DEF LossInv, QueuesInv, Kept, Gone, Holds, Arrived, TakenAs, NoSilentLoss
<1>2. Init => IInv /\ LossInv
  BY InitIInv, InitLoss
<1>3. IInv /\ LossInv /\ [Next]_vars => (IInv /\ LossInv)'
  BY NextIInv, NextLoss
<1> QED
  BY <1>1, <1>2, <1>3, PTL DEF Spec

(* A confirmation names an attempt the engine took, in whatever order      *)
(* receipts, reports, restarts and further sends come (confirm).           *)
THEOREM ConfirmationsAreTrue == Spec => []ConfirmedWasTaken
<1>1. LossInv => ConfirmedWasTaken
  BY DEF LossInv, QueuesInv, Honest, HonestQueue, TakenAs, ConfirmedWasTaken
<1>2. Init => IInv /\ LossInv
  BY InitIInv, InitLoss
<1>3. IInv /\ LossInv /\ [Next]_vars => (IInv /\ LossInv)'
  BY NextIInv, NextLoss
<1> QED
  BY <1>1, <1>2, <1>3, PTL DEF Spec

(* A restart turns every delivery it cut off into a report on a paused     *)
(* queue, whichever bookkeeping writes had failed before (open).           *)
THEOREM RestartReports == Spec => RestartSurfaces
<1> DEFINE Surfaced ==
             budget'.crash # budget.crash =>
                \A s \in Sessions : \A f \in state[s].inFlight :
                   /\ state'[s].paused
                   /\ state'[s].uncertain = {[id |-> f.id, uuid |-> f.uuid]}
<1>1. IInv /\ LossInv /\ [Next]_vars => [Surfaced]_vars
  <2> SUFFICES ASSUME IInv, LossInv, [Next]_vars, budget'.crash # budget.crash,
                      NEW s \in Sessions, NEW f \in state[s].inFlight
               PROVE  /\ state'[s].paused
                      /\ state'[s].uncertain = {[id |-> f.id, uuid |-> f.uuid]}
    OBVIOUS
  <2>1. state' = [x \in Sessions |-> Opened(disk.queues[x])]
    BY OnlyRestartCrashes DEF Restart
  <2>2. f \in disk.queues[s].inFlight /\ disk.queues[s] \in Queue
    BY DEF LossInv, QueuesInv, FlightsPersisted, IInv, TypeOK, Document
  <2> QED
    BY <2>1, <2>2, OpenedFacts
<1>2. Init => IInv /\ LossInv
  BY InitIInv, InitLoss
<1>3. IInv /\ LossInv /\ [Next]_vars => (IInv /\ LossInv)'
  BY NextIInv, NextLoss
<1> QED
  BY <1>1, <1>2, <1>3, PTL DEF Spec, RestartSurfaces

-----------------------------------------------------------------------------
(* How much text a queue holds.  Bytes folds over the places of the queue  *)
(* in an unspecified order; its laws follow from the least counterexample. *)

(* A nonempty set of numbers has a least one.                              *)
LEMMA LeastIs ==
    ASSUME NEW S \in SUBSET Nat, S # {}
    PROVE  \E x \in S : \A y \in S : x <= y
<1>1. PICK x \in S : \A y \in S : <<y, x>> \notin OpToRel(<, Nat)
  BY NatLessThanWellFounded, WFMin
<1>2. \A y \in S : ~(y < x)
  BY <1>1 DEF OpToRel
<1> QED
  BY <1>2

One(T) == CHOOSE x \in T : TRUE

(* The sum the fold computes, over a set T of places.                      *)
Summed(g, E, T) == IF T = {} THEN 0 ELSE E[One(T)].text + g[T \ {One(T)}]
Sums(g, E) == g = [T \in SUBSET DOMAIN E |-> Summed(g, E, T)]
SumOf(E) == CHOOSE g : Sums(g, E)
Weight(E) == SumOf(E)[DOMAIN E]

LEMMA BytesWeight ==
    ASSUME NEW q
    PROVE  Bytes(q) = Weight(q.entries)
  BY DEF Bytes, FoldSeq, FoldFunction, FoldFunctionOnSet, MapThenFoldSet, Weight,
         SumOf, Sums, Summed, One

(* Sets of places are finite, and one place less is one less.              *)
LEMMA Places ==
    ASSUME NEW E \in Seq(Entry), NEW T \in SUBSET DOMAIN E
    PROVE  /\ Cardinality(T) \in Nat
           /\ Cardinality(T) = 0 => T = {}
           /\ \A x \in T : /\ T \ {x} \in SUBSET DOMAIN E
                           /\ Cardinality(T \ {x}) = Cardinality(T) - 1
<1>1. DOMAIN E = 1..Len(E) /\ Len(E) \in Nat
  OBVIOUS
<1>2. IsFiniteSet(DOMAIN E)
  BY <1>1, FS_Interval
<1>3. IsFiniteSet(T)
  BY <1>2, FS_Subset
<1>4. Cardinality(T) \in Nat /\ (Cardinality(T) = 0 => T = {})
  BY <1>3, FS_CardinalityType, FS_EmptySet
<1>5. \A x \in T : Cardinality(T \ {x}) = Cardinality(T) - 1
  BY <1>3, FS_RemoveElement
<1> QED
  BY <1>4, <1>5

(* There is such a sum: up to every size, hence for all places.            *)
SumsUpTo(g, E, n) ==
    \A T \in SUBSET DOMAIN E : Cardinality(T) <= n => g[T] = Summed(g, E, T)

LEMMA SumsExist ==
    ASSUME NEW E \in Seq(Entry), NEW n \in Nat
    PROVE  \E g : SumsUpTo(g, E, n)
<1> DEFINE Bad == {m \in Nat : ~\E g : SumsUpTo(g, E, m)}
<1> SUFFICES ASSUME Bad # {} PROVE FALSE
  OBVIOUS
<1>1. PICK m \in Bad : \A k \in Bad : m <= k
  BY LeastIs
<1>2. m \in Nat /\ ~\E g : SumsUpTo(g, E, m)
  BY <1>1
<1>3. ASSUME NEW g, m = 0 \/ SumsUpTo(g, E, m - 1)
      PROVE  FALSE
  <2> DEFINE h == [T \in SUBSET DOMAIN E |-> Summed(g, E, T)]
  <2>1. ASSUME NEW T \in SUBSET DOMAIN E, Cardinality(T) <= m
        PROVE  h[T] = Summed(h, E, T)
    <3>1. CASE T = {}
      BY <3>1 DEF Summed
    <3>2. CASE T # {}
      <4>1. PICK x : x = One(T) /\ x \in T
        BY <3>2 DEF One
      <4>2. PICK U : U = T \ {x}
        OBVIOUS
      <4>3. U \in SUBSET DOMAIN E /\ Cardinality(U) = Cardinality(T) - 1
            /\ Cardinality(U) \in Nat
        BY <4>1, <4>2, Places
      <4>4. m # 0 /\ Cardinality(U) <= m - 1
        BY <1>2, <2>1, <4>3, Places
      <4>5. g[U] = Summed(g, E, U)
        BY <1>3, <4>3, <4>4 DEF SumsUpTo
      <4>6. h[U] = g[U]
        BY <4>3, <4>5
      <4>7. h[T] = E[x].text + g[U]
        BY <3>2, <4>1, <4>2 DEF Summed
      <4> QED
        BY <3>2, <4>1, <4>2, <4>6, <4>7 DEF Summed
    <3> QED
      BY <3>1, <3>2
  <2> HIDE DEF h
  <2>2. SumsUpTo(h, E, m)
    BY <2>1 DEF SumsUpTo
  <2> QED
    BY <1>2, <2>2
<1>4. m # 0
  BY <1>3
<1>5. m - 1 \in Nat /\ m - 1 \notin Bad
  BY <1>1, <1>2, <1>4
<1>6. \E g : SumsUpTo(g, E, m - 1)
  BY <1>5
<1> QED
  BY <1>3, <1>6

LEMMA SumsLaw ==
    ASSUME NEW E \in Seq(Entry)
    PROVE  \A T \in SUBSET DOMAIN E : SumOf(E)[T] = Summed(SumOf(E), E, T)
<1>1. PICK n \in Nat : n = Cardinality(DOMAIN E)
  BY Places
<1>2. PICK g : SumsUpTo(g, E, n)
  BY SumsExist
<1>3. ASSUME NEW T \in SUBSET DOMAIN E
      PROVE  Cardinality(T) <= n
  <2>1. DOMAIN E = 1..Len(E) /\ Len(E) \in Nat
    OBVIOUS
  <2>2. IsFiniteSet(DOMAIN E)
    BY <2>1, FS_Interval
  <2>3. Cardinality(T) <= Cardinality(DOMAIN E)
    BY <2>2, FS_Subset
  <2> QED
    BY <1>1, <2>3
<1>4. \A T \in SUBSET DOMAIN E : g[T] = Summed(g, E, T)
  BY <1>2, <1>3 DEF SumsUpTo
<1> DEFINE h == [T \in SUBSET DOMAIN E |-> Summed(g, E, T)]
<1>5. \A T \in SUBSET DOMAIN E : h[T] = g[T]
  BY <1>4
<1>6. \A T \in SUBSET DOMAIN E : Summed(h, E, T) = Summed(g, E, T)
  <2> SUFFICES ASSUME NEW T \in SUBSET DOMAIN E, T # {}
               PROVE  Summed(h, E, T) = Summed(g, E, T)
    BY DEF Summed
  <2>1. One(T) \in T
    BY DEF One
  <2>2. T \ {One(T)} \in SUBSET DOMAIN E
    OBVIOUS
  <2>3. h[T \ {One(T)}] = g[T \ {One(T)}]
    BY <1>5, <2>2
  <2> HIDE DEF h
  <2> QED
    BY <2>3 DEF Summed
<1>7. h = [T \in SUBSET DOMAIN E |-> Summed(h, E, T)]
  BY <1>6
<1>8. Sums(h, E)
  BY <1>7 DEF Sums
<1>9. Sums(SumOf(E), E)
  BY <1>8 DEF SumOf
<1> HIDE DEF h
<1>10. PICK s : s = SumOf(E)
  OBVIOUS
<1>11. s = [T \in SUBSET DOMAIN E |-> Summed(s, E, T)]
  BY <1>9, <1>10 DEF Sums
<1> QED
  BY <1>10, <1>11

(* It counts every place, whichever comes first.                           *)
Counted(g, E, U) == /\ g[U] \in Nat
                    /\ \A x \in U : g[U] = E[x].text + g[U \ {x}]

LEMMA SumCounts ==
    ASSUME NEW E \in Seq(Entry), NEW T \in SUBSET DOMAIN E
    PROVE  /\ SumOf(E)[{}] = 0
           /\ SumOf(E)[T] \in Nat
           /\ \A x \in T : SumOf(E)[T] = E[x].text + SumOf(E)[T \ {x}]
<1>1. PICK g : g = SumOf(E)
  OBVIOUS
<1> DEFINE Bad == {n \in Nat : \E U \in SUBSET DOMAIN E :
                                  Cardinality(U) = n /\ ~Counted(g, E, U)}
<1>2. g[{}] = 0
  BY <1>1, SumsLaw DEF Summed
<1>3. \A x \in DOMAIN E : E[x].text \in Nat
  <2>1. \A x \in DOMAIN E : E[x] \in Entry
    OBVIOUS
  <2> QED
    BY <2>1, TextsAssumption DEF Entry
<1>4. ASSUME Bad # {} PROVE FALSE
  <2>1. PICK n \in Bad : \A k \in Bad : n <= k
    BY <1>4, LeastIs
  <2>2. PICK U \in SUBSET DOMAIN E : Cardinality(U) = n /\ ~Counted(g, E, U)
    BY <2>1
  <2>3. U # {}
    <3>1. Counted(g, E, {})
      BY <1>2 DEF Counted
    <3> QED
      BY <2>2, <3>1
  <2>4. ASSUME NEW V \in SUBSET DOMAIN E, Cardinality(V) < n
        PROVE  Counted(g, E, V)
    <3>1. PICK k : k = Cardinality(V) /\ k \in Nat /\ n \in Nat
      BY Places
    <3>2. k \notin Bad
      BY <2>1, <2>4, <3>1
    <3> QED
      BY <2>4, <3>1, <3>2
  <2>5. PICK c : c = One(U) /\ c \in U
    BY <2>3 DEF One
  <2>6. g[U] = E[c].text + g[U \ {c}]
    BY <1>1, <2>2, <2>3, <2>5, SumsLaw DEF Summed
  <2>7. \A x \in U : U \ {x} \in SUBSET DOMAIN E /\ Counted(g, E, U \ {x})
    BY <2>2, <2>4, Places
  <2>8. g[U] \in Nat
    <3>1. g[U \ {c}] \in Nat
      BY <2>5, <2>7 DEF Counted
    <3>2. E[c].text \in Nat
      BY <1>3, <2>2, <2>5
    <3> QED
      BY <2>6, <3>1, <3>2
  <2>9. ASSUME NEW x \in U, x # c
        PROVE  g[U] = E[x].text + g[U \ {x}]
    <3>1. PICK V : V = (U \ {c}) \ {x} /\ V = (U \ {x}) \ {c}
      OBVIOUS
    <3>2. x \in U \ {c} /\ c \in U \ {x}
      BY <2>5, <2>9
    <3>3. g[U \ {c}] = E[x].text + g[V]
      <4>1. Counted(g, E, U \ {c})
        BY <2>5, <2>7
      <4>2. g[U \ {c}] = E[x].text + g[(U \ {c}) \ {x}]
        BY <3>2, <4>1 DEF Counted
      <4> QED
        BY <3>1, <4>2
    <3>4. g[U \ {x}] = E[c].text + g[V]
      <4>1. Counted(g, E, U \ {x})
        BY <2>7
      <4>2. g[U \ {x}] = E[c].text + g[(U \ {x}) \ {c}]
        BY <3>2, <4>1 DEF Counted
      <4> QED
        BY <3>1, <4>2
    <3>5. V \in SUBSET DOMAIN E /\ Cardinality(V) \in Nat
      BY <3>1, Places
    <3>6. g[V] \in Nat
      <4>1. U \ {c} \in SUBSET DOMAIN E /\ Cardinality(U \ {c}) = n - 1 /\ n \in Nat
        BY <2>2, <2>5, Places
      <4>2. PICK W : W = U \ {c}
        OBVIOUS
      <4>3. W \in SUBSET DOMAIN E /\ x \in W /\ V = W \ {x} /\ Cardinality(W) = n - 1
        BY <3>1, <3>2, <4>1, <4>2
      <4>4. Cardinality(V) = Cardinality(W) - 1
        BY <4>3, Places
      <4>5. Cardinality(V) < n
        BY <4>1, <4>3, <4>4
      <4>6. Counted(g, E, V)
        BY <2>4, <3>5, <4>5
      <4> QED
        BY <4>6 DEF Counted
    <3>7. E[x].text \in Nat /\ E[c].text \in Nat
      BY <1>3, <2>2, <2>5
    <3>8. PICK a, b, d, e, f : /\ a = E[x].text /\ b = E[c].text /\ d = g[U \ {c}]
                               /\ e = g[U \ {x}] /\ f = g[V]
      OBVIOUS
    <3> QED
      BY <2>6, <3>3, <3>4, <3>6, <3>7, <3>8
  <2> QED
    BY <2>2, <2>5, <2>6, <2>8, <2>9 DEF Counted
<1>5. Counted(g, E, T)
  BY <1>4, Places
<1> QED
  BY <1>1, <1>2, <1>5 DEF Counted

(* Queues whose places are renamed hold the same text.                     *)
Onto(f, T) == {f[i] : i \in T}

LEMMA SumMoves ==
    ASSUME NEW P \in Seq(Entry), NEW Q \in Seq(Entry), NEW S \in SUBSET DOMAIN P,
           NEW f \in [S -> DOMAIN Q],
           \A i, j \in S : f[i] = f[j] => i = j,
           \A i \in S : P[i].text = Q[f[i]].text
    PROVE  SumOf(P)[S] = SumOf(Q)[Onto(f, S)]
<1> DEFINE Bad == {n \in Nat : \E T \in SUBSET S :
                      Cardinality(T) = n /\ SumOf(P)[T] # SumOf(Q)[Onto(f, T)]}
<1>1. ASSUME Bad # {} PROVE FALSE
  <2>1. PICK n \in Bad : \A k \in Bad : n <= k
    BY <1>1, LeastIs
  <2>2. PICK T \in SUBSET S : Cardinality(T) = n /\ SumOf(P)[T] # SumOf(Q)[Onto(f, T)]
    BY <2>1
  <2>3. T # {}
    <3>1. Onto(f, {}) = {} /\ {} \in SUBSET DOMAIN P /\ {} \in SUBSET DOMAIN Q
      BY DEF Onto
    <3>2. SumOf(P)[{}] = 0 /\ SumOf(Q)[{}] = 0
      BY <3>1, SumCounts
    <3> QED
      BY <2>2, <3>1, <3>2
  <2>4. PICK x : x \in T /\ x \in S
    BY <2>2, <2>3
  <2>5. PICK U : U = T \ {x}
    OBVIOUS
  <2>6. PICK V, W : V = Onto(f, T) /\ W = Onto(f, U)
    OBVIOUS
  <2>7. V \in SUBSET DOMAIN Q /\ f[x] \in V /\ V \ {f[x]} = W
    BY <2>2, <2>4, <2>5, <2>6 DEF Onto
  <2>8. /\ T \in SUBSET DOMAIN P /\ U \in SUBSET S
        /\ Cardinality(U) = Cardinality(T) - 1 /\ Cardinality(U) \in Nat
    BY <2>2, <2>4, <2>5, Places
  <2>9. SumOf(P)[T] = P[x].text + SumOf(P)[U]
    BY <2>4, <2>5, <2>8, SumCounts
  <2>10. SumOf(Q)[V] = Q[f[x]].text + SumOf(Q)[W]
    BY <2>7, SumCounts
  <2>11. SumOf(P)[U] = SumOf(Q)[W]
    <3>1. PICK k : k = Cardinality(U) /\ k \in Nat /\ k = n - 1 /\ n \in Nat
      BY <2>2, <2>8
    <3>2. k \notin Bad
      <4>1. n <= k => FALSE
        BY <3>1
      <4> HIDE DEF Bad
      <4> QED
        BY <2>1, <4>1
    <3>3. SumOf(P)[U] = SumOf(Q)[Onto(f, U)]
      BY <2>8, <3>1, <3>2
    <3> QED
      BY <2>6, <3>3
  <2> QED
    BY <2>2, <2>4, <2>6, <2>9, <2>10, <2>11
<1>2. PICK n \in Nat : n = Cardinality(S)
  BY Places
<1> QED
  BY <1>1, <1>2

LEMMA WeightType ==
    ASSUME NEW E \in Seq(Entry)
    PROVE  Weight(E) \in Nat /\ Weight(<<>>) = 0
<1>1. Weight(E) \in Nat
  BY SumCounts DEF Weight
<1>2. <<>> \in Seq(Entry) /\ DOMAIN <<>> = {}
  OBVIOUS
<1> QED
  BY <1>1, <1>2, SumCounts DEF Weight

(* Q is P with one more entry, at k.                                       *)
LEMMA WeightTaken ==
    ASSUME NEW P \in Seq(Entry), NEW Q \in Seq(Entry), NEW k \in DOMAIN Q,
           NEW f \in [DOMAIN P -> DOMAIN Q],
           \A i, j \in DOMAIN P : f[i] = f[j] => i = j,
           \A i \in DOMAIN P : P[i].text = Q[f[i]].text,
           Onto(f, DOMAIN P) = DOMAIN Q \ {k}
    PROVE  Weight(Q) = Q[k].text + Weight(P)
<1>0. DOMAIN P \in SUBSET DOMAIN P /\ DOMAIN Q \in SUBSET DOMAIN Q
  OBVIOUS
<1>1. SumOf(P)[DOMAIN P] = SumOf(Q)[Onto(f, DOMAIN P)]
  BY <1>0, SumMoves
<1>2. SumOf(Q)[DOMAIN Q] = Q[k].text + SumOf(Q)[DOMAIN Q \ {k}]
  <2>1. PICK D : D = DOMAIN Q /\ D \in SUBSET DOMAIN Q /\ k \in D
    OBVIOUS
  <2>2. SumOf(Q)[D] = Q[k].text + SumOf(Q)[D \ {k}]
    BY <2>1, SumCounts
  <2> QED
    BY <2>1, <2>2
<1> QED
  BY <1>1, <1>2 DEF Weight

LEMMA WeightRemoved ==
    ASSUME NEW E \in Seq(Entry), NEW k \in DOMAIN E
    PROVE  Weight(E) = E[k].text + Weight(RemoveAt(E, k))
<1>1. PICK R : R = RemoveAt(E, k)
  OBVIOUS
<1>2. /\ R \in Seq(Entry) /\ DOMAIN R = 1..(Len(E) - 1)
      /\ \A i \in 1..(Len(E) - 1) : R[i] = E[IF i < k THEN i ELSE i + 1]
  BY <1>1, RemovedPlaces
<1>3. PICK n : n = Len(E) /\ n \in Nat /\ DOMAIN E = 1..n /\ k \in 1..n
  OBVIOUS
<1> DEFINE f == [i \in 1..(n - 1) |-> IF i < k THEN i ELSE i + 1]
<1>4. f \in [DOMAIN R -> DOMAIN E] /\ \A i \in DOMAIN R : R[i].text = E[f[i]].text
  BY <1>2, <1>3
<1>5. \A i, j \in DOMAIN R : f[i] = f[j] => i = j
  BY <1>2, <1>3
<1>6. Onto(f, DOMAIN R) = DOMAIN E \ {k}
  <2>1. ASSUME NEW j \in DOMAIN E \ {k}
        PROVE  \E i \in DOMAIN R : j = f[i]
    <3>1. CASE j < k
      BY <1>2, <1>3, <3>1
    <3>2. CASE j > k
      <4>1. j - 1 \in DOMAIN R /\ f[j - 1] = j
        BY <1>2, <1>3, <3>2
      <4> QED
        BY <4>1
    <3> QED
      BY <1>3, <3>1, <3>2
  <2>2. \A i \in DOMAIN R : f[i] \in DOMAIN E \ {k}
    BY <1>2, <1>3
  <2> HIDE DEF f
  <2> QED
    BY <2>1, <2>2 DEF Onto
<1> HIDE DEF f
<1>7. Weight(E) = E[k].text + Weight(R)
  BY <1>2, <1>4, <1>5, <1>6, WeightTaken
<1> QED
  BY <1>1, <1>7

LEMMA WeightInserted ==
    ASSUME NEW E \in Seq(Entry), NEW k \in 1..(Len(E) + 1), NEW e \in Entry
    PROVE  Weight(InsertAt(E, k, e)) = e.text + Weight(E)
<1>1. PICK R : R = InsertAt(E, k, e)
  OBVIOUS
<1>2. /\ R \in Seq(Entry) /\ DOMAIN R = 1..(Len(E) + 1) /\ R[k] = e
      /\ \A i \in 1..(Len(E) + 1) : (i < k => R[i] = E[i]) /\ (i > k => R[i] = E[i - 1])
  <2>1. IsInserted(E, k, e, R)
    BY <1>1, InsertedPlaces
  <2> QED
    BY <2>1 DEF IsInserted
<1>3. PICK n : n = Len(E) /\ n \in Nat /\ DOMAIN E = 1..n
  OBVIOUS
<1> DEFINE f == [i \in 1..n |-> IF i < k THEN i ELSE i + 1]
<1>4. f \in [DOMAIN E -> DOMAIN R] /\ \A i \in DOMAIN E : E[i].text = R[f[i]].text
  <2>1. \A i \in 1..n : i < k => E[i] = R[i]
    BY <1>2, <1>3
  <2>2. \A i \in 1..n : ~(i < k) => E[i] = R[i + 1]
    <3> SUFFICES ASSUME NEW i \in 1..n, ~(i < k) PROVE E[i] = R[i + 1]
      OBVIOUS
    <3>1. i + 1 \in 1..(Len(E) + 1) /\ i + 1 > k /\ (i + 1) - 1 = i
      BY <1>3
    <3> QED
      BY <1>2, <3>1
  <2> QED
    BY <1>2, <1>3, <2>1, <2>2
<1>5. \A i, j \in DOMAIN E : f[i] = f[j] => i = j
  BY <1>3
<1>6. Onto(f, DOMAIN E) = DOMAIN R \ {k}
  <2>1. ASSUME NEW j \in DOMAIN R \ {k}
        PROVE  \E i \in DOMAIN E : j = f[i]
    <3>1. CASE j < k
      BY <1>2, <1>3, <3>1
    <3>2. CASE j > k
      <4>1. j - 1 \in DOMAIN E /\ f[j - 1] = j
        BY <1>2, <1>3, <3>2
      <4> QED
        BY <4>1
    <3> QED
      BY <1>2, <1>3, <3>1, <3>2
  <2>2. \A i \in DOMAIN E : f[i] \in DOMAIN R \ {k}
    BY <1>2, <1>3
  <2> HIDE DEF f
  <2> QED
    BY <2>1, <2>2 DEF Onto
<1>7. k \in DOMAIN R
  BY <1>2
<1> HIDE DEF f
<1>8. Weight(R) = R[k].text + Weight(E)
  BY <1>2, <1>4, <1>5, <1>6, <1>7, WeightTaken
<1> QED
  BY <1>1, <1>2, <1>8

LEMMA WeightAppended ==
    ASSUME NEW E \in Seq(Entry), NEW e \in Entry
    PROVE  Weight(Append(E, e)) = Weight(E) + e.text
<1>1. PICK R, n : R = Append(E, e) /\ n = Len(E)
  OBVIOUS
<1>2. /\ n \in Nat /\ DOMAIN E = 1..n /\ R \in Seq(Entry) /\ DOMAIN R = 1..(n + 1)
      /\ R[n + 1] = e /\ \A i \in 1..n : R[i] = E[i]
  BY <1>1
<1>3. PICK f : f = [i \in 1..n |-> i]
  OBVIOUS
<1>4. /\ f \in [DOMAIN E -> DOMAIN R] /\ \A i \in 1..n : f[i] = i
      /\ Onto(f, DOMAIN E) = DOMAIN R \ {n + 1} /\ n + 1 \in DOMAIN R
      /\ \A i, j \in DOMAIN E : f[i] = f[j] => i = j
      /\ \A i \in DOMAIN E : E[i].text = R[f[i]].text
  BY <1>2, <1>3 DEF Onto
<1>5. Weight(R) = R[n + 1].text + Weight(E)
  BY <1>2, <1>4, WeightTaken
<1>6. Weight(E) \in Nat /\ e.text \in Nat
  BY WeightType, TextsAssumption DEF Entry
<1> QED
  BY <1>1, <1>2, <1>5, <1>6

(* A new text replaces the old one.                                        *)
LEMMA WeightUpdated ==
    ASSUME NEW E \in Seq(Entry), NEW k \in DOMAIN E, NEW text \in Texts
    PROVE  Weight([E EXCEPT ![k].text = text]) = Weight(E) - E[k].text + text
<1>1. PICK R : R = [E EXCEPT ![k].text = text]
  OBVIOUS
<1>2. PICK S : S = DOMAIN E \ {k}
  OBVIOUS
<1>3. /\ E[k] \in Entry /\ [E[k] EXCEPT !.text = text] \in Entry
      /\ [E[k] EXCEPT !.text = text].text = text
  <2>1. E[k] \in Entry
    OBVIOUS
  <2> QED
    BY <2>1 DEF Entry
<1>4. /\ R \in Seq(Entry) /\ DOMAIN R = DOMAIN E /\ R[k].text = text
      /\ \A i \in S : R[i] = E[i]
  <2>1. \A i \in DOMAIN E : E[i] \in Entry
    OBVIOUS
  <2>2. R = [i \in DOMAIN E |-> IF i = k THEN [E[k] EXCEPT !.text = text] ELSE E[i]]
    BY <1>1
  <2>3. PICK n : n \in Nat /\ DOMAIN E = 1..n
    OBVIOUS
  <2>4. R \in [1..n -> Entry]
    BY <1>3, <2>1, <2>2, <2>3
  <2>5. R \in Seq(Entry)
    BY <2>3, <2>4
  <2>6. DOMAIN R = DOMAIN E /\ \A i \in S : R[i] = E[i]
    BY <1>2, <2>2
  <2>7. R[k] = [E[k] EXCEPT !.text = text]
    BY <2>2
  <2> QED
    BY <1>3, <2>5, <2>6, <2>7
<1>5. PICK f : f = [i \in S |-> i]
  OBVIOUS
<1>6. f \in [S -> DOMAIN R] /\ Onto(f, S) = S /\ \A i \in S : f[i] = i
  BY <1>2, <1>4, <1>5 DEF Onto
<1>7. SumOf(E)[S] = SumOf(R)[S]
  <2>1. /\ S \in SUBSET DOMAIN E /\ \A i, j \in S : f[i] = f[j] => i = j
        /\ \A i \in S : E[i].text = R[f[i]].text
    BY <1>2, <1>4, <1>6
  <2>2. SumOf(E)[S] = SumOf(R)[Onto(f, S)]
    BY <1>4, <1>6, <2>1, SumMoves
  <2> QED
    BY <1>6, <2>2
<1>8. /\ SumOf(E)[DOMAIN E] = E[k].text + SumOf(E)[S]
      /\ SumOf(R)[DOMAIN R] = R[k].text + SumOf(R)[S]
  <2>1. PICK D : D = DOMAIN E
    OBVIOUS
  <2>2. /\ D \in SUBSET DOMAIN E /\ D \in SUBSET DOMAIN R /\ k \in D /\ S = D \ {k}
    BY <1>2, <1>4, <2>1
  <2>3. SumOf(E)[D] = E[k].text + SumOf(E)[D \ {k}]
    BY <2>2, SumCounts
  <2>4. SumOf(R)[D] = R[k].text + SumOf(R)[D \ {k}]
    BY <1>4, <2>2, SumCounts
  <2> QED
    BY <1>4, <2>1, <2>2, <2>3, <2>4
<1>9. SumOf(E)[S] \in Nat /\ E[k].text \in Nat /\ text \in Nat
  BY <1>2, <1>3, SumCounts, TextsAssumption DEF Entry
<1> QED
  BY <1>1, <1>4, <1>7, <1>8, <1>9 DEF Weight

-----------------------------------------------------------------------------
(* The limits of a session.  SessionLimits is not inductive: a rejected    *)
(* entry is put back, so the room for one that is being sent must stay.    *)

Limited(E) == Len(E) <= MaxEntries /\ Weight(E) <= MaxSessionBytes
RoomFor(E, text) == Len(E) + 1 <= MaxEntries /\ Weight(E) + text <= MaxSessionBytes

AllLimited(Q) == \A s \in Sessions : Limited(Q[s].entries)

(* What the delivery in progress took out of a queue fits in again.        *)
RoomKept ==
    \A s \in Sessions : \A t \in Sending(s) : \A f \in t.flight :
        RoomFor(state[s].entries, f.text)

LimitsInv == AllLimited(state) /\ AllLimited(disk.queues) /\ RoomKept

(* F holds no more than E.                                                 *)
Lighter(E, F) == Len(F) <= Len(E) /\ Weight(F) <= Weight(E)

(* The document stays, or is written from the queues in memory.            *)
Written == (\E tn : disk' = DocumentOf(state', records', tn)) \/ disk' = disk

(* No send begins.                                                         *)
NoneBegins ==
    \A s \in Sessions : \A t \in task'[s] : t.phase = "sending" => t \in task[s]

LEMMA LimitFacts ==
    ASSUME NEW E \in Seq(Entry)
    PROVE  /\ Len(E) \in Nat /\ Weight(E) \in Nat
           /\ MaxEntries \in Nat /\ MaxSessionBytes \in Nat
           /\ Limited(NoQueue.entries) /\ Lighter(E, NoQueue.entries) /\ Lighter(E, E)
<1>1. Len(E) \in Nat /\ Weight(E) \in Nat /\ Weight(<<>>) = 0 /\ Len(<<>>) = 0
  BY WeightType
<1>2. NoQueue.entries = <<>>
  BY DEF NoQueue
<1> QED
  BY <1>1, <1>2, BoundsAssumption DEF Limited, Lighter

LEMMA LighterLimits ==
    ASSUME NEW E \in Seq(Entry), NEW F \in Seq(Entry), Lighter(E, F)
    PROVE  /\ Limited(E) => Limited(F)
           /\ \A text \in Texts : RoomFor(E, text) => RoomFor(F, text)
<1>1. PICK m, n, v, w : /\ m = Len(E) /\ n = Len(F) /\ v = Weight(E) /\ w = Weight(F)
                        /\ m \in Nat /\ n \in Nat /\ v \in Nat /\ w \in Nat
  BY LimitFacts
<1>2. n <= m /\ w <= v /\ MaxEntries \in Nat /\ MaxSessionBytes \in Nat
  BY <1>1, LimitFacts DEF Lighter
<1>3. Limited(E) => Limited(F)
  BY <1>1, <1>2 DEF Limited
<1>4. ASSUME NEW text \in Texts, RoomFor(E, text) PROVE RoomFor(F, text)
  <2>1. text \in Nat
    BY TextsAssumption
  <2>2. m + 1 <= MaxEntries /\ v + text <= MaxSessionBytes
    BY <1>1, <1>4 DEF RoomFor
  <2>3. n + 1 <= MaxEntries /\ w + text <= MaxSessionBytes
    BY <1>1, <1>2, <2>1, <2>2
  <2> QED
    BY <1>1, <2>3 DEF RoomFor
<1> QED
  BY <1>3, <1>4

(* What a document keeps of limited queues is limited.                     *)
LEMMA WrittenLimits ==
    ASSUME AllLimited(state'), AllLimited(disk.queues), Written
    PROVE  AllLimited(disk'.queues)
<1>1. CASE disk' = disk
  BY <1>1
<1>2. ASSUME NEW tn, disk' = DocumentOf(state', records', tn)
      PROVE  AllLimited(disk'.queues)
  <2>1. \A s \in Sessions : disk'.queues[s] = state'[s] \/ disk'.queues[s] = NoQueue
    BY <1>2 DEF DocumentOf
  <2>2. Limited(NoQueue.entries)
    <3>1. <<>> \in Seq(Entry)
      OBVIOUS
    <3> QED
      BY <3>1, LimitFacts
  <2> QED
    BY <2>1, <2>2 DEF AllLimited
<1> QED
  BY <1>1, <1>2 DEF Written

LEMMA QueuesOf ==
    ASSUME IInv, NEW s \in Sessions
    PROVE  state[s] \in Queue /\ state[s].entries \in Seq(Entry)
  BY DEF IInv, TypeOK, Queue

(* Steps after which no queue holds more, and no send begins.              *)
LEMMA LighterStep ==
    ASSUME IInv, IInv', LimitsInv, Written, NoneBegins,
           \A s \in Sessions : Lighter(state[s].entries, state'[s].entries)
    PROVE  LimitsInv'
<1>1. \A s \in Sessions : state[s].entries \in Seq(Entry) /\ state'[s].entries \in Seq(Entry)
  BY DEF IInv, TypeOK, Queue
<1>2. AllLimited(state')
  BY <1>1, LighterLimits DEF LimitsInv, AllLimited
<1>3. AllLimited(disk'.queues)
  BY <1>2, WrittenLimits DEF LimitsInv
<1>4. ASSUME NEW s \in Sessions, NEW t \in task'[s], t.phase = "sending", NEW f \in t.flight
      PROVE  RoomFor(state'[s].entries, f.text)
  <2>1. t \in task[s] /\ t \in Sending(s)
    BY <1>4 DEF NoneBegins, Sending
  <2>2. RoomFor(state[s].entries, f.text)
    BY <1>4, <2>1 DEF LimitsInv, RoomKept
  <2>3. f.text \in Texts
    <3>1. f \in Flight
      BY <1>4, <2>1, SendingType DEF IInv
    <3> QED
      BY <3>1 DEF Flight
  <2> QED
    BY <1>1, <2>2, <2>3, LighterLimits
<1>5. RoomKept'
  BY <1>4 DEF RoomKept, Sending
<1> QED
  BY <1>2, <1>3, <1>5 DEF LimitsInv

(* One queue changes, and no delivery of it is in progress afterwards.     *)
LEMMA ReplaceStep ==
    ASSUME IInv, IInv', LimitsInv, Written, NoneBegins, NEW s \in Sessions, NEW q,
           state' = [state EXCEPT ![s] = q], Limited(q.entries),
           \A t \in task'[s] : t.phase # "sending"
    PROVE  LimitsInv'
<1>1. state'[s] = q /\ \A x \in Sessions \ {s} : state'[x] = state[x]
  BY DEF IInv, TypeOK
<1>2. AllLimited(state')
  BY <1>1 DEF LimitsInv, AllLimited
<1>3. AllLimited(disk'.queues)
  BY <1>2, WrittenLimits DEF LimitsInv
<1>4. ASSUME NEW x \in Sessions, NEW t \in task'[x], t.phase = "sending", NEW f \in t.flight
      PROVE  RoomFor(state'[x].entries, f.text)
  <2>1. x # s /\ t \in Sending(x)
    BY <1>4 DEF NoneBegins, Sending
  <2> QED
    BY <1>1, <1>4, <2>1 DEF LimitsInv, RoomKept
<1>5. RoomKept'
  BY <1>4 DEF RoomKept, Sending
<1> QED
  BY <1>2, <1>3, <1>5 DEF LimitsInv

(* One queue changes but for its entries.                                  *)
LEMMA SameEntriesStep ==
    ASSUME IInv, IInv', LimitsInv, Written, NoneBegins, NEW s \in Sessions, NEW q,
           state' = [state EXCEPT ![s] = q], q.entries = state[s].entries
    PROVE  LimitsInv'
<1>1. \A x \in Sessions : state'[x].entries = state[x].entries
  BY DEF IInv, TypeOK
<1>2. \A x \in Sessions : Lighter(state[x].entries, state'[x].entries)
  BY <1>1, QueuesOf, LimitFacts
<1> QED
  BY <1>2, LighterStep

(* Queues and document stay as they are, and no send begins.               *)
LEMMA SameQueuesStep ==
    ASSUME IInv, IInv', LimitsInv, NoneBegins, UNCHANGED <<state, disk>>
    PROVE  LimitsInv'
<1>1. \A x \in Sessions : Lighter(state[x].entries, state'[x].entries)
  BY QueuesOf, LimitFacts
<1> QED
  BY <1>1, LighterStep DEF Written

(* A mutation: its session has no delivery in progress.                    *)
LEMMA MutateLimits ==
    ASSUME IInv, IInv', LimitsInv, NEW s \in Sessions, NEW q, Mutate(s, q), Limited(q.entries)
    PROVE  LimitsInv'
<1>1. state' = [state EXCEPT ![s] = q] /\ disk' = DocumentOf(state', records', turns)
  BY DEF Mutate, Transact
<1>2. task' = task /\ task[s] = {}
  BY DEF Mutate, Free
<1>3. Written /\ NoneBegins /\ \A t \in task'[s] : t.phase # "sending"
  BY <1>1, <1>2 DEF Written, NoneBegins
<1> QED
  BY <1>1, <1>3, ReplaceStep

(* The client calls but send-now: add and edit check the size first.       *)
LEMMA CallLimits ==
    ASSUME IInv, IInv', LimitsInv, NEW s \in Sessions,
           \/ QueueAdd(s) \/ QueueUpdate(s) \/ QueueRemove(s)
           \/ QueueResume(s) \/ QueueMove(s) \/ QueueClear(s)
    PROVE  LimitsInv'
<1>1. PICK E : E = state[s].entries /\ E \in Seq(Entry) /\ state[s] \in Queue
  BY QueuesOf
<1>2. PICK n, w : /\ n = Len(E) /\ w = Weight(E) /\ n \in Nat /\ w \in Nat
                  /\ DOMAIN E = 1..n
                  /\ MaxEntries \in Nat /\ MaxSessionBytes \in Nat
  BY <1>1, LimitFacts
<1>3. n <= MaxEntries /\ w <= MaxSessionBytes /\ Limited(E) /\ Bytes(state[s]) = w
  BY <1>1, <1>2, BytesWeight DEF LimitsInv, AllLimited, Limited
<1>4. \A F \in Seq(Entry) : [state[s] EXCEPT !.entries = F].entries = F
  BY <1>1 DEF Queue
<1>5. CASE QueueAdd(s)
  <2>1. PICK id \in Ids, text \in Texts :
          /\ Len(state[s].entries) < MaxEntries
          /\ CheckSize(Bytes(state[s]) + text, OtherBytes(s))
          /\ Mutate(s, [state[s] EXCEPT !.entries = Append(@, [id |-> id, text |-> text])])
    BY <1>5 DEF QueueAdd
  <2>2. PICK e, F : e = [id |-> id, text |-> text] /\ F = Append(E, e)
    OBVIOUS
  <2>3. e \in Entry /\ e.text = text /\ F \in Seq(Entry)
    BY <1>1, <2>2 DEF Entry
  <2>4. Len(F) = n + 1 /\ Weight(F) = w + text
    BY <1>1, <1>2, <2>2, <2>3, WeightAppended
  <2>5. n < MaxEntries /\ w + text <= MaxSessionBytes
    BY <1>1, <1>2, <1>3, <2>1 DEF CheckSize
  <2>6. Limited(F)
    BY <1>2, <2>4, <2>5 DEF Limited
  <2>7. Mutate(s, [state[s] EXCEPT !.entries = F])
    BY <1>1, <2>1, <2>2
  <2> QED
    BY <1>4, <2>3, <2>6, <2>7, MutateLimits
<1>6. CASE QueueUpdate(s)
  <2>1. PICK i \in DOMAIN E, text \in Texts :
          /\ CheckSize(Bytes(state[s]) - E[i].text + text, OtherBytes(s))
          /\ Mutate(s, [state[s] EXCEPT !.entries[i].text = text])
    BY <1>1, <1>6 DEF QueueUpdate
  <2>2. PICK F : F = [E EXCEPT ![i].text = text]
    OBVIOUS
  <2>3. F \in Seq(Entry) /\ Len(F) = n
    <3>1. E[i] \in Entry
      BY <1>1
    <3>2. [E[i] EXCEPT !.text = text] \in Entry
      BY <3>1 DEF Entry
    <3> QED
      BY <1>1, <1>2, <2>2, <3>2
  <2>4. Weight(F) = w - E[i].text + text
    BY <1>1, <1>2, <2>2, WeightUpdated
  <2>5. Weight(F) <= MaxSessionBytes
    BY <1>3, <2>1, <2>4 DEF CheckSize
  <2>6. Limited(F)
    BY <1>3, <2>3, <2>5 DEF Limited
  <2>7. Mutate(s, [state[s] EXCEPT !.entries = F])
    BY <1>1, <2>1, <2>2
  <2> QED
    BY <1>4, <2>3, <2>6, <2>7, MutateLimits
<1>7. CASE QueueRemove(s)
  <2>1. PICK id, X, Y : Mutate(s, [state[s] EXCEPT !.entries = Without(@, id),
                                       !.uncertain = X, !.confirmed = Y])
    BY <1>7 DEF QueueRemove
  <2>2. PICK F : F = Without(E, id)
    OBVIOUS
  <2>3. [state[s] EXCEPT !.entries = Without(@, id), !.uncertain = X, !.confirmed = Y].entries
          = F
    BY <1>1, <2>2 DEF Queue
  <2>4. Limited(F)
    <3>1. CASE \E i \in DOMAIN E : E[i].id = id
      <4>1. PICK i \in DOMAIN E : F = RemoveAt(E, i)
        BY <2>2, <3>1 DEF Without
      <4>2. F \in Seq(Entry) /\ Len(F) = n - 1
        BY <1>1, <1>2, <4>1, RemovedPlaces
      <4>3. w = E[i].text + Weight(F) /\ Weight(F) \in Nat
        BY <1>1, <1>2, <4>1, <4>2, WeightRemoved, WeightType
      <4>4. E[i].text \in Nat
        <5>1. E[i] \in Entry
          BY <1>1
        <5> QED
          BY <5>1, TextsAssumption DEF Entry
      <4> QED
        BY <1>2, <1>3, <4>2, <4>3, <4>4 DEF Limited
    <3>2. CASE ~\E i \in DOMAIN E : E[i].id = id
      BY <1>3, <2>2, <3>2 DEF Without
    <3> QED
      BY <3>1, <3>2
  <2> QED
    BY <2>1, <2>3, <2>4, MutateLimits
<1>8. CASE QueueResume(s)
  <2>1. Mutate(s, Resumed(state[s])) /\ Resumed(state[s]).entries = E
    BY <1>1, <1>8 DEF QueueResume, Resumed, Queue
  <2> QED
    BY <1>3, <2>1, MutateLimits
<1>9. CASE QueueMove(s)
  <2>1. PICK i \in DOMAIN E, j \in DOMAIN E :
          Mutate(s, [state[s] EXCEPT !.entries = InsertAt(RemoveAt(E, i), j, E[i])])
    BY <1>1, <1>9 DEF QueueMove
  <2>2. PICK F, G, e : e = E[i] /\ F = RemoveAt(E, i) /\ G = InsertAt(F, j, e)
    OBVIOUS
  <2>3. e \in Entry /\ F \in Seq(Entry) /\ Len(F) = n - 1 /\ w = e.text + Weight(F)
    <3>1. e \in Entry
      BY <1>1, <2>2
    <3>2. F \in Seq(Entry) /\ Len(F) = n - 1
      BY <1>1, <1>2, <2>2, RemovedPlaces
    <3>3. w = e.text + Weight(F)
      BY <1>1, <1>2, <2>2, WeightRemoved
    <3> QED
      BY <3>1, <3>2, <3>3
  <2>4. j \in 1..(Len(F) + 1)
    BY <1>2, <2>3
  <2>5. G \in Seq(Entry) /\ Len(G) = n /\ Weight(G) = w
    <3>1. IsInserted(F, j, e, G) /\ Weight(G) = e.text + Weight(F)
      BY <2>2, <2>3, <2>4, InsertedPlaces, WeightInserted
    <3> QED
      BY <1>2, <2>3, <3>1 DEF IsInserted
  <2>6. Limited(G)
    BY <1>3, <2>5 DEF Limited
  <2> QED
    BY <1>4, <2>1, <2>2, <2>5, <2>6, MutateLimits
<1>10. CASE QueueClear(s)
  <2>1. PICK q : q = Resumed([state[s] EXCEPT !.entries = <<>>, !.uncertain = {}])
    OBVIOUS
  <2>2. q.entries = <<>> /\ Mutate(s, q)
    BY <1>1, <1>10, <2>1 DEF QueueClear, Resumed, Queue
  <2>3. Limited(q.entries)
    BY <1>1, <2>2, LimitFacts DEF NoQueue
  <2> QED
    BY <2>2, <2>3, MutateLimits
<1> QED
  BY <1>5, <1>6, <1>7, <1>8, <1>9, <1>10

(* Taking an entry leaves the room it had.                                 *)
LEMMA TakeLimits ==
    ASSUME IInv, IInv', LimitsInv, NEW s \in Sessions, NEW q \in Queue,
           q.entries = state[s].entries, NEW i \in DOMAIN q.entries,
           NEW u \in Uuids, NEW auto, NEW row, NEW previous,
           Take(s, q, i, u, auto, row, previous)
    PROVE  LimitsInv'
<1>1. PICK E, e, F : /\ E = q.entries /\ E \in Seq(Entry) /\ i \in DOMAIN E /\ e = E[i]
                     /\ F = RemoveAt(E, i)
  BY DEF Queue
<1>2. PICK n, w, v : /\ n = Len(E) /\ w = Weight(E) /\ n \in Nat /\ w \in Nat
                     /\ v = Weight(F) /\ F \in Seq(Entry) /\ Len(F) = n - 1 /\ v \in Nat
                     /\ MaxEntries \in Nat /\ MaxSessionBytes \in Nat
  BY <1>1, LimitFacts, RemovedPlaces
<1>3. e \in Entry /\ e.text \in Nat /\ w = e.text + v
  <2>1. e \in Entry
    BY <1>1
  <2> QED
    BY <1>1, <1>2, <2>1, WeightRemoved, TextsAssumption DEF Entry
<1>4. n <= MaxEntries /\ w <= MaxSessionBytes
  BY <1>1, <1>2 DEF LimitsInv, AllLimited, Limited
<1>5. Limited(F) /\ RoomFor(F, e.text)
  BY <1>2, <1>3, <1>4 DEF Limited, RoomFor
<1>6. PICK f : f = [id |-> e.id, text |-> e.text, uuid |-> u]
  OBVIOUS
<1>7. PICK p : p = [q EXCEPT !.entries = F, !.inFlight = {f}]
  OBVIOUS
<1>8. /\ state' = [state EXCEPT ![s] = p] /\ p.entries = F
      /\ disk' = DocumentOf(state', records', turns)
      /\ task' = [task EXCEPT ![s] =
             {[phase |-> "sending", auto |-> auto, row |-> {}, flight |-> {f},
               index |-> i, previous |-> previous]}]
  BY <1>1, <1>6, <1>7 DEF Take, Transact, Queue
<1>9. /\ state'[s] = p /\ \A x \in Sessions \ {s} : state'[x] = state[x]
      /\ \A x \in Sessions \ {s} : task'[x] = task[x]
      /\ \A t \in task'[s] : t.flight = {f}
  BY <1>8 DEF IInv, TypeOK
<1>10. AllLimited(state')
  BY <1>5, <1>8, <1>9 DEF LimitsInv, AllLimited
<1>11. AllLimited(disk'.queues)
  BY <1>8, <1>10, WrittenLimits DEF LimitsInv, Written
<1>12. ASSUME NEW x \in Sessions, NEW t \in task'[x], t.phase = "sending", NEW g \in t.flight
       PROVE  RoomFor(state'[x].entries, g.text)
  <2>1. CASE x = s
    BY <1>5, <1>6, <1>8, <1>9, <1>12, <2>1
  <2>2. CASE x # s
    <3>1. t \in Sending(x)
      BY <1>9, <1>12, <2>2 DEF Sending
    <3> QED
      BY <1>9, <1>12, <2>2, <3>1 DEF LimitsInv, RoomKept
  <2> QED
    BY <2>1, <2>2
<1>13. RoomKept'
  BY <1>12 DEF RoomKept, Sending
<1> QED
  BY <1>10, <1>11, <1>13 DEF LimitsInv

LEMMA TakesLimits ==
    ASSUME IInv, IInv', LimitsInv, NEW s \in Sessions,
           FlushTake(s) \/ QueueSendNow(s)
    PROVE  LimitsInv'
<1>1. state[s] \in Queue /\ state[s].entries \in Seq(Entry)
  BY QueuesOf
<1>2. CASE FlushTake(s)
  <2>1. PICK t \in task[s], u \in Uuids :
          state[s].entries # <<>> /\ Take(s, state[s], 1, u, TRUE, t.row, {})
    BY <1>2 DEF FlushTake
  <2>2. 1 \in DOMAIN state[s].entries
    BY <1>1, <2>1
  <2> QED
    BY <1>1, <2>1, <2>2, TakeLimits
<1>3. CASE QueueSendNow(s)
  <2>1. PICK q : q = Resumed(state[s])
    OBVIOUS
  <2>2. PICK i \in DOMAIN state[s].entries, u \in Uuids :
          Take(s, q, i, u, FALSE, rows[s], turns[s])
    BY <1>3, <2>1 DEF QueueSendNow
  <2>3. q \in Queue /\ q.entries = state[s].entries
    <3>1. {} \in Option(Report)
      BY OptionFacts
    <3> QED
      BY <1>1, <2>1, <3>1 DEF Queue, Resumed
  <2> QED
    BY <2>2, <2>3, TakeLimits
<1> QED
  BY <1>2, <1>3

(* A rejected entry is put back into the room that was kept for it.        *)
LEMMA SettleRejectedLimits ==
    ASSUME IInv, IInv', LimitsInv, NEW s \in Sessions, SettleRejected(s)
    PROVE  LimitsInv'
<1>1. PICK E : E = state[s].entries /\ E \in Seq(Entry) /\ state[s] \in Queue
  BY QueuesOf
<1>2. PICK t \in Sending(s) : \E f \in t.flight :
        LET k == IF t.index > Len(E) THEN Len(E) + 1 ELSE t.index
        IN /\ Commit(s, [state[s] EXCEPT
                  !.inFlight = {},
                  !.entries  = InsertAt(E, k, [id |-> f.id, text |-> f.text]),
                  !.paused   = @ \/ t.auto],
                [turns EXCEPT ![s] = t.previous])
           /\ task' = [task EXCEPT ![s] = {}]
  BY <1>1 DEF SettleRejected
<1>3. PICK k : k = IF t.index > Len(E) THEN Len(E) + 1 ELSE t.index
  OBVIOUS
<1>4. PICK f \in t.flight :
        /\ Commit(s, [state[s] EXCEPT
               !.inFlight = {},
               !.entries  = InsertAt(E, k, [id |-> f.id, text |-> f.text]),
               !.paused   = @ \/ t.auto], [turns EXCEPT ![s] = t.previous])
        /\ task' = [task EXCEPT ![s] = {}]
  BY <1>2, <1>3
<1>5. PICK e, F : e = [id |-> f.id, text |-> f.text] /\ F = InsertAt(E, k, e)
  OBVIOUS
<1>6. t \in task[s] /\ f \in Flight /\ t.index \in Nat \ {0}
  BY SendingType DEF IInv, Sending
<1>7. /\ e \in Entry /\ e.text = f.text /\ e.text \in Nat /\ Len(E) \in Nat
      /\ k \in 1..(Len(E) + 1)
  <2>1. e \in Entry /\ e.text = f.text
    BY <1>5, <1>6 DEF Entry, Flight
  <2>2. e.text \in Nat
    BY <2>1, TextsAssumption DEF Entry
  <2>3. Len(E) \in Nat
    BY <1>1
  <2>4. k \in 1..(Len(E) + 1)
    BY <1>3, <1>6, <2>3
  <2> QED
    BY <2>1, <2>2, <2>3, <2>4
<1>8. F \in Seq(Entry) /\ Len(F) = Len(E) + 1 /\ Weight(F) = e.text + Weight(E)
  BY <1>1, <1>5, <1>7, InsertedPlaces, WeightInserted DEF IsInserted
<1>9. Limited(F)
  <2>1. RoomFor(E, e.text)
    BY <1>1, <1>7 DEF LimitsInv, RoomKept
  <2> QED
    BY <1>1, <1>7, <1>8, <2>1, WeightType DEF Limited, RoomFor
<1>10. PICK q : q = [state[s] EXCEPT !.inFlight = {}, !.entries = F, !.paused = @ \/ t.auto]
  OBVIOUS
<1>11. q.entries = F
  BY <1>1, <1>10 DEF Queue
<1>12. state' = [state EXCEPT ![s] = q] /\ Written
  BY <1>4, <1>5, <1>10, CommitWrites DEF Written
<1>13. NoneBegins /\ \A x \in task'[s] : x.phase # "sending"
  BY <1>4 DEF NoneBegins, IInv, TypeOK
<1> QED
  BY <1>9, <1>11, <1>12, <1>13, ReplaceStep

(* The other steps of a delivery leave the entries alone.                  *)
LEMMA WorkerLimits ==
    ASSUME IInv, IInv', LimitsInv, NEW s \in Sessions,
           \/ FlushQueue(s) \/ FlushPause(s) \/ SettleSent(s) \/ SettleUncertain(s)
           \/ CallTimeout(s)
    PROVE  LimitsInv'
<1>1. PICK E : E = state[s].entries /\ E \in Seq(Entry) /\ state[s] \in Queue
  BY QueuesOf
<1>2. ASSUME NEW X, task' = [task EXCEPT ![s] = X], \A t \in X : t.phase # "sending"
      PROVE  NoneBegins
  BY <1>2 DEF NoneBegins, IInv, TypeOK
<1>3. ASSUME task' = [task EXCEPT ![s] = {}]
      PROVE  NoneBegins
  BY <1>3 DEF NoneBegins, IInv, TypeOK
<1>4. CASE FlushQueue(s)
  <2>1. PICK q, X : /\ q = Confirm(s) /\ \A t \in X : t.phase # "sending"
                    /\ task' = [task EXCEPT ![s] = X]
                    /\ \/ Commit(s, q, turns)
                       \/ UNCHANGED <<state, disk>>
    <3>1. PICK r \in rows[s] :
            /\ IF Confirm(s) # state[s] THEN Commit(s, Confirm(s), turns)
               ELSE UNCHANGED <<state, records, turns, disk, budget>>
            /\ task' = [task EXCEPT ![s] =
                 IF WantsFlush(Confirm(s), turns[s], r)
                 THEN {[phase |-> "picked", auto |-> TRUE, row |-> {r},
                        flight |-> {}, index |-> 1, previous |-> {}]}
                 ELSE {}]
      BY <1>4 DEF FlushQueue
    <3>2. PICK X : X = IF WantsFlush(Confirm(s), turns[s], r)
                       THEN {[phase |-> "picked", auto |-> TRUE, row |-> {r},
                              flight |-> {}, index |-> 1, previous |-> {}]}
                       ELSE {}
      OBVIOUS
    <3>3. \A t \in X : t.phase # "sending"
      BY <3>2
    <3> QED
      BY <3>1, <3>2, <3>3
  <2>2. q.entries = E
    BY <1>1, <2>1 DEF Confirm, Queue
  <2>3. NoneBegins
    BY <1>2, <2>1
  <2>4. CASE Commit(s, q, turns)
    BY <1>1, <2>2, <2>3, <2>4, CommitWrites, SameEntriesStep DEF Written
  <2>5. CASE UNCHANGED <<state, disk>>
    BY <2>3, <2>5, SameQueuesStep
  <2> QED
    BY <2>1, <2>4, <2>5
<1>5. CASE FlushPause(s)
  <2>1. PICK q : q = [state[s] EXCEPT !.paused = TRUE]
    OBVIOUS
  <2>2. q.entries = E
    BY <1>1, <2>1 DEF Queue
  <2>3. task' = [task EXCEPT ![s] = {}]
    BY <1>5 DEF FlushPause
  <2>4. NoneBegins
    BY <1>3, <2>3
  <2>5. state' = [state EXCEPT ![s] = q] /\ Written
    <3>1. \/ Commit(s, q, turns)
          \/ /\ state' = [state EXCEPT ![s] = q]
             /\ disk' = DocumentOf(state', records', turns) \/ UNCHANGED disk
      BY <1>5, <2>1 DEF FlushPause
    <3> QED
      BY <3>1, CommitWrites DEF Written
  <2> QED
    BY <1>1, <2>2, <2>4, <2>5, SameEntriesStep
<1>6. CASE SettleSent(s)
  <2>1. PICK q : q = [state[s] EXCEPT !.inFlight = {}]
    OBVIOUS
  <2>2. q.entries = E
    BY <1>1, <2>1 DEF Queue
  <2>3. Commit(s, q, DeliveredTurns(s)) /\ task' = [task EXCEPT ![s] = {}]
    BY <1>6, <2>1 DEF SettleSent
  <2>4. NoneBegins
    BY <1>3, <2>3
  <2>5. state' = [state EXCEPT ![s] = q] /\ Written
    BY <2>3, CommitWrites DEF Written
  <2> QED
    BY <1>1, <2>2, <2>4, <2>5, SameEntriesStep
<1>7. CASE SettleUncertain(s)
  <2>1. PICK f : /\ Commit(s, MarkUncertain([state[s] EXCEPT !.inFlight = {}], f),
                           DeliveredTurns(s))
                 /\ task' = [task EXCEPT ![s] = {}]
    BY <1>7 DEF SettleUncertain
  <2>2. PICK q : q = MarkUncertain([state[s] EXCEPT !.inFlight = {}], f)
    OBVIOUS
  <2>3. q.entries = E
    BY <1>1, <2>2 DEF Queue, MarkUncertain
  <2>4. NoneBegins
    BY <1>3, <2>1
  <2>5. state' = [state EXCEPT ![s] = q] /\ Written
    BY <2>1, <2>2, CommitWrites DEF Written
  <2> QED
    BY <1>1, <2>3, <2>4, <2>5, SameEntriesStep
<1>8. CASE CallTimeout(s)
  <2>1. task' = [task EXCEPT ![s] = {}] /\ UNCHANGED <<state, disk>>
    BY <1>8 DEF CallTimeout, hub
  <2> QED
    BY <1>3, <2>1, SameQueuesStep
<1> QED
  BY <1>4, <1>5, <1>6, <1>7, <1>8

(* Observations and the engine leave queues and deliveries alone.          *)
LEMMA ObserveLimits ==
    ASSUME IInv, IInv', LimitsInv,
           \/ \E s \in Sessions : Snapshot(s) \/ Vanish(s) \/ Tick(s) \/ StaleElapses(s)
           \/ \E u \in Uuids : EngineAnswers(u)
           \/ UNCHANGED vars
    PROVE  LimitsInv'
<1>1. UNCHANGED <<state, disk, task>>
  <2>1. CASE \E s \in Sessions : Snapshot(s) \/ Vanish(s) \/ Tick(s) \/ StaleElapses(s)
    BY <2>1 DEF Snapshot, Vanish, Tick, StaleElapses, ObserveRow, hub
  <2>2. CASE \E u \in Uuids : EngineAnswers(u)
    BY <2>2 DEF EngineAnswers, hub
  <2>3. CASE UNCHANGED vars
    BY <2>3 DEF vars
  <2> QED
    BY <2>1, <2>2, <2>3
<1>2. NoneBegins
  BY <1>1 DEF NoneBegins
<1> QED
  BY <1>1, <1>2, SameQueuesStep

(* Dropping queues only empties.                                           *)
LEMMA DropLimits ==
    ASSUME IInv, IInv', LimitsInv, Prune \/ \E s \in Sessions : Close(s)
    PROVE  LimitsInv'
<1>1. PICK S : Drop(S)
  BY DEF Prune, Close
<1>2. /\ \A s \in Sessions : state'[s] = state[s] \/ state'[s] = NoQueue
      /\ task' = task
      /\ Written
  BY <1>1 DEF Drop, Written, WriteFails
<1>3. \A s \in Sessions : Lighter(state[s].entries, state'[s].entries)
  BY <1>2, QueuesOf, LimitFacts
<1>4. NoneBegins
  BY <1>2 DEF NoneBegins
<1> QED
  BY <1>2, <1>3, <1>4, LighterStep

(* A restart takes the queues from the document and forgets deliveries.    *)
LEMMA RestartLimits ==
    ASSUME IInv, IInv', LimitsInv, Restart
    PROVE  LimitsInv'
<1>1. /\ \A s \in Sessions : state'[s] = Opened(disk.queues[s]) /\ task'[s] = {}
      /\ disk' = disk
  BY DEF Restart
<1>2. \A s \in Sessions : disk.queues[s] \in Queue
  BY DEF IInv, TypeOK, Document
<1>3. \A s \in Sessions : state'[s].entries = disk.queues[s].entries
  BY <1>1, <1>2, OpenedFacts
<1>4. AllLimited(state')
  BY <1>3 DEF LimitsInv, AllLimited
<1>5. AllLimited(disk'.queues)
  BY <1>1 DEF LimitsInv
<1>6. RoomKept'
  BY <1>1 DEF RoomKept, Sending
<1> QED
  BY <1>4, <1>5, <1>6 DEF LimitsInv

LEMMA InitLimits == Init => LimitsInv
<1> SUFFICES ASSUME Init PROVE LimitsInv
  OBVIOUS
<1>1. <<>> \in Seq(Entry) /\ \A s \in Sessions : state[s] = NoQueue
  BY DEF Init
<1>2. AllLimited(state)
  BY <1>1, LimitFacts DEF AllLimited
<1>3. \A s \in Sessions : disk.queues[s] = NoQueue
  BY <1>1 DEF Init, DocumentOf
<1>4. AllLimited(disk.queues)
  BY <1>1, <1>3, LimitFacts DEF AllLimited
<1>5. RoomKept
  BY DEF Init, RoomKept, Sending
<1> QED
  BY <1>2, <1>4, <1>5 DEF LimitsInv

LEMMA NextLimits == IInv /\ LimitsInv /\ [Next]_vars => LimitsInv'
<1> SUFFICES ASSUME IInv, LimitsInv, [Next]_vars PROVE LimitsInv'
  OBVIOUS
<1>0. IInv'
  BY NextIInv
<1>1. ASSUME NEW s \in Sessions, Calls(s) PROVE LimitsInv'
  BY <1>0, <1>1, CallLimits, TakesLimits, WorkerLimits DEF Calls
<1>2. ASSUME NEW s \in Sessions, Worker(s) PROVE LimitsInv'
  BY <1>0, <1>2, TakesLimits, WorkerLimits, SettleRejectedLimits DEF Worker
<1>3. ASSUME NEW s \in Sessions, Environment(s) PROVE LimitsInv'
  BY <1>0, <1>3, ObserveLimits, DropLimits DEF Environment
<1>4. CASE (\E u \in Uuids : EngineAnswers(u)) \/ UNCHANGED vars
  BY <1>0, <1>4, ObserveLimits
<1>5. CASE Prune \/ Restart
  BY <1>0, <1>5, DropLimits, RestartLimits
<1> QED
  BY <1>1, <1>2, <1>3, <1>4, <1>5 DEF Next

(* A session holds no more entries and text than the limits allow, also    *)
(* when an entry the engine refused comes back to a queue that clients may *)
(* not touch meanwhile, and after any restart (message_queue.rs add, edit, *)
(* settle, open).                                                          *)
THEOREM SessionsStayLimited == Spec => []SessionLimits
<1>1. LimitsInv => SessionLimits
  BY BytesWeight DEF LimitsInv, AllLimited, Limited, SessionLimits
<1>2. Init => IInv /\ LimitsInv
  BY InitIInv, InitLimits
<1>3. IInv /\ LimitsInv /\ [Next]_vars => (IInv /\ LimitsInv)'
  BY NextIInv, NextLimits
<1> QED
  BY <1>1, <1>2, <1>3, PTL DEF Spec
=============================================================================

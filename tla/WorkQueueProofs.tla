--------------------------- MODULE WorkQueueProofs ---------------------------
(***************************************************************************)
(* Proofs about WorkQueue, for any finite set of items, any limits and     *)
(* priorities, and all bounds.                                             *)
(***************************************************************************)
EXTENDS WorkQueue, FiniteSetTheorems, WellFoundedInduction, TLAPS

-----------------------------------------------------------------------------
(* The inductive invariant                                                 *)

(* What may still start has not been started and may be: a queued item, in  *)
(* memory or on disk, and one whose task is about to launch it.            *)
Unstarted(i) == launches[i] = 0 /\ i \in accepted \ revoked
Once ==
    /\ revoked \subseteq accepted
    /\ \A i \in Items :
          /\ launches[i] = 0 \/ (launches[i] = 1 /\ i \in accepted \ revoked)
          /\ In(items, i, {"queued"}) \/ In(disk, i, {"queued"}) =>
                 Unstarted(i) /\ task[i] # "starting"
          /\ task[i] = "starting" => Unstarted(i)

(* Whatever admission reads or has read was once allowed by the owner.      *)
Allowed ==
    \A k \in Kinds : limits[k] <= peak[k] /\ \A p \in pass : p.limits[k] <= peak[k]

Inv == /\ TypeOK /\ Once /\ Allowed
       /\ SlotsBounded /\ SlotHasOneReleaser /\ AcceptedSurvives

-----------------------------------------------------------------------------
(* Options, items and sets of items                                        *)

(* The empty option and the option of one element.                         *)
LEMMA OptionIntro ==
    ASSUME NEW S
    PROVE  {} \in Option(S) /\ \A x \in S : {x} \in Option(S)
  BY DEF Option

(* An option has no element but one of its set, and no second one.         *)
LEMMA OptionElim ==
    ASSUME NEW S, NEW X \in Option(S), NEW x \in X
    PROVE  x \in S /\ X = {x} /\ (CHOOSE y \in X : TRUE) = x
<1>1. x \in S /\ X = {x}
  BY DEF Option
<1> QED
  BY <1>1

(* Every set of naturals has a least element.                              *)
LEMMA Least ==
    ASSUME NEW T \in SUBSET Nat, T # {}
    PROVE  \E x \in T : \A y \in T : x <= y
<1>1. PICK x \in T : \A y \in T : <<y, x>> \notin OpToRel(<, Nat)
  BY NatLessThanWellFounded, WFMin
<1>2. \A y \in T : ~(y < x)
  BY <1>1 DEF OpToRel
<1> QED
  BY <1>2

(* Sets of items are finite, and smaller when they are contained.          *)
LEMMA Finite ==
    ASSUME NEW A \in SUBSET Items, NEW B \in SUBSET A
    PROVE  /\ IsFiniteSet(A) /\ IsFiniteSet(B)
           /\ Cardinality(A) \in Nat /\ Cardinality(B) \in Nat
           /\ Cardinality(B) <= Cardinality(A)
<1>1. IsFiniteSet(A)
  BY ItemsAssumption, FS_Subset
<1>2. IsFiniteSet(B) /\ Cardinality(B) <= Cardinality(A)
  BY <1>1, FS_Subset
<1> QED
  BY <1>1, <1>2, FS_CardinalityType

(* The fields of an item that the rules read.                              *)
LEMMA Fields ==
    ASSUME NEW x \in Item
    PROVE  /\ x.kind \in Kinds /\ x.priority \in Int
           /\ x.state \in {"queued", "running"} \cup Terminal
           /\ x.enqueued \in Int /\ x.updated \in Nat
<1>1. /\ x.kind \in Kinds /\ x.priority \in Priorities
      /\ x.state \in {"queued", "running"} \cup Terminal
      /\ x.enqueued \in Nat /\ x.updated \in Nat
  BY DEF Item
<1>2. x.priority \in Int
  BY <1>1, PrioritiesAssumption, Zenon
<1>3. x.enqueued \in Int
  BY <1>1
<1> QED
  BY <1>1, <1>2, <1>3

Table == [Items -> Option(Item)]
Pass == [limits : [Kinds -> Nat], gate : BOOLEAN]

(* An item has one state.                                                  *)
LEMMA OneState ==
    ASSUME NEW its \in Table, NEW i \in Items, NEW S, NEW T, In(its, i, S),
           In(its, i, T)
    PROVE  \E x \in its[i] : x \in Item /\ its[i] = {x} /\ x.state \in S \cap T
<1>1. PICK x \in its[i] : x.state \in S
  BY DEF In
<1>2. PICK y \in its[i] : y.state \in T
  BY DEF In
<1>3. x \in Item /\ its[i] = {x}
  BY OptionElim DEF Table
<1> QED
  BY <1>1, <1>2, <1>3

(* retain takes away terminal items only.                                  *)
LEMMA RetainedFacts ==
    ASSUME NEW its \in Table
    PROVE  /\ Retained(its) \in Table
           /\ \A i \in Items :
                 /\ In(its, i, {"queued", "running"}) => Retained(its)[i] = its[i]
                 /\ Retained(its)[i] \in {{}, its[i]}
<1>1. \A i \in Items : Retained(its)[i] \in {{}, its[i]}
  BY DEF Retained
<1>2. Retained(its) \in Table
  <2>1. \A i \in Items : Retained(its)[i] \in Option(Item)
    BY <1>1, OptionIntro DEF Table
  <2> QED
    BY <2>1 DEF Retained, Table
<1>3. ASSUME NEW i \in Items, In(its, i, {"queued", "running"})
      PROVE  Retained(its)[i] = its[i]
  <2>1. ~In(its, i, Terminal)
    BY <1>3, OneState DEF Terminal
  <2> QED
    BY <2>1 DEF Retained, Having
<1> QED
  BY <1>1, <1>2, <1>3

(* The items of a kind in some states are items.                           *)
LEMMA OfKindFacts ==
    ASSUME NEW its \in Table, NEW S, NEW k
    PROVE  /\ OfKind(its, S, k) \in SUBSET Items /\ IsFiniteSet(OfKind(its, S, k))
           /\ Cardinality(OfKind(its, S, k)) \in Nat
           /\ \A i \in Items : i \in OfKind(its, S, k) <=>
                 \E x \in its[i] : x \in Item /\ its[i] = {x} /\ x.state \in S /\ x.kind = k
<1>1. OfKind(its, S, k) \in SUBSET Items
  BY DEF OfKind, Having
<1>2. \A i \in Items : \A x \in its[i] : x \in Item /\ its[i] = {x}
  BY OptionElim DEF Table
<1> QED
  BY <1>1, <1>2, Finite DEF OfKind, Having, In

-----------------------------------------------------------------------------
(* Admission                                                               *)

Ahead(its, k, i) == {j \in OfKind(its, {"queued"}, k) : Precedes(its, j, i)}
Used(its, k) == Cardinality(OfKind(its, {"running"}, k))

(* The queue order is total and transitive on the items that are queued.   *)
LEMMA Order ==
    ASSUME NEW its \in Table, NEW k,
           NEW i \in OfKind(its, {"queued"}, k), NEW j \in OfKind(its, {"queued"}, k),
           NEW l \in OfKind(its, {"queued"}, k)
    PROVE  /\ ~Precedes(its, i, i)
           /\ i = j \/ Precedes(its, i, j) \/ Precedes(its, j, i)
           /\ Precedes(its, i, j) /\ Precedes(its, j, l) => Precedes(its, i, l)
<1>1. i \in Items /\ j \in Items /\ l \in Items /\ Items \subseteq Nat
  BY OfKindFacts, ItemsAssumption
<1>2. PICK a \in its[i] : a \in Item /\ its[i] = {a}
  BY <1>1, OfKindFacts
<1>3. PICK b \in its[j] : b \in Item /\ its[j] = {b}
  BY <1>1, OfKindFacts
<1>4. PICK c \in its[l] : c \in Item /\ its[l] = {c}
  BY <1>1, OfKindFacts
<1>5. \A x \in Item : x.priority \in Int /\ x.enqueued \in Int
  BY Fields
<1>6. i \in Int /\ j \in Int /\ l \in Int
  BY <1>1
<1> QED
  BY <1>2, <1>3, <1>4, <1>5, <1>6 DEF Precedes

(* What precedes an item is a finite part of the queue.                    *)
LEMMA AheadFacts ==
    ASSUME NEW its \in Table, NEW k, NEW i
    PROVE  /\ Ahead(its, k, i) \in SUBSET Items /\ IsFiniteSet(Ahead(its, k, i))
           /\ Cardinality(Ahead(its, k, i)) \in Nat
<1>1. Ahead(its, k, i) \in SUBSET Items
  BY OfKindFacts DEF Ahead
<1> QED
  BY <1>1, Finite

(* The items of a kind that start, in other words.                         *)
LEMMA StartsFacts ==
    ASSUME NEW its \in Table, NEW k, NEW p
    PROVE  /\ Starts(its, p, k) = {i \in OfKind(its, {"queued"}, k) :
                  p.gate /\ Used(its, k) + Cardinality(Ahead(its, k, i)) < p.limits[k]}
           /\ Starts(its, p, k) \in SUBSET OfKind(its, {"queued"}, k)
           /\ Starts(its, p, k) \in SUBSET Items /\ IsFiniteSet(Starts(its, p, k))
<1>1. Starts(its, p, k) = {i \in OfKind(its, {"queued"}, k) :
          p.gate /\ Used(its, k) + Cardinality(Ahead(its, k, i)) < p.limits[k]}
  BY DEF Starts, Ahead, Used
<1>2. Starts(its, p, k) \in SUBSET Items
  BY <1>1, OfKindFacts
<1> QED
  BY <1>1, <1>2, Finite

(* Whoever precedes an item that starts, starts.                           *)
LEMMA StartsClosed ==
    ASSUME NEW its \in Table, NEW k \in Kinds, NEW p \in Pass,
           NEW i \in Starts(its, p, k), NEW j \in OfKind(its, {"queued"}, k),
           Precedes(its, j, i)
    PROVE  j \in Starts(its, p, k)
<1>1. i \in OfKind(its, {"queued"}, k)
  BY StartsFacts
<1>2. Ahead(its, k, j) \subseteq Ahead(its, k, i)
  BY <1>1, Order DEF Ahead
<1>3. Cardinality(Ahead(its, k, j)) <= Cardinality(Ahead(its, k, i))
  BY <1>2, AheadFacts, Finite
<1>4. p.limits[k] \in Nat
  BY DEF Pass
<1>5. Used(its, k) \in Nat
  BY OfKindFacts DEF Used
<1> QED
  BY <1>3, <1>4, <1>5, StartsFacts, AheadFacts

(* Those that start fit into the free slots: the last of them counts all   *)
(* others as ahead of it.                                                  *)
LEMMA StartsFit ==
    ASSUME NEW its \in Table, NEW k \in Kinds, NEW p \in Pass, Starts(its, p, k) # {}
    PROVE  Used(its, k) + Cardinality(Starts(its, p, k)) <= p.limits[k]
<1> DEFINE Free(i) == p.limits[k] - Cardinality(Ahead(its, k, i))
           S == Starts(its, p, k)
<1>1. p.limits[k] \in Nat /\ Used(its, k) \in Nat
  BY OfKindFacts DEF Pass, Used
<1>2. \A i \in S : /\ i \in OfKind(its, {"queued"}, k) /\ Free(i) \in Nat
                   /\ Used(its, k) < Free(i)
                   /\ Cardinality(Ahead(its, k, i)) \in Nat
  BY <1>1, StartsFacts, AheadFacts
<1>3. PICK m \in S : \A i \in S : Free(m) <= Free(i)
  <2>1. {Free(i) : i \in S} \in SUBSET Nat /\ {Free(i) : i \in S} # {}
    BY <1>2
  <2>2. PICK n \in {Free(i) : i \in S} : \A f \in {Free(i) : i \in S} : n <= f
    BY <2>1, Least
  <2> QED
    BY <2>2
<1>4. S \subseteq Ahead(its, k, m) \cup {m}
  <2>1. SUFFICES ASSUME NEW i \in S, i # m, i \notin Ahead(its, k, m)
                 PROVE  FALSE
    OBVIOUS
  <2>2. Precedes(its, m, i)
    BY <1>2, <2>1, Order DEF Ahead
  <2>3. m \in Ahead(its, k, i) /\ m \notin Ahead(its, k, m)
    BY <1>2, <2>2, Order DEF Ahead
  <2>4. Ahead(its, k, m) \subseteq Ahead(its, k, i)
    BY <1>2, <2>2, Order DEF Ahead
  <2>5. Cardinality(Ahead(its, k, m) \cup {m}) = Cardinality(Ahead(its, k, m)) + 1
    BY <2>3, AheadFacts, FS_AddElement
  <2>6. Cardinality(Ahead(its, k, m) \cup {m}) <= Cardinality(Ahead(its, k, i))
    <3>1. Ahead(its, k, m) \cup {m} \in SUBSET Ahead(its, k, i)
      BY <2>3, <2>4
    <3> QED
      BY <3>1, AheadFacts, Finite
  <2>7. Free(m) <= Free(i)
    BY <1>3
  <2> QED
    BY <1>1, <1>2, <2>5, <2>6, <2>7
<1>5. Cardinality(S) <= Cardinality(Ahead(its, k, m)) + 1
  <2>1. m \notin Ahead(its, k, m)
    BY <1>2, Order DEF Ahead
  <2>2. Cardinality(Ahead(its, k, m) \cup {m}) = Cardinality(Ahead(its, k, m)) + 1
    BY <2>1, AheadFacts, FS_AddElement
  <2>3. Ahead(its, k, m) \cup {m} \in SUBSET Items
    BY AheadFacts, StartsFacts
  <2> QED
    BY <1>4, <2>2, <2>3, Finite
<1>6. Cardinality(S) \in Nat
  BY StartsFacts, FS_CardinalityType
<1> HIDE DEF S
<1> QED
  BY <1>1, <1>2, <1>3, <1>5, <1>6 DEF S

-----------------------------------------------------------------------------
(* Changes of an item                                                      *)

States == {"queued", "running"} \cup Terminal
Waits == {NoWait, GateWait} \cup (Nat \X Nat)

(* A start rolled back (RolledBack): the state changes, the kind does not. *)
LEMMA ChangeState ==
    ASSUME NEW x \in Item, NEW st \in States
    PROVE  [x EXCEPT !.state = st] \in {y \in Item : y.state = st /\ y.kind = x.kind}
  BY DEF Item, States

(* A new wait reason (Admitted) changes neither state nor kind.            *)
LEMMA ChangeWait ==
    ASSUME NEW x \in Item, NEW w \in Waits, NEW n \in Nat
    PROVE  [x EXCEPT !.wait = w, !.updated = n]
               \in {y \in Item : y.state = x.state /\ y.kind = x.kind}
  BY DEF Item, Waits

(* Nor does the session an item learns (Attach).                           *)
LEMMA ChangeAttach ==
    ASSUME NEW x \in Item, NEW n \in Nat
    PROVE  [x EXCEPT !.attached = TRUE, !.updated = n]
               \in {y \in Item : y.state = x.state /\ y.kind = x.kind}
  BY DEF Item

(* A start (Admitted) gives the new state and keeps the kind.              *)
LEMMA ChangeStart ==
    ASSUME NEW x \in Item, NEW st \in States, NEW n \in Nat, NEW w \in Waits
    PROVE  [x EXCEPT !.state = st, !.updated = n, !.wait = w]
               \in {y \in Item : y.state = st /\ y.kind = x.kind}
  BY DEF Item, States, Waits

(* So does an end (Finish, Cancel, Recovered).                             *)
LEMMA ChangeEnd ==
    ASSUME NEW x \in Item, NEW st \in States, NEW f \in Nat, NEW n \in Nat, NEW w \in Waits
    PROVE  [x EXCEPT !.state = st, !.finished = f, !.updated = n, !.wait = w]
               \in {y \in Item : y.state = st /\ y.kind = x.kind}
  BY DEF Item, States, Waits

(* An update gets a time.                                                  *)
LEMMA BumpedType ==
    ASSUME TypeOK, NEW x \in Item
    PROVE  Bumped(x) \in Nat /\ clock \in Nat
<1>1. clock \in Nat /\ x.updated \in Nat
  BY Fields DEF TypeOK
<1> QED
  BY <1>1 DEF Bumped

(* A refused write leaves the file and counts.                             *)
LEMMA RefusedWrite ==
    ASSUME TypeOK, WriteFails
    PROVE  /\ disk' = disk
           /\ spent' \in [crash : Nat, write : Nat, call : Nat, lag : Nat]
<1>1. disk' = disk
  BY DEF WriteFails
<1>2. spent' \in [crash : Nat, write : Nat, call : Nat, lag : Nat]
  <2>1. /\ spent \in [crash : Nat, write : Nat, call : Nat, lag : Nat]
        /\ spent' = [spent EXCEPT !.write = spent.write + 1]
    BY DEF WriteFails, TypeOK
  <2>2. spent.write + 1 \in Nat
    BY <2>1
  <2> QED
    BY <2>1, <2>2
<1> QED
  BY <1>1, <1>2

(* A wait reason is one.                                                   *)
LEMMA WaitType ==
    ASSUME NEW its \in Table, NEW p \in Pass, NEW k \in Kinds
    PROVE  WaitReason(its, p, k) \in Waits /\ NoWait \in Waits
<1> DEFINE A == OfKind(its, {"running"}, k) \cup Starts(its, p, k)
<1>1. A \in SUBSET Items
  BY OfKindFacts, StartsFacts
<1>2. Cardinality(A) \in Nat
  BY <1>1, Finite
<1>3. p.limits[k] \in Nat /\ p.gate \in BOOLEAN
  BY DEF Pass
<1> QED
  BY <1>2, <1>3 DEF WaitReason, Waits

(* What a pass makes of an item, saved or rolled back.                     *)
LEMMA AdmittedItem ==
    ASSUME TypeOK, NEW p \in Pass, NEW i \in Items, NEW x \in items[i]
    PROVE  \E y, z \in Item :
              /\ Admitted(items, p)[i] = {y}
              /\ RolledBack(Admitted(items, p), Started(items, p))[i] = {z}
              /\ y.kind = x.kind /\ z.kind = x.kind /\ z.state = x.state
              /\ IF i \in Started(items, p)
                 THEN x.state = "queued" /\ y.state = "running"
                 ELSE y.state = x.state
<1> DEFINE all == Admitted(items, p)
           f(u) == IF u.state # "queued" THEN u
                   ELSE IF i \in Starts(items, p, u.kind)
                   THEN [u EXCEPT !.state = "running", !.updated = Bumped(u), !.wait = NoWait]
                   ELSE IF u.wait # WaitReason(items, p, u.kind)
                   THEN [u EXCEPT !.wait = WaitReason(items, p, u.kind), !.updated = Bumped(u)]
                   ELSE u
<1>1. items \in Table
  BY DEF TypeOK, Table
<1>2. x \in Item /\ items[i] = {x} /\ x.kind \in Kinds
  BY <1>1, OptionElim, Fields DEF Table
<1>3. all[i] = {f(x)}
  BY <1>2 DEF Admitted
<1>4. i \in Started(items, p) <=> x.state = "queued" /\ i \in Starts(items, p, x.kind)
  <2>1. ASSUME NEW k \in Kinds, i \in Starts(items, p, k)
        PROVE  x.state = "queued" /\ x.kind = k
    <3>1. i \in OfKind(items, {"queued"}, k)
      BY <1>1, <2>1, StartsFacts
    <3>2. PICK u \in items[i] : u.state \in {"queued"} /\ u.kind = k
      BY <1>1, <3>1, OfKindFacts
    <3> QED
      BY <1>2, <3>2
  <2> QED
    BY <1>2, <2>1 DEF Started
<1> DEFINE w == WaitReason(items, p, x.kind)
           n == Bumped(x)
<1>a. /\ i \in Started(items, p) =>
             f(x) = [x EXCEPT !.state = "running", !.updated = n, !.wait = NoWait]
      /\ i \notin Started(items, p) =>
             f(x) = x \/ f(x) = [x EXCEPT !.wait = w, !.updated = n]
  BY <1>4
<1>b. n \in Nat /\ w \in Waits /\ NoWait \in Waits /\ "running" \in States /\ "queued" \in States
  BY <1>1, <1>2, BumpedType, WaitType DEF States
<1> HIDE DEF f, w, n, all
<1>5. /\ f(x) \in Item /\ f(x).kind = x.kind
      /\ f(x).state = IF i \in Started(items, p) THEN "running" ELSE x.state
  <2>1. CASE i \in Started(items, p)
    <3>1. [x EXCEPT !.state = "running", !.updated = n, !.wait = NoWait]
              \in {y \in Item : y.state = "running" /\ y.kind = x.kind}
      BY <1>2, <1>b, ChangeStart
    <3> QED
      BY <1>a, <2>1, <3>1
  <2>2. CASE i \notin Started(items, p) /\ f(x) = [x EXCEPT !.wait = w, !.updated = n]
    <3>1. [x EXCEPT !.wait = w, !.updated = n]
              \in {y \in Item : y.state = x.state /\ y.kind = x.kind}
      BY <1>2, <1>b, ChangeWait
    <3> QED
      BY <2>2, <3>1
  <2>3. CASE i \notin Started(items, p) /\ f(x) = x
    BY <1>2, <2>3
  <2> QED
    BY <1>a, <2>1, <2>2, <2>3
<1>6. CASE i \in Started(items, p)
  <2> DEFINE z == [f(x) EXCEPT !.state = "queued"]
  <2>1. RolledBack(all, Started(items, p))[i] = {z}
    BY <1>3, <1>6 DEF RolledBack
  <2>2. z \in {y \in Item : y.state = "queued" /\ y.kind = f(x).kind}
    BY <1>b, <1>5, ChangeState, Zenon
  <2> HIDE DEF z
  <2> QED
    BY <1>3, <1>4, <1>5, <1>6, <2>1, <2>2 DEF all
<1>7. CASE i \notin Started(items, p)
  <2>1. RolledBack(all, Started(items, p))[i] = {f(x)}
    BY <1>3, <1>7 DEF RolledBack
  <2> QED
    BY <1>3, <1>5, <1>7, <2>1 DEF all
<1> QED
  BY <1>6, <1>7

(* A pass as a whole: what starts was queued and runs, the rest keeps its   *)
(* state; rolled back, everything keeps its state.                         *)
LEMMA AdmitFacts ==
    ASSUME TypeOK, NEW p \in Pass, NEW all, NEW back,
           all = Admitted(items, p), back = RolledBack(all, Started(items, p))
    PROVE  /\ all \in Table /\ back \in Table
           /\ \A i \in Items : IF i \in Started(items, p)
                 THEN In(items, i, {"queued"}) /\ In(all, i, {"running"})
                      /\ ~In(all, i, {"queued"})
                 ELSE \A S : In(all, i, S) <=> In(items, i, S)
           /\ \A i \in Items : \A S : In(back, i, S) <=> In(items, i, S)
           /\ \A k \in Kinds :
                 /\ OfKind(all, {"running"}, k)
                        = OfKind(items, {"running"}, k) \cup Starts(items, p, k)
                 /\ OfKind(back, {"running"}, k) = OfKind(items, {"running"}, k)
<1>1. items \in Table
  BY DEF TypeOK, Table
<1>2. /\ DOMAIN all = Items /\ all = [i \in Items |-> all[i]]
      /\ DOMAIN back = Items /\ back = [i \in Items |-> back[i]]
  BY DEF Admitted, RolledBack
<1>3. \A i \in Items : items[i] = {} => all[i] = {} /\ back[i] = {} /\ i \notin Started(items, p)
  <2> SUFFICES ASSUME NEW i \in Items, items[i] = {}
               PROVE  all[i] = {} /\ back[i] = {} /\ i \notin Started(items, p)
    OBVIOUS
  <2>1. all[i] = {}
    BY DEF Admitted
  <2>2. \A k : i \notin OfKind(items, {"queued"}, k)
    BY DEF OfKind, Having, In
  <2>3. i \notin Started(items, p)
    BY <1>1, <2>2, StartsFacts DEF Started
  <2> QED
    BY <2>1, <2>3 DEF RolledBack
<1>4. \A i \in Items : \A x \in items[i] : \E y, z \in Item :
          /\ items[i] = {x} /\ all[i] = {y} /\ back[i] = {z}
          /\ y.kind = x.kind /\ z.kind = x.kind /\ z.state = x.state
          /\ IF i \in Started(items, p)
             THEN x.state = "queued" /\ y.state = "running"
             ELSE y.state = x.state
  BY <1>1, AdmittedItem, OptionElim DEF Table
<1>5. ASSUME NEW i \in Items
      PROVE  all[i] \in Option(Item) /\ back[i] \in Option(Item)
  <2>1. CASE items[i] = {}
    BY <1>3, <2>1, OptionIntro
  <2>2. ASSUME NEW x \in items[i]
        PROVE  all[i] \in Option(Item) /\ back[i] \in Option(Item)
    <3>1. PICK y, z \in Item : all[i] = {y} /\ back[i] = {z}
      BY <1>4
    <3> QED
      BY <3>1, OptionIntro
  <2> QED
    BY <2>1, <2>2
<1>6. all \in Table /\ back \in Table
  BY <1>2, <1>5 DEF Table
<1>7. \A i \in Items : IF i \in Started(items, p)
          THEN In(items, i, {"queued"}) /\ In(all, i, {"running"}) /\ ~In(all, i, {"queued"})
          ELSE \A S : In(all, i, S) <=> In(items, i, S)
  BY <1>3, <1>4 DEF In
<1>8. \A i \in Items : \A S : In(back, i, S) <=> In(items, i, S)
  BY <1>3, <1>4 DEF In
<1>9. ASSUME NEW k \in Kinds
      PROVE  OfKind(all, {"running"}, k)
                 = OfKind(items, {"running"}, k) \cup Starts(items, p, k)
  <2>1. Starts(items, p, k) \subseteq Items
        /\ \A i \in Starts(items, p, k) : i \in OfKind(items, {"queued"}, k) /\ i \in Started(items, p)
    BY <1>1, StartsFacts DEF Started
  <2>2. ASSUME NEW i \in Items, i \in Started(items, p), NEW x \in items[i], x.kind = k
        PROVE  i \in Starts(items, p, k)
    <3>1. PICK l \in Kinds : i \in Starts(items, p, l)
      BY <2>2 DEF Started
    <3>2. i \in OfKind(items, {"queued"}, l)
      BY <1>1, <3>1, StartsFacts
    <3> QED
      BY <2>2, <3>1, <3>2 DEF OfKind
  <2>3. \A i \in Items : i \in OfKind(all, {"running"}, k)
            <=> i \in OfKind(items, {"running"}, k) \cup Starts(items, p, k)
    <3> SUFFICES ASSUME NEW i \in Items
                 PROVE  i \in OfKind(all, {"running"}, k)
                            <=> i \in OfKind(items, {"running"}, k) \cup Starts(items, p, k)
      OBVIOUS
    <3>1. CASE items[i] = {}
      BY <1>3, <2>1, <3>1 DEF OfKind, Having, In
    <3>2. ASSUME NEW x \in items[i]
          PROVE  i \in OfKind(all, {"running"}, k)
                     <=> i \in OfKind(items, {"running"}, k) \cup Starts(items, p, k)
      <4>1. PICK y \in Item : /\ items[i] = {x} /\ all[i] = {y} /\ y.kind = x.kind
                              /\ IF i \in Started(items, p)
                                 THEN x.state = "queued" /\ y.state = "running"
                                 ELSE y.state = x.state
        BY <1>4
      <4>2. i \in OfKind(all, {"running"}, k) <=> y.state = "running" /\ y.kind = k
        BY <4>1 DEF OfKind, Having, In
      <4>3. i \in OfKind(items, {"running"}, k) <=> x.state = "running" /\ x.kind = k
        BY <4>1 DEF OfKind, Having, In
      <4>4. i \in Starts(items, p, k) => x.kind = k
        BY <2>1, <4>1 DEF OfKind
      <4> QED
        BY <2>1, <2>2, <4>1, <4>2, <4>3, <4>4
    <3> QED
      BY <3>1, <3>2
  <2>4. OfKind(all, {"running"}, k) \subseteq Items /\ OfKind(items, {"running"}, k) \subseteq Items
    BY DEF OfKind, Having
  <2> QED
    BY <2>1, <2>3, <2>4
<1>10. ASSUME NEW k \in Kinds
       PROVE  OfKind(back, {"running"}, k) = OfKind(items, {"running"}, k)
  <2>1. \A i \in Items : i \in OfKind(back, {"running"}, k) <=> i \in OfKind(items, {"running"}, k)
    BY <1>3, <1>4 DEF OfKind, Having, In
  <2>2. OfKind(back, {"running"}, k) \subseteq Items /\ OfKind(items, {"running"}, k) \subseteq Items
    BY DEF OfKind, Having
  <2> QED
    BY <2>1, <2>2
<1> QED
  BY <1>6, <1>7, <1>8, <1>9, <1>10

(* The end of an item: it neither waits nor runs any more, and no other     *)
(* item that does is touched.                                              *)
LEMMA FinishFacts ==
    ASSUME TypeOK, NEW i \in Items, In(items, i, {"running"}), Finish(i)
    PROVE  /\ items' \in Table /\ disk' \in Table /\ disk' \in {disk, items'}
           /\ ~In(items', i, {"queued", "running"})
           /\ \A j \in Items \ {i} :
                 /\ In(items, j, {"queued", "running"}) => items'[j] = items[j]
                 /\ items'[j] \in {{}, items[j]}
           /\ watches' = [watches EXCEPT ![i] = {}]
           /\ watches' \in [Items -> Option(Watch)]
           /\ settled' = settled \cup {i}
           /\ spent' \in [crash : Nat, write : Nat, call : Nat, lag : Nat]
           /\ UNCHANGED <<launches, accepted, revoked, peak>>
<1>1. items \in Table
  BY DEF TypeOK, Table
<1>2. PICK x \in items[i] : x \in Item /\ items[i] = {x} /\ (CHOOSE y \in items[i] : TRUE) = x
  BY <1>1, OptionElim DEF In, Table
<1> DEFINE y == [x EXCEPT !.state = "done", !.finished = clock, !.updated = Bumped(x),
                          !.wait = NoWait]
           its == [items EXCEPT ![i] = {y}]
<1>3. y \in {z \in Item : z.state = "done" /\ z.kind = x.kind}
  <2> DEFINE n == Bumped(x)
  <2>1. "done" \in States /\ clock \in Nat /\ n \in Nat /\ NoWait \in Waits
    BY <1>2, BumpedType DEF States, Terminal, Waits
  <2>2. y = [x EXCEPT !.state = "done", !.finished = clock, !.updated = n, !.wait = NoWait]
    OBVIOUS
  <2> HIDE DEF n, y
  <2>3. [x EXCEPT !.state = "done", !.finished = clock, !.updated = n, !.wait = NoWait]
            \in {z \in Item : z.state = "done" /\ z.kind = x.kind}
    <3>1. x \in Item
      BY <1>2
    <3> QED
      BY <2>1, <3>1, ChangeEnd
  <2> QED
    BY <2>2, <2>3
<1>4. items' = Retained(its) /\ (Write(Retained(its)) \/ WriteFails)
      /\ watches' = [watches EXCEPT ![i] = {}] /\ settled' = settled \cup {i}
      /\ UNCHANGED <<launches, accepted, revoked, peak>>
  BY <1>2 DEF Finish
<1> HIDE DEF y
<1>5. its \in Table /\ its[i] = {y} /\ \A j \in Items \ {i} : its[j] = items[j]
  BY <1>1, <1>3, OptionIntro DEF Table
<1> HIDE DEF its
<1>6. items' \in Table
      /\ \A j \in Items : /\ In(its, j, {"queued", "running"}) => items'[j] = its[j]
                          /\ items'[j] \in {{}, its[j]}
  BY <1>4, <1>5, RetainedFacts
<1>7. ~In(items', i, {"queued", "running"})
  BY <1>3, <1>5, <1>6 DEF In
<1>8. \A j \in Items \ {i} :
          /\ In(items, j, {"queued", "running"}) => items'[j] = items[j]
          /\ items'[j] \in {{}, items[j]}
  BY <1>5, <1>6 DEF In
<1>9. disk' \in Table /\ disk' \in {disk, items'}
  BY <1>4, <1>6 DEF Write, WriteFails, TypeOK, Table
<1>10. watches' \in [Items -> Option(Watch)]
  BY <1>4, OptionIntro DEF TypeOK
<1>11. spent' \in [crash : Nat, write : Nat, call : Nat, lag : Nat]
  BY <1>4 DEF Write, WriteFails, TypeOK
<1> QED
  BY <1>4, <1>6, <1>7, <1>8, <1>9, <1>10, <1>11

-----------------------------------------------------------------------------
(* The invariant, step by step                                             *)

(* Slots stay bounded while nothing new runs and the limits do not fall.    *)
LEMMA StillBounded ==
    ASSUME Inv, items' \in Table,
           \A k \in Kinds : /\ OfKind(items', {"running"}, k) \subseteq OfKind(items, {"running"}, k)
                            /\ peak'[k] \in Nat /\ peak[k] <= peak'[k]
    PROVE  SlotsBounded'
<1> SUFFICES ASSUME NEW k \in Kinds
             PROVE  Cardinality(OfKind(items', {"running"}, k)) <= peak'[k]
  BY DEF SlotsBounded, Running
<1>1. items \in Table /\ peak[k] \in Nat
  BY DEF Inv, TypeOK, Table
<1>2. Cardinality(OfKind(items, {"running"}, k)) <= peak[k]
  BY DEF Inv, SlotsBounded, Running
<1>3. /\ OfKind(items, {"running"}, k) \in SUBSET Items
      /\ OfKind(items', {"running"}, k) \in SUBSET OfKind(items, {"running"}, k)
  BY <1>1, OfKindFacts
<1>4. /\ Cardinality(OfKind(items', {"running"}, k)) \in Nat
      /\ Cardinality(OfKind(items, {"running"}, k)) \in Nat
      /\ Cardinality(OfKind(items', {"running"}, k)) <= Cardinality(OfKind(items, {"running"}, k))
  BY <1>3, Finite
<1> QED
  BY <1>1, <1>2, <1>4

(* Nothing starts that may not, while no item is queued anew.              *)
LEMMA StillOnce ==
    ASSUME Once, UNCHANGED <<launches, accepted, revoked>>,
           \A i \in Items :
              /\ In(items', i, {"queued"}) \/ In(disk', i, {"queued"}) =>
                     In(items, i, {"queued"}) \/ In(disk, i, {"queued"})
              /\ task'[i] = "starting" => task[i] = "starting"
    PROVE  Once'
  BY DEF Once, Unstarted

(* No queued item starts in this step.                                     *)
NoneStarts == \A i \in Items : In(items, i, {"queued"}) => ~In(items', i, {"running"})

(* A step after which every item is in the state it was in.                *)
LEMMA StatesKept ==
    ASSUME Inv, TypeOK', Allowed',
           UNCHANGED <<launches, accepted, revoked, settled>>,
           disk' \in {disk, items'},
           \A k \in Kinds : /\ OfKind(items', {"running"}, k) \subseteq OfKind(items, {"running"}, k)
                            /\ peak[k] <= peak'[k],
           \A i \in Items :
              /\ \A S : In(items', i, S) <=> In(items, i, S)
              /\ watches'[i] = {} <=> watches[i] = {}
              /\ task'[i] = "none" <=> task[i] = "none"
              /\ task'[i] = "starting" => task[i] = "starting"
    PROVE  Inv' /\ NoneStarts
<1>1. items' \in Table /\ \A k \in Kinds : peak'[k] \in Nat
  BY DEF TypeOK, Table
<1>2. SlotsBounded'
  BY <1>1, StillBounded
<1>3. Once'
  <2>1. \A i \in Items : In(disk', i, {"queued"}) => In(items, i, {"queued"}) \/ In(disk, i, {"queued"})
    BY DEF In
  <2> QED
    BY <2>1, StillOnce DEF Inv
<1>4. SlotHasOneReleaser'
  BY DEF Inv, SlotHasOneReleaser
<1>5. AcceptedSurvives'
  <2>1. \A i \in accepted \ settled : i \in Items /\ In(items, i, {"queued", "running"})
                                      /\ In(disk, i, {"queued", "running"})
    BY DEF Inv, AcceptedSurvives, TypeOK
  <2> QED
    BY <2>1 DEF AcceptedSurvives, In
<1>6. NoneStarts
  <2>1. items \in Table
    BY DEF Inv, TypeOK, Table
  <2> QED
    BY <2>1, OneState DEF NoneStarts
<1> QED
  BY <1>2, <1>3, <1>4, <1>5, <1>6 DEF Inv

(* A step that touches no item, no task and no watch but its counts.        *)
LEMMA QuietInv ==
    ASSUME Inv, TypeOK', Allowed',
           UNCHANGED <<items, disk, task, launches, accepted, revoked, settled>>,
           \A k \in Kinds : peak[k] <= peak'[k],
           \A i \in Items : watches'[i] = {} <=> watches[i] = {}
    PROVE  Inv' /\ NoneStarts
  BY StatesKept DEF In, OfKind, Having

(* An item whose task runs or which is watched holds a slot.               *)
LEMMA Held ==
    ASSUME Inv, NEW i \in Items, task[i] # "none" \/ watches[i] # {}
    PROVE  In(items, i, {"running"})
  BY DEF Inv, SlotHasOneReleaser

(* The end of an item whose task, if it has one, ends with it.             *)
LEMMA EndsInv ==
    ASSUME Inv, NEW i \in Items, task[i] # "none" \/ watches[i] # {}, Finish(i),
           UNCHANGED <<limits, gate, pass, clock, agent>>,
           rows' \in [Items -> Seq(AgentState)],
           task' \in [Items -> {"none", "starting", "executing", "arming"}],
           task'[i] = "none", \A j \in Items \ {i} : task'[j] = task[j]
    PROVE  Inv' /\ NoneStarts
<1>1. TypeOK /\ items \in Table /\ In(items, i, {"running"})
  BY Held DEF Inv, TypeOK, Table
<1>2. /\ items' \in Table /\ disk' \in Table /\ disk' \in {disk, items'}
      /\ ~In(items', i, {"queued", "running"})
      /\ \A j \in Items \ {i} :
            /\ In(items, j, {"queued", "running"}) => items'[j] = items[j]
            /\ items'[j] \in {{}, items[j]}
      /\ watches' = [watches EXCEPT ![i] = {}]
      /\ watches' \in [Items -> Option(Watch)]
      /\ settled' = settled \cup {i}
      /\ spent' \in [crash : Nat, write : Nat, call : Nat, lag : Nat]
      /\ UNCHANGED <<launches, accepted, revoked, peak>>
  BY <1>1, FinishFacts
<1>3. TypeOK'
  BY <1>1, <1>2 DEF TypeOK, Table
<1>4. \A j \in Items : \A S \in SUBSET {"queued", "running"} :
          In(items', j, S) <=> j # i /\ In(items, j, S)
  BY <1>2 DEF In
<1>5. SlotsBounded'
  <2>1. \A k \in Kinds : OfKind(items', {"running"}, k) \subseteq OfKind(items, {"running"}, k)
    BY <1>2, <1>4 DEF OfKind, Having, In
  <2>2. \A k \in Kinds : peak'[k] \in Nat /\ peak[k] <= peak'[k]
    BY <1>1, <1>2 DEF TypeOK
  <2> QED
    BY <1>2, <2>1, <2>2, StillBounded
<1>6. Once'
  <2>1. \A j \in Items : In(disk', j, {"queued"}) => In(items, j, {"queued"}) \/ In(disk, j, {"queued"})
    BY <1>2, <1>4 DEF In
  <2> QED
    BY <1>2, <1>4, <2>1, StillOnce DEF Inv
<1>7. SlotHasOneReleaser'
  BY <1>1, <1>2, <1>4 DEF Inv, SlotHasOneReleaser, TypeOK
<1>8. AcceptedSurvives'
  <2> SUFFICES ASSUME NEW j \in accepted \ settled, j # i
               PROVE  In(items', j, {"queued", "running"}) /\ In(disk', j, {"queued", "running"})
    BY <1>2 DEF AcceptedSurvives
  <2>1. j \in Items /\ In(items, j, {"queued", "running"}) /\ In(disk, j, {"queued", "running"})
    BY DEF Inv, AcceptedSurvives, TypeOK
  <2>2. In(items', j, {"queued", "running"})
    BY <1>4, <2>1
  <2> QED
    BY <1>2, <2>1, <2>2 DEF In
<1>9. NoneStarts
  BY <1>1, <1>4, OneState DEF NoneStarts
<1>10. Allowed'
  BY <1>2 DEF Inv, Allowed
<1> QED
  BY <1>3, <1>5, <1>6, <1>7, <1>8, <1>9, <1>10 DEF Inv

(* Submission: a new item has not been started and has no releaser.        *)
LEMMA SubmitInv ==
    ASSUME Inv, NEW i \in Items, NEW k \in Kinds, NEW pr \in Priorities, NEW c \in Callers,
           SubmitLocal(i, k, pr, c)
    PROVE  Inv' /\ NoneStarts
<1> DEFINE sub == Submission(i, k, pr, c)
           its == [items EXCEPT ![i] = {sub}]
<1>1. /\ i \notin accepted /\ items[i] = {}
      /\ \/ Write(Retained(its)) /\ items' = Retained(its) /\ accepted' = accepted \cup {i}
         \/ WriteFails /\ items' = [Retained(its) EXCEPT ![i] = {}] /\ UNCHANGED accepted
      /\ UNCHANGED <<watches, pass, task, launches, revoked, settled, peak, world>>
  BY DEF SubmitLocal
<1>2. TypeOK /\ items \in Table /\ disk \in Table
  BY DEF Inv, TypeOK, Table
<1>3. sub \in Item /\ sub.state = "queued"
  <2>1. clock \in Nat
    BY <1>2 DEF TypeOK
  <2> QED
    BY <2>1 DEF Submission, Item
<1> HIDE DEF sub
<1>4. its \in Table /\ its[i] = {sub} /\ \A j \in Items \ {i} : its[j] = items[j]
  BY <1>2, <1>3, OptionIntro DEF Table
<1> HIDE DEF its
<1>5. /\ Retained(its) \in Table /\ Retained(its)[i] = {sub}
      /\ \A j \in Items \ {i} :
            /\ In(items, j, {"queued", "running"}) => Retained(its)[j] = items[j]
            /\ Retained(its)[j] \in {{}, items[j]}
  BY <1>3, <1>4, RetainedFacts DEF In
<1>6. /\ items' \in Table /\ disk' \in {disk, items'}
      /\ \A j \in Items \ {i} :
            /\ In(items, j, {"queued", "running"}) => items'[j] = items[j]
            /\ items'[j] \in {{}, items[j]}
      /\ items'[i] \in {{}, {sub}}
      /\ accepted' \subseteq Items /\ accepted \subseteq accepted'
      /\ accepted' = accepted \/ (accepted' = accepted \cup {i} /\ disk' = items' /\ items'[i] = {sub})
      /\ items'[i] = {sub} => i \in accepted'
  <2>1. CASE Write(Retained(its)) /\ items' = Retained(its) /\ accepted' = accepted \cup {i}
    BY <1>2, <1>5, <2>1 DEF Write, TypeOK
  <2>2. CASE WriteFails /\ items' = [Retained(its) EXCEPT ![i] = {}] /\ UNCHANGED accepted
    <3>1. items'[i] = {} /\ \A j \in Items \ {i} : items'[j] = Retained(its)[j]
      BY <1>5, <2>2 DEF Table
    <3>2. items' \in Table
      BY <1>5, <2>2, OptionIntro DEF Table
    <3> QED
      BY <1>2, <1>5, <2>2, <3>1, <3>2 DEF WriteFails, TypeOK
  <2> QED
    BY <1>1, <2>1, <2>2
<1>7. TypeOK'
  <2>1. spent' \in [crash : Nat, write : Nat, call : Nat, lag : Nat]
    BY <1>1, <1>2 DEF Write, WriteFails, TypeOK
  <2> QED
    BY <1>1, <1>2, <1>6, <2>1 DEF TypeOK, world, Table
<1>8. /\ ~In(items, i, {"queued", "running"}) /\ ~In(items', i, {"running"})
      /\ \A j \in Items \ {i} : \A S \in SUBSET {"queued", "running"} :
             In(items', j, S) <=> In(items, j, S)
  BY <1>1, <1>3, <1>6 DEF In
<1>9. SlotsBounded'
  <2>1. \A l \in Kinds : OfKind(items', {"running"}, l) \subseteq OfKind(items, {"running"}, l)
    BY <1>6, <1>8 DEF OfKind, Having, In
  <2>2. \A l \in Kinds : peak'[l] \in Nat /\ peak[l] <= peak'[l]
    BY <1>1, <1>2 DEF TypeOK
  <2> QED
    BY <1>6, <2>1, <2>2, StillBounded
<1>10. launches[i] = 0 /\ i \notin revoked /\ task[i] # "starting" /\ ~In(disk, i, {"queued"})
  BY <1>1 DEF Inv, Once, Unstarted
<1>11. Once'
  <2> SUFFICES ASSUME NEW j \in Items
               PROVE  /\ launches[j] = 0 \/ (launches[j] = 1 /\ j \in accepted' \ revoked)
                      /\ In(items', j, {"queued"}) \/ In(disk', j, {"queued"}) =>
                             launches[j] = 0 /\ j \in accepted' \ revoked /\ task[j] # "starting"
                      /\ task[j] = "starting" => launches[j] = 0 /\ j \in accepted' \ revoked
    BY <1>1, <1>6 DEF Inv, Once, Unstarted
  <2>1. CASE j # i
    <3>1. In(items', j, {"queued"}) \/ In(disk', j, {"queued"}) =>
              In(items, j, {"queued"}) \/ In(disk, j, {"queued"})
      BY <1>6, <1>8, <2>1 DEF In
    <3> QED
      BY <1>6, <2>1, <3>1 DEF Inv, Once, Unstarted
  <2>2. CASE j = i
    <3>1. In(items', i, {"queued"}) \/ In(disk', i, {"queued"}) => i \in accepted'
      BY <1>6, <1>10 DEF In
    <3> QED
      BY <1>10, <2>2, <3>1
  <2> QED
    BY <2>1, <2>2
<1>12. SlotHasOneReleaser'
  BY <1>1, <1>8 DEF Inv, SlotHasOneReleaser, In
<1>13. AcceptedSurvives'
  <2> SUFFICES ASSUME NEW j \in accepted' \ settled
               PROVE  In(items', j, {"queued", "running"}) /\ In(disk', j, {"queued", "running"})
    BY <1>1 DEF AcceptedSurvives
  <2>1. CASE j = i
    BY <1>1, <1>3, <1>6, <2>1 DEF In
  <2>2. CASE j # i
    <3>1. j \in Items /\ In(items, j, {"queued", "running"}) /\ In(disk, j, {"queued", "running"})
      BY <1>6, <2>2 DEF Inv, AcceptedSurvives
    <3>2. In(items', j, {"queued", "running"})
      BY <1>8, <2>2, <3>1
    <3> QED
      BY <1>6, <3>1, <3>2 DEF In
  <2> QED
    BY <2>1, <2>2
<1>14. NoneStarts
  BY <1>2, <1>8, OneState DEF NoneStarts
<1>15. Allowed'
  BY <1>1 DEF Inv, Allowed, world
<1> QED
  BY <1>7, <1>9, <1>11, <1>12, <1>13, <1>14, <1>15 DEF Inv

(* Cancellation: a queued item has not been started and never will be.     *)
LEMMA CancelInv ==
    ASSUME Inv, NEW i \in Items, NEW c \in Callers, Cancel(i, c)
    PROVE  Inv' /\ NoneStarts
<1>1. TypeOK /\ items \in Table /\ disk \in Table
  BY DEF Inv, TypeOK, Table
<1>2. PICK x \in items[i] : /\ x \in Item /\ items[i] = {x} /\ x.state = "queued"
                            /\ (CHOOSE y \in items[i] : TRUE) = x
  <2>1. PICK x \in items[i] : x.state = "queued"
    BY DEF Cancel, In
  <2> QED
    BY <1>1, <2>1, OptionElim DEF Table
<1> DEFINE y == [x EXCEPT !.state = "cancelled", !.finished = clock, !.updated = clock,
                          !.wait = NoWait]
           all == [items EXCEPT ![i] = {y}]
<1>3. y \in {z \in Item : z.state = "cancelled" /\ z.kind = x.kind}
  <2>1. "cancelled" \in States /\ clock \in Nat /\ NoWait \in Waits
    BY <1>1 DEF States, Terminal, Waits, TypeOK
  <2>2. x \in Item
    BY <1>2
  <2> QED
    BY <2>1, <2>2, ChangeEnd
<1>4. /\ \/ /\ Write(all) /\ items' = all
            /\ revoked' = revoked \cup {i} /\ settled' = settled \cup {i}
         \/ WriteFails /\ UNCHANGED <<items, revoked, settled>>
      /\ UNCHANGED <<watches, pass, task, launches, accepted, peak, world>>
  BY <1>2 DEF Cancel
<1> HIDE DEF y
<1>5. all \in Table /\ all[i] = {y} /\ \A j \in Items \ {i} : all[j] = items[j]
  BY <1>1, <1>3, OptionIntro DEF Table
<1> HIDE DEF all
<1>6. Allowed'
  BY <1>4 DEF Inv, Allowed, world
<1>7. CASE WriteFails /\ UNCHANGED <<items, revoked, settled>>
  <2>a. UNCHANGED disk /\ spent' \in [crash : Nat, write : Nat, call : Nat, lag : Nat]
    BY <1>1, <1>7, RefusedWrite
  <2>1. TypeOK' /\ UNCHANGED disk
    BY <1>1, <1>4, <1>7, <2>a DEF TypeOK, world
  <2>2. \A k \in Kinds : peak[k] <= peak'[k]
    BY <1>1, <1>4 DEF TypeOK
  <2> QED
    BY <1>4, <1>6, <1>7, <2>1, <2>2, QuietInv
<1>8. CASE /\ Write(all) /\ items' = all
           /\ revoked' = revoked \cup {i} /\ settled' = settled \cup {i}
  <2>1. items' = all /\ disk' = all /\ UNCHANGED spent
    BY <1>8 DEF Write
  <2>2. TypeOK'
    BY <1>1, <1>4, <1>5, <1>8, <2>1 DEF TypeOK, Table, world
  <2>3. /\ ~In(items', i, {"queued", "running"}) /\ ~In(items, i, {"running"})
        /\ \A j \in Items \ {i} : \A S : In(items', j, S) <=> In(items, j, S)
    BY <1>2, <1>3, <1>5, <2>1 DEF In
  <2>4. SlotsBounded'
    <3>1. \A l \in Kinds : OfKind(items', {"running"}, l) \subseteq OfKind(items, {"running"}, l)
      BY <1>3, <1>5, <2>1, <2>3 DEF OfKind, Having, In
    <3>2. \A l \in Kinds : peak'[l] \in Nat /\ peak[l] <= peak'[l]
      BY <1>1, <1>4 DEF TypeOK
    <3> QED
      BY <1>5, <2>1, <3>1, <3>2, StillBounded
  <2>5. launches[i] = 0 /\ i \in accepted /\ task[i] # "starting"
    BY <1>2 DEF Inv, Once, Unstarted, In
  <2>6. Once'
    <3>1. \A j \in Items \ {i} : In(items', j, {"queued"}) \/ In(disk', j, {"queued"})
              => In(items, j, {"queued"})
      BY <2>1, <2>3
    <3>2. ~In(items', i, {"queued"}) /\ ~In(disk', i, {"queued"})
      BY <2>1, <2>3 DEF In
    <3> QED
      BY <1>4, <1>8, <2>5, <3>1, <3>2 DEF Inv, Once, Unstarted
  <2>7. SlotHasOneReleaser'
    BY <1>4, <2>3 DEF Inv, SlotHasOneReleaser, In
  <2>8. AcceptedSurvives'
    <3> SUFFICES ASSUME NEW j \in accepted \ settled, j # i
                 PROVE  In(items', j, {"queued", "running"}) /\ In(disk', j, {"queued", "running"})
      BY <1>4, <1>8 DEF AcceptedSurvives
    <3>1. j \in Items /\ In(items, j, {"queued", "running"})
      BY <1>1 DEF Inv, AcceptedSurvives, TypeOK
    <3> QED
      BY <2>1, <2>3, <3>1
  <2>9. NoneStarts
    <3>1. ~In(items', i, {"running"})
      BY <2>3 DEF In
    <3> QED
      BY <1>1, <2>3, <3>1, OneState DEF NoneStarts
  <2> QED
    BY <1>6, <2>2, <2>4, <2>6, <2>7, <2>8, <2>9 DEF Inv
<1> QED
  BY <1>4, <1>7, <1>8

(* Admission: what starts was queued, and fits in the free slots.          *)
LEMMA AdmitInv ==
    ASSUME Inv, Admit
    PROVE  /\ Inv'
           /\ \/ NoneStarts
              \/ \E p \in pass : p \in Pass /\ items' = Admitted(items, p)
<1>1. TypeOK /\ items \in Table /\ disk \in Table
  BY DEF Inv, TypeOK, Table
<1>2. PICK p \in pass :
          LET started == Started(items, p)
              all == Admitted(items, p)
          IN  /\ pass' = {}
              /\ \/ all = items /\ UNCHANGED <<file, task, spent>>
                 \/ /\ all # items
                    /\ Write(all) /\ items' = all
                    /\ task' = [i \in Items |->
                           IF i \in started THEN "starting" ELSE task[i]]
                 \/ /\ all # items
                    /\ WriteFails /\ items' = RolledBack(all, started)
                    /\ UNCHANGED task
              /\ UNCHANGED <<watches, world, history>>
  BY DEF Admit
<1>3. p \in Pass /\ \A k \in Kinds : p.limits[k] \in Nat /\ p.limits[k] <= peak[k]
  <2>1. p \in Pass
    <3>1. pass \in Option(Pass)
      BY <1>1 DEF TypeOK, Pass
    <3> QED
      BY <3>1, OptionElim
  <2> QED
    BY <2>1 DEF Inv, Allowed, Pass
<1> DEFINE started == Started(items, p)
           all == Admitted(items, p)
           back == RolledBack(all, started)
<1>4. /\ all \in Table /\ back \in Table
      /\ \A i \in Items : IF i \in started
            THEN In(items, i, {"queued"}) /\ In(all, i, {"running"}) /\ ~In(all, i, {"queued"})
            ELSE \A S : In(all, i, S) <=> In(items, i, S)
      /\ \A i \in Items : \A S : In(back, i, S) <=> In(items, i, S)
      /\ \A k \in Kinds :
            /\ OfKind(all, {"running"}, k)
                   = OfKind(items, {"running"}, k) \cup Starts(items, p, k)
            /\ OfKind(back, {"running"}, k) = OfKind(items, {"running"}, k)
  BY <1>1, <1>3, AdmitFacts
<1>5. /\ pass' = {}
      /\ \/ UNCHANGED <<items, disk, task, spent>>
         \/ /\ items' = all /\ disk' = all /\ UNCHANGED spent
            /\ task' = [i \in Items |-> IF i \in started THEN "starting" ELSE task[i]]
         \/ /\ items' = back /\ UNCHANGED <<disk, task>>
            /\ spent' \in [crash : Nat, write : Nat, call : Nat, lag : Nat]
      /\ UNCHANGED <<watches, limits, gate, agent, rows, clock, launches, accepted,
                     revoked, settled, peak>>
  <2>1. WriteFails => UNCHANGED disk
            /\ spent' \in [crash : Nat, write : Nat, call : Nat, lag : Nat]
    BY <1>1, RefusedWrite
  <2> HIDE DEF all, back, started
  <2> QED
    BY <1>2, <2>1 DEF Write, file, world, history, all, back, started
<1> HIDE DEF all, back, started
<1>6. Allowed' /\ pass' \in Option(Pass)
  BY <1>5, OptionIntro DEF Inv, Allowed
<1>7. \A k \in Kinds : peak[k] <= peak'[k] /\ peak'[k] \in Nat
  BY <1>1, <1>5 DEF TypeOK
<1>8. CASE UNCHANGED <<items, disk, task, spent>>
  <2>1. TypeOK'
    BY <1>1, <1>5, <1>6, <1>8 DEF TypeOK, Pass
  <2> QED
    BY <1>5, <1>6, <1>7, <1>8, <2>1, QuietInv
<1>9. CASE /\ items' = back /\ UNCHANGED <<disk, task>>
           /\ spent' \in [crash : Nat, write : Nat, call : Nat, lag : Nat]
  <2>1. TypeOK'
    BY <1>1, <1>4, <1>5, <1>6, <1>9 DEF TypeOK, Pass, Table
  <2>2. \A i \in Items : \A S : In(items', i, S) <=> In(items, i, S)
    BY <1>4, <1>9
  <2>3. \A k \in Kinds : OfKind(items', {"running"}, k) \subseteq OfKind(items, {"running"}, k)
    BY <1>4, <1>9
  <2> QED
    BY <1>5, <1>6, <1>7, <1>9, <2>1, <2>2, <2>3, StatesKept
<1>10. CASE /\ items' = all /\ disk' = all /\ UNCHANGED spent
            /\ task' = [i \in Items |-> IF i \in started THEN "starting" ELSE task[i]]
  <2>1. TypeOK'
    BY <1>1, <1>4, <1>5, <1>6, <1>10 DEF TypeOK, Pass, Table
  <2>2. \A i \in Items : IF i \in started
            THEN /\ In(items, i, {"queued"}) /\ In(items', i, {"running"})
                 /\ ~In(items', i, {"queued"}) /\ task'[i] = "starting"
            ELSE (\A S : In(items', i, S) <=> In(items, i, S)) /\ task'[i] = task[i]
    BY <1>4, <1>10
  <2>3. SlotsBounded'
    <3> SUFFICES ASSUME NEW k \in Kinds
                 PROVE  Cardinality(OfKind(items', {"running"}, k)) <= peak[k]
      BY <1>5 DEF SlotsBounded, Running
    <3> DEFINE R == OfKind(items, {"running"}, k)
               S == Starts(items, p, k)
    <3>1. Cardinality(OfKind(items', {"running"}, k)) = Cardinality(R \cup S)
      BY <1>4, <1>10
    <3>2. CASE S = {}
      BY <3>1, <3>2 DEF Inv, SlotsBounded, Running
    <3>3. CASE S # {}
      <4>1. Cardinality(R) + Cardinality(S) <= p.limits[k]
        BY <1>1, <1>3, <3>3, StartsFit DEF Used
      <4>2. R \in SUBSET Items /\ S \in SUBSET Items /\ IsFiniteSet(R) /\ IsFiniteSet(S)
        BY <1>1, OfKindFacts, StartsFacts
      <4>3. R \cap S = {}
        <5>1. S \subseteq OfKind(items, {"queued"}, k)
          BY <1>1, StartsFacts
        <5> QED
          BY <1>1, <5>1, OfKindFacts
      <4>4. Cardinality(R) \in Nat /\ Cardinality(S) \in Nat
        BY <4>2, FS_CardinalityType
      <4>5. Cardinality(R \cup S) = Cardinality(R) + Cardinality(S)
        <5>1. Cardinality(R \cup S) = Cardinality(R) + Cardinality(S) - Cardinality(R \cap S)
          BY <4>2, FS_Union
        <5>2. Cardinality(R \cap S) = 0
          BY <4>3, FS_EmptySet
        <5> HIDE DEF R, S
        <5> QED
          BY <4>4, <5>1, <5>2
      <4>6. peak[k] \in Nat /\ p.limits[k] \in Nat /\ p.limits[k] <= peak[k]
        BY <1>1, <1>3 DEF TypeOK
      <4> HIDE DEF R, S
      <4> QED
        BY <3>1, <4>1, <4>4, <4>5, <4>6
    <3> QED
      BY <3>2, <3>3
  <2>4. Once'
    <3>1. \A i \in Items : In(items', i, {"queued"}) \/ In(disk', i, {"queued"}) =>
              i \notin started /\ In(items, i, {"queued"}) /\ task'[i] = task[i]
      BY <1>10, <2>2 DEF In
    <3>2. \A i \in Items : task'[i] = "starting" => task[i] = "starting" \/ In(items, i, {"queued"})
      BY <2>2
    <3> QED
      BY <1>5, <3>1, <3>2 DEF Inv, Once, Unstarted
  <2>5. SlotHasOneReleaser'
    <3>1. \A i \in started : i \in Items => ~In(items, i, {"running"})
      BY <1>1, <2>2, OneState
    <3> QED
      BY <1>5, <2>2, <3>1 DEF Inv, SlotHasOneReleaser
  <2>6. AcceptedSurvives'
    <3> SUFFICES ASSUME NEW i \in accepted \ settled
                 PROVE  In(items', i, {"queued", "running"}) /\ In(disk', i, {"queued", "running"})
      BY <1>5 DEF AcceptedSurvives
    <3>1. i \in Items /\ In(items, i, {"queued", "running"})
      BY <1>1 DEF Inv, AcceptedSurvives, TypeOK
    <3>2. In(items', i, {"queued", "running"})
      <4>1. CASE i \in started
        <5>1. In(items', i, {"running"})
          BY <2>2, <3>1, <4>1
        <5> QED
          BY <5>1 DEF In
      <4>2. CASE i \notin started
        BY <2>2, <3>1, <4>2
      <4> QED
        BY <4>1, <4>2
    <3> QED
      BY <1>10, <3>2
  <2> QED
    BY <1>3, <1>6, <1>10, <2>1, <2>3, <2>4, <2>5, <2>6 DEF Inv, all
<1> QED
  BY <1>5, <1>8, <1>9, <1>10

(* The launch of an item's work: what is about to start has not started.    *)
LEMMA LaunchInv ==
    ASSUME Inv, NEW i \in Items, Launch(i)
    PROVE  Inv' /\ NoneStarts
<1>1. TypeOK /\ items \in Table /\ items' = items /\ disk' = disk
  BY DEF Inv, TypeOK, Table, Launch, file
<1>2. /\ task[i] = "starting"
      /\ task' = [task EXCEPT ![i] = "executing"]
      /\ launches' = [launches EXCEPT ![i] = launches[i] + 1]
      /\ UNCHANGED <<watches, pass, limits, gate, agent, rows, clock, accepted,
                     revoked, settled, peak, spent>>
  BY DEF Launch, world
<1>3. TypeOK'
  BY <1>1, <1>2 DEF TypeOK
<1>4. Unstarted(i) /\ ~In(items, i, {"queued"}) /\ ~In(disk, i, {"queued"})
  BY <1>2 DEF Inv, Once
<1>5. /\ task'[i] = "executing" /\ launches'[i] = 1
      /\ \A j \in Items \ {i} : task'[j] = task[j] /\ launches'[j] = launches[j]
  BY <1>1, <1>2, <1>4 DEF Unstarted, TypeOK
<1>6. Once'
  BY <1>1, <1>2, <1>4, <1>5 DEF Inv, Once, Unstarted, In
<1>7. SlotHasOneReleaser'
  BY <1>1, <1>2, <1>5 DEF Inv, SlotHasOneReleaser, In
<1>8. SlotsBounded' /\ Allowed' /\ AcceptedSurvives'
  BY <1>1, <1>2 DEF Inv, SlotsBounded, Running, OfKind, Having, In, Allowed, AcceptedSurvives
<1>9. NoneStarts
  BY <1>1, OneState DEF NoneStarts
<1> QED
  BY <1>3, <1>6, <1>7, <1>8, <1>9 DEF Inv

(* The item learns its session.                                            *)
LEMMA AttachInv ==
    ASSUME Inv, NEW i \in Items, Attach(i)
    PROVE  Inv' /\ NoneStarts
<1>1. TypeOK /\ items \in Table /\ disk \in Table
  BY DEF Inv, TypeOK, Table
<1>2. PICK x \in items[i] : x \in Item /\ items[i] = {x}
  <2>1. PICK x \in items[i] : TRUE
    BY DEF Attach, In
  <2>2. items[i] \in Option(Item)
    BY <1>1 DEF Table
  <2> QED
    BY <2>1, <2>2, OptionElim
<1> DEFINE y == [x EXCEPT !.attached = TRUE, !.updated = Bumped(x)]
<1>3. y \in {z \in Item : z.state = x.state /\ z.kind = x.kind}
  <2> DEFINE n == Bumped(x)
  <2>1. n \in Nat
    BY <1>1, <1>2, BumpedType
  <2>2. y = [x EXCEPT !.attached = TRUE, !.updated = n]
    OBVIOUS
  <2> HIDE DEF n, y
  <2>3. x \in Item
    BY <1>2
  <2>4. [x EXCEPT !.attached = TRUE, !.updated = n] \in {z \in Item : z.state = x.state /\ z.kind = x.kind}
    BY <2>1, <2>3, ChangeAttach
  <2> QED
    BY <2>2, <2>4
<1>4. /\ items' = [items EXCEPT ![i] = {y}]
      /\ Write(items') \/ WriteFails
      /\ task[i] = "executing" /\ task' = [task EXCEPT ![i] = "arming"]
      /\ UNCHANGED <<watches, pass, world, history>>
  BY <1>2 DEF Attach
<1> HIDE DEF y
<1>5. /\ items' \in Table /\ items'[i] = {y}
      /\ \A j \in Items \ {i} : items'[j] = items[j]
  BY <1>1, <1>3, <1>4, OptionIntro DEF Table
<1>6. disk' \in {disk, items'} /\ spent' \in [crash : Nat, write : Nat, call : Nat, lag : Nat]
  <2>1. CASE Write(items')
    BY <1>1, <2>1 DEF Write, TypeOK
  <2>2. CASE WriteFails
    BY <1>1, <2>2, RefusedWrite
  <2> QED
    BY <1>4, <2>1, <2>2
<1>7. TypeOK'
  BY <1>1, <1>4, <1>5, <1>6 DEF TypeOK, Table, world, history
<1>8. Allowed' /\ UNCHANGED <<launches, accepted, revoked, settled>>
      /\ \A k \in Kinds : peak[k] <= peak'[k]
  BY <1>1, <1>4 DEF Inv, Allowed, world, history, TypeOK
<1>9. \A j \in Items : \A S : In(items', j, S) <=> In(items, j, S)
  BY <1>2, <1>3, <1>5 DEF In
<1>10. \A k \in Kinds : OfKind(items', {"running"}, k) \subseteq OfKind(items, {"running"}, k)
  BY <1>2, <1>3, <1>5, <1>9 DEF OfKind, Having
<1>11. \A j \in Items : /\ watches'[j] = {} <=> watches[j] = {}
                        /\ task'[j] = "none" <=> task[j] = "none"
                        /\ task'[j] = "starting" => task[j] = "starting"
  BY <1>1, <1>4 DEF TypeOK
<1> QED
  BY <1>6, <1>7, <1>8, <1>9, <1>10, <1>11, StatesKept

(* The second lock section of a start: the watch takes over from the task. *)
LEMMA ArmInv ==
    ASSUME Inv, NEW i \in Items, Arm(i)
    PROVE  Inv' /\ NoneStarts
<1>1. TypeOK /\ items \in Table /\ items' = items /\ disk' = disk
  BY DEF Inv, TypeOK, Table, Arm, file
<1>2. /\ task[i] = "arming"
      /\ task' = [task EXCEPT ![i] = "none"]
      /\ watches' = [watches EXCEPT ![i] = {NewWatch}]
      /\ UNCHANGED <<pass, limits, gate, agent, rows, clock, launches, accepted,
                     revoked, settled, peak, spent>>
  BY DEF Arm, world, history
<1>3. watches' \in [Items -> Option(Watch)]
  <2>1. NewWatch \in Watch
    BY DEF NewWatch, Watch
  <2> QED
    BY <1>1, <1>2, <2>1, OptionIntro DEF TypeOK
<1>4. TypeOK'
  BY <1>1, <1>2, <1>3 DEF TypeOK
<1>5. /\ task'[i] = "none" /\ watches'[i] # {}
      /\ \A j \in Items \ {i} : task'[j] = task[j] /\ watches'[j] = watches[j]
  BY <1>1, <1>2 DEF TypeOK
<1>6. Once'
  BY <1>1, <1>2, <1>5, StillOnce DEF Inv, In
<1>7. SlotHasOneReleaser'
  BY <1>1, <1>2, <1>5 DEF Inv, SlotHasOneReleaser, In
<1>8. SlotsBounded' /\ Allowed' /\ AcceptedSurvives'
  BY <1>1, <1>2 DEF Inv, SlotsBounded, Running, OfKind, Having, In, Allowed, AcceptedSurvives
<1>9. NoneStarts
  BY <1>1, OneState DEF NoneStarts
<1> QED
  BY <1>4, <1>6, <1>7, <1>8, <1>9 DEF Inv

(* recover: nothing runs, what was queued on disk is queued, what ran has   *)
(* an unknown outcome.                                                     *)
LEMMA RecoveredFacts ==
    ASSUME TypeOK, NEW its \in Table, NEW rec, rec = Recovered(its)
    PROVE  /\ rec \in Table
           /\ \A i \in Items :
                 /\ ~In(rec, i, {"running"})
                 /\ In(rec, i, {"queued"}) <=> In(its, i, {"queued"})
                 /\ In(its, i, {"running"}) => In(rec, i, Terminal)
<1> DEFINE f(x) == IF x.state = "running"
                   THEN [x EXCEPT !.state = "unknown", !.finished = clock,
                                  !.updated = clock, !.wait = NoWait]
                   ELSE x
<1>1. ASSUME NEW x \in Item
      PROVE  /\ f(x) \in Item
             /\ f(x).state = IF x.state = "running" THEN "unknown" ELSE x.state
  <2>1. "unknown" \in States /\ clock \in Nat /\ NoWait \in Waits
    BY DEF States, Terminal, Waits, TypeOK
  <2>2. [x EXCEPT !.state = "unknown", !.finished = clock, !.updated = clock, !.wait = NoWait]
            \in {z \in Item : z.state = "unknown" /\ z.kind = x.kind}
    BY <2>1, ChangeEnd
  <2> QED
    BY <2>2
<1>2. rec = [i \in Items |-> {f(x) : x \in its[i]}]
  BY DEF Recovered
<1> HIDE DEF f
<1>3. \A i \in Items : its[i] = {} \/ \E x \in Item : its[i] = {x} /\ rec[i] = {f(x)}
  BY <1>2, OptionElim DEF Table
<1>4. \A i \in Items : its[i] = {} => rec[i] = {}
  BY <1>2
<1>5. rec \in Table
  <2>1. \A i \in Items : rec[i] \in Option(Item)
    <3> SUFFICES ASSUME NEW i \in Items
                 PROVE  rec[i] \in Option(Item)
      OBVIOUS
    <3>1. CASE its[i] = {}
      BY <1>4, <3>1, OptionIntro
    <3>2. ASSUME NEW x \in Item, its[i] = {x}, rec[i] = {f(x)}
          PROVE  rec[i] \in Option(Item)
      BY <1>1, <3>2, OptionIntro
    <3> QED
      BY <1>3, <3>1, <3>2
  <2> QED
    BY <1>2, <2>1 DEF Table
<1>6. ASSUME NEW i \in Items
      PROVE  /\ ~In(rec, i, {"running"})
             /\ In(rec, i, {"queued"}) <=> In(its, i, {"queued"})
             /\ In(its, i, {"running"}) => In(rec, i, Terminal)
  BY <1>1, <1>3, <1>4 DEF In, Terminal
<1> QED
  BY <1>5, <1>6

(* A restart: no slot is held, and what never started may still start.     *)
LEMMA RestartInv ==
    ASSUME Inv, Restart
    PROVE  Inv' /\ NoneStarts
<1>1. TypeOK /\ disk \in Table
  BY DEF Inv, TypeOK, Table
<1>2. /\ items' = Recovered(disk) /\ disk' = items'
      /\ watches' = [i \in Items |-> {}] /\ pass' = {}
      /\ task' = [i \in Items |-> "none"] /\ rows' = [i \in Items |-> <<>>]
      /\ settled' = settled \cup Having(items', Terminal)
      /\ UNCHANGED <<limits, gate, agent, clock, launches, accepted, revoked, peak>>
  BY DEF Restart
<1>3. /\ items' \in Table
      /\ \A i \in Items :
            /\ ~In(items', i, {"running"})
            /\ In(items', i, {"queued"}) <=> In(disk, i, {"queued"})
            /\ In(disk, i, {"running"}) => In(items', i, Terminal)
  BY <1>1, <1>2, RecoveredFacts
<1>4. TypeOK'
  <2>1. spent' \in [crash : Nat, write : Nat, call : Nat, lag : Nat]
    <3>1. /\ spent \in [crash : Nat, write : Nat, call : Nat, lag : Nat]
          /\ spent' = [spent EXCEPT !.crash = spent.crash + 1]
      BY <1>1 DEF Restart, TypeOK
    <3>2. spent.crash + 1 \in Nat
      BY <3>1
    <3> QED
      BY <3>1, <3>2
  <2>2. watches' \in [Items -> Option(Watch)] /\ pass' \in Option(Pass)
    BY <1>2, OptionIntro
  <2>3. rows' \in [Items -> Seq(AgentState)]
    BY <1>2
  <2>4. settled' \subseteq Items
    BY <1>1, <1>2 DEF TypeOK, Having
  <2> QED
    BY <1>1, <1>2, <1>3, <2>1, <2>2, <2>3, <2>4 DEF TypeOK, Table, Pass
<1>5. SlotsBounded'
  <2>1. \A k \in Kinds : OfKind(items', {"running"}, k) \subseteq OfKind(items, {"running"}, k)
    BY <1>3 DEF OfKind, Having
  <2>2. \A k \in Kinds : peak'[k] \in Nat /\ peak[k] <= peak'[k]
    BY <1>1, <1>2 DEF TypeOK
  <2> QED
    BY <1>3, <2>1, <2>2, StillBounded
<1>6. Once'
  <2>1. \A i \in Items : In(items', i, {"queued"}) \/ In(disk', i, {"queued"}) => In(disk, i, {"queued"})
    BY <1>2, <1>3
  <2> QED
    BY <1>2, <2>1, StillOnce DEF Inv
<1>7. SlotHasOneReleaser'
  BY <1>2, <1>3 DEF SlotHasOneReleaser
<1>8. AcceptedSurvives'
  <2> SUFFICES ASSUME NEW i \in accepted, i \notin settled'
               PROVE  In(items', i, {"queued", "running"})
    BY <1>2 DEF AcceptedSurvives
  <2>1. i \in Items /\ In(disk, i, {"queued", "running"})
    BY <1>1, <1>2 DEF Inv, AcceptedSurvives, TypeOK
  <2>2. In(items', i, {"queued"})
    BY <1>2, <1>3, <2>1 DEF Having, In
  <2> QED
    BY <2>2 DEF In
<1>9. Allowed' /\ NoneStarts
  BY <1>2, <1>3 DEF Inv, Allowed, NoneStarts
<1> QED
  BY <1>4, <1>5, <1>6, <1>7, <1>8, <1>9 DEF Inv

(* A new state of the watch of an item that is watched.                    *)
LEMMA WatchMoves ==
    ASSUME Inv, NEW i \in Items, NEW w \in watches[i], NEW v \in Watch,
           watches' = [watches EXCEPT ![i] = {v}]
    PROVE  /\ watches' \in [Items -> Option(Watch)]
           /\ \A j \in Items : watches'[j] = {} <=> watches[j] = {}
<1>1. watches \in [Items -> Option(Watch)]
  BY DEF Inv, TypeOK
<1>2. {v} \in Option(Watch)
  BY OptionIntro
<1> QED
  BY <1>1, <1>2

(* The watch of an item is one.                                            *)
LEMMA WatchType ==
    ASSUME Inv, NEW i \in Items, NEW w \in watches[i]
    PROVE  w \in Watch /\ w.seen \in BOOLEAN /\ w.strikes \in Nat
<1>1. watches[i] \in Option(Watch)
  BY DEF Inv, TypeOK
<1>2. w \in Watch
  BY <1>1, OptionElim
<1> QED
  BY <1>2 DEF Watch

(* A row of a session: it moves the watch, ends the item or is ignored.     *)
LEMMA ObserveInv ==
    ASSUME Inv, NEW i \in Items, Observe(i)
    PROVE  Inv' /\ NoneStarts
<1>1. TypeOK /\ task' = task
      /\ UNCHANGED <<limits, gate, pass, clock, agent>>
  BY DEF Inv, Observe
<1>2. rows' \in [Items -> Seq(AgentState)]
  <2>1. rows \in [Items -> Seq(AgentState)] /\ rows[i] # <<>> /\ rows' = [rows EXCEPT ![i] = Tail(rows[i])]
    BY <1>1 DEF TypeOK, Observe
  <2>2. Tail(rows[i]) \in Seq(AgentState)
    BY <2>1
  <2> QED
    BY <2>1, <2>2
<1>3. CASE UNCHANGED <<file, watches, history, spent>>
  <2>1. TypeOK' /\ Allowed' /\ \A k \in Kinds : peak[k] <= peak'[k]
    BY <1>1, <1>2, <1>3 DEF Inv, Allowed, TypeOK, file, history
  <2> QED
    BY <1>1, <1>3, <2>1, QuietInv DEF file, history
<1>4. ASSUME NEW w \in watches[i],
             watches' = [watches EXCEPT ![i] = {[seen |-> TRUE, strikes |-> 0]}],
             UNCHANGED <<file, history, spent>>
      PROVE  Inv' /\ NoneStarts
  <2>1. [seen |-> TRUE, strikes |-> 0] \in Watch
    BY DEF Watch
  <2>2. /\ watches' \in [Items -> Option(Watch)]
        /\ \A j \in Items : watches'[j] = {} <=> watches[j] = {}
    BY <1>4, <2>1, WatchMoves
  <2>3. TypeOK' /\ Allowed' /\ \A k \in Kinds : peak[k] <= peak'[k]
    BY <1>1, <1>2, <1>4, <2>2 DEF Inv, Allowed, TypeOK, file, history
  <2> QED
    BY <1>1, <1>4, <2>2, <2>3, QuietInv DEF file, history
<1>5. ASSUME NEW w \in watches[i], Finish(i)
      PROVE  Inv' /\ NoneStarts
  <2>1. task'[i] = "none" /\ task' \in [Items -> {"none", "starting", "executing", "arming"}]
    BY <1>1, <1>5 DEF Inv, SlotHasOneReleaser, TypeOK
  <2> QED
    BY <1>1, <1>2, <1>5, <2>1, EndsInv
<1>6. \A w \in watches[i] : [watches EXCEPT ![i] = watches[i]] = watches
  BY <1>1 DEF TypeOK
<1> QED
  BY <1>3, <1>4, <1>5, <1>6 DEF Observe

(* A re-check: it counts, or ends the item.                                *)
LEMMA RecheckInv ==
    ASSUME Inv, NEW i \in Items,
           Recheck(i) \/ RecheckUnanswered(i) \/ RecheckGivesUp(i)
    PROVE  Inv' /\ NoneStarts
<1>1. TypeOK /\ UNCHANGED <<task, pass, limits, gate, agent, rows, clock>>
  BY DEF Inv, Recheck, RecheckWith, RecheckUnanswered, RecheckGivesUp, world
<1>2. rows' \in [Items -> Seq(AgentState)]
  BY <1>1 DEF TypeOK
<1>3. ASSUME NEW w \in watches[i], NEW v \in Watch,
             watches' = [watches EXCEPT ![i] = {v}],
             spent' \in [crash : Nat, write : Nat, call : Nat, lag : Nat],
             UNCHANGED <<file, history>>
      PROVE  Inv' /\ NoneStarts
  <2>1. /\ watches' \in [Items -> Option(Watch)]
        /\ \A j \in Items : watches'[j] = {} <=> watches[j] = {}
    BY <1>3, WatchMoves
  <2>2. TypeOK' /\ Allowed' /\ \A k \in Kinds : peak[k] <= peak'[k]
    BY <1>1, <1>2, <1>3, <2>1 DEF Inv, Allowed, TypeOK, file, history
  <2> QED
    BY <1>1, <1>3, <2>1, <2>2, QuietInv DEF file, history
<1>4. ASSUME NEW w \in watches[i], Finish(i)
      PROVE  Inv' /\ NoneStarts
  <2>1. task'[i] = "none" /\ task' \in [Items -> {"none", "starting", "executing", "arming"}]
    BY <1>1, <1>4 DEF Inv, SlotHasOneReleaser, TypeOK
  <2> QED
    BY <1>1, <1>2, <1>4, <2>1, EndsInv
<1>5. CASE Recheck(i)
  <2>1. PICK w \in watches[i] :
            \/ Finish(i)
            \/ /\ watches' = [watches EXCEPT ![i] =
                      {[seen |-> w.seen \/ Classify(agent[i], w) = "working",
                        strikes |-> Struck(agent[i], w)]}]
               /\ UNCHANGED <<file, history, spent>>
    BY <1>5 DEF Recheck, RecheckWith
  <2> DEFINE b == w.seen \/ Classify(agent[i], w) = "working"
             n == Struck(agent[i], w)
  <2>2. b \in BOOLEAN /\ n \in Nat
    BY WatchType DEF Struck
  <2> HIDE DEF b, n
  <2>3. [seen |-> b, strikes |-> n] \in Watch
    BY <2>2 DEF Watch
  <2>4. UNCHANGED spent => spent' \in [crash : Nat, write : Nat, call : Nat, lag : Nat]
    BY <1>1 DEF TypeOK
  <2> QED
    BY <1>3, <1>4, <2>1, <2>3, <2>4 DEF b, n
<1>6. CASE RecheckUnanswered(i)
  <2>1. PICK w \in watches[i] :
            /\ watches' = [watches EXCEPT ![i] = {[w EXCEPT !.strikes = w.strikes + 1]}]
            /\ spent' = [spent EXCEPT !.call = spent.call + 1]
    BY <1>6 DEF RecheckUnanswered
  <2>2. [w EXCEPT !.strikes = w.strikes + 1] \in Watch
    BY WatchType DEF Watch
  <2>3. spent' \in [crash : Nat, write : Nat, call : Nat, lag : Nat]
    <3>1. spent \in [crash : Nat, write : Nat, call : Nat, lag : Nat]
      BY <1>1 DEF TypeOK
    <3>2. spent.call + 1 \in Nat
      BY <3>1
    <3> QED
      BY <2>1, <3>1, <3>2
  <2> QED
    BY <1>3, <1>6, <2>1, <2>2, <2>3 DEF RecheckUnanswered
<1>7. CASE RecheckGivesUp(i)
  BY <1>4, <1>7 DEF RecheckGivesUp
<1> QED
  BY <1>5, <1>6, <1>7

(* The end of a task ends its item.                                        *)
LEMMA TaskEndsInv ==
    ASSUME Inv, NEW i \in Items, TaskEnds(i)
    PROVE  Inv' /\ NoneStarts
<1>1. TypeOK /\ task[i] = "executing" /\ task' = [task EXCEPT ![i] = "none"] /\ Finish(i)
      /\ UNCHANGED <<limits, gate, pass, clock, agent, rows>>
  BY DEF Inv, TaskEnds, world
<1>2. rows' \in [Items -> Seq(AgentState)]
      /\ task' \in [Items -> {"none", "starting", "executing", "arming"}]
      /\ task'[i] = "none" /\ \A j \in Items \ {i} : task'[j] = task[j]
  BY <1>1 DEF TypeOK
<1> QED
  BY <1>1, <1>2, EndsInv

(* The calls and samples of the loop that leave the items alone.           *)
LEMMA LoopQuietInv ==
    ASSUME Inv,
           \/ \E choice \in LimitChoices : SetConfig(choice)
           \/ \E open \in GateStates : Sample(open)
           \/ PassBegins \/ LoseRows
    PROVE  Inv' /\ NoneStarts
<1> DEFINE Quiet == UNCHANGED <<items, disk, task, watches, launches, accepted, revoked, settled>>
<1>1. TypeOK
  BY DEF Inv
<1>2. ASSUME NEW choice \in LimitChoices, SetConfig(choice)
      PROVE  TypeOK' /\ Allowed' /\ (\A k \in Kinds : peak[k] <= peak'[k]) /\ Quiet
  <2>1. choice \in [Kinds -> Nat] /\ limits' = choice
    BY <1>2, LimitsAssumption DEF SetConfig
  <2>2. /\ peak' = [k \in Kinds |-> IF choice[k] > peak[k] THEN choice[k] ELSE peak[k]]
        /\ UNCHANGED <<file, watches, pass, task, gate, agent, rows, clock, launches,
                       accepted, revoked, settled, spent>>
    BY <1>2 DEF SetConfig
  <2>3. /\ peak' \in [Kinds -> Nat]
        /\ \A k \in Kinds : peak[k] <= peak'[k] /\ choice[k] <= peak'[k]
                            /\ peak[k] \in Nat /\ peak'[k] \in Nat
    BY <1>1, <2>1, <2>2 DEF TypeOK
  <2>4. TypeOK' /\ Quiet
    BY <1>1, <2>1, <2>2, <2>3 DEF TypeOK, file
  <2>5. \A k \in Kinds : \A p \in pass : p.limits[k] \in Nat
    <3>1. pass \in Option(Pass)
      BY <1>1 DEF TypeOK, Pass
    <3>2. \A p \in pass : p \in Pass
      BY <3>1, OptionElim
    <3> QED
      BY <3>2 DEF Pass
  <2>6. Allowed'
    BY <2>1, <2>2, <2>3, <2>5 DEF Inv, Allowed
  <2> QED
    BY <2>3, <2>4, <2>6
<1>3. \A k \in Kinds : peak[k] <= peak[k]
  BY <1>1 DEF TypeOK
<1>4. ASSUME NEW open \in GateStates, Sample(open)
      PROVE  TypeOK' /\ Allowed' /\ (\A k \in Kinds : peak[k] <= peak'[k]) /\ Quiet
  <2>1. open \in BOOLEAN
    BY GateAssumption
  <2> QED
    BY <1>1, <1>3, <1>4, <2>1 DEF Sample, Inv, Allowed, TypeOK, file, history
<1>5. CASE PassBegins
  <2>1. pass' = {[limits |-> limits, gate |-> gate]}
        /\ UNCHANGED <<file, watches, task, world, history, spent>>
    BY <1>5 DEF PassBegins
  <2>2. [limits |-> limits, gate |-> gate] \in Pass
    BY <1>1 DEF TypeOK, Pass
  <2>3. pass' \in Option(Pass)
    BY <2>1, <2>2, OptionIntro
  <2>4. TypeOK' /\ Quiet
    BY <1>1, <2>1, <2>3 DEF TypeOK, file, world, history, Pass
  <2>5. Allowed' /\ \A k \in Kinds : peak[k] <= peak'[k]
    BY <1>3, <2>1 DEF Inv, Allowed, world, history
  <2> QED
    BY <2>4, <2>5, QuietInv
<1>6. CASE LoseRows
  <2>1. /\ rows' = [i \in Items |-> <<>>]
        /\ spent' = [spent EXCEPT !.lag = spent.lag + 1]
        /\ UNCHANGED <<file, watches, pass, task, limits, gate, agent, clock, history>>
    BY <1>6 DEF LoseRows
  <2>2. spent' \in [crash : Nat, write : Nat, call : Nat, lag : Nat]
    <3>1. spent \in [crash : Nat, write : Nat, call : Nat, lag : Nat]
      BY <1>1 DEF TypeOK
    <3>2. spent.lag + 1 \in Nat
      BY <3>1
    <3> QED
      BY <2>1, <3>1, <3>2
  <2>3. rows' \in [Items -> Seq(AgentState)]
    BY <2>1
  <2>4. TypeOK' /\ Quiet
    BY <1>1, <2>1, <2>2, <2>3 DEF TypeOK, file, history
  <2>5. Allowed' /\ \A k \in Kinds : peak[k] <= peak'[k]
    BY <1>3, <2>1 DEF Inv, Allowed, history
  <2> QED
    BY <2>4, <2>5, QuietInv
<1> QED
  BY <1>2, <1>4, <1>5, <1>6, QuietInv

(* The agents and time leave the queue alone.                              *)
LEMMA EnvironmentInv ==
    ASSUME Inv,
           \/ TimePasses
           \/ \E i \in Items : AgentStarts(i) \/ \E a \in AgentState : AgentMoves(i, a)
           \/ UNCHANGED vars
    PROVE  Inv' /\ NoneStarts
<1>1. TypeOK /\ \A k \in Kinds : peak[k] <= peak[k]
  BY DEF Inv, TypeOK
<1>2. UNCHANGED <<file, watches, pass, task, limits, gate, history, spent>>
  BY DEF TimePasses, AgentStarts, AgentMoves, vars, file, history
<1>3. clock' \in Nat
  BY <1>1 DEF TypeOK, TimePasses, AgentStarts, AgentMoves, vars
<1>4. agent' \in [Items -> AgentState]
  <2>1. agent \in [Items -> AgentState] /\ "starting" \in AgentState
    BY <1>1 DEF TypeOK, AgentState
  <2>2. \/ UNCHANGED agent
        \/ \E i \in Items : \E a \in AgentState : agent' = [agent EXCEPT ![i] = a]
    BY <2>1 DEF TimePasses, AgentStarts, AgentMoves, vars
  <2> QED
    BY <2>1, <2>2
<1>5. rows' \in [Items -> Seq(AgentState)]
  <2>1. CASE UNCHANGED rows
    BY <1>1, <2>1 DEF TypeOK
  <2>2. ASSUME NEW i \in Items, NEW a \in AgentState,
               rows' = [rows EXCEPT ![i] = IF a = "gone" THEN rows[i] ELSE Append(rows[i], a)]
        PROVE  rows' \in [Items -> Seq(AgentState)]
    <3>1. rows \in [Items -> Seq(AgentState)]
      BY <1>1 DEF TypeOK
    <3>2. (IF a = "gone" THEN rows[i] ELSE Append(rows[i], a)) \in Seq(AgentState)
      BY <3>1
    <3> QED
      BY <2>2, <3>1, <3>2
  <2> QED
    BY <2>1, <2>2 DEF TimePasses, AgentStarts, AgentMoves, vars
<1>6. TypeOK' /\ Allowed'
  BY <1>1, <1>2, <1>3, <1>4, <1>5 DEF Inv, Allowed, TypeOK, file, history
<1> QED
  BY <1>1, <1>2, <1>6, QuietInv DEF file, history

-----------------------------------------------------------------------------
(* The theorems                                                            *)

(* The initial states.                                                     *)
LEMMA InitInv == Init => Inv
<1> SUFFICES ASSUME Init PROVE Inv
  OBVIOUS
<1>1. TypeOK
  <2>1. {} \in Option(Item) /\ {} \in Option(Watch) /\ {} \in Option(Pass)
    BY OptionIntro
  <2>2. gate \in BOOLEAN /\ limits \in [Kinds -> Nat] /\ peak \in [Kinds -> Nat]
    BY GateAssumption, LimitsAssumption DEF Init
  <2>3. rows \in [Items -> Seq(AgentState)] /\ agent \in [Items -> AgentState]
    BY DEF Init, AgentState
  <2> QED
    BY <2>1, <2>2, <2>3 DEF Init, TypeOK, Pass
<1>2. \A i \in Items : \A S : ~In(items, i, S) /\ ~In(disk, i, S)
  BY DEF Init, In
<1>3. Once /\ SlotHasOneReleaser /\ AcceptedSurvives
  BY <1>2 DEF Init, Once, SlotHasOneReleaser, AcceptedSurvives
<1>4. Allowed
  BY <1>1 DEF Init, Allowed, TypeOK
<1>5. SlotsBounded
  <2>1. \A k \in Kinds : OfKind(items, {"running"}, k) = {}
    BY <1>2 DEF OfKind, Having
  <2>2. \A k \in Kinds : Running(k) = 0
    BY <2>1, FS_EmptySet DEF Running
  <2>3. \A k \in Kinds : peak[k] \in Nat
    BY <1>1 DEF TypeOK
  <2> QED
    BY <2>2, <2>3 DEF SlotsBounded
<1> QED
  BY <1>1, <1>3, <1>4, <1>5 DEF Inv

(* A queued item starts in an admission pass and in no other step.         *)
AdmissionStarts == NoneStarts \/ \E p \in pass : p \in Pass /\ items' = Admitted(items, p)

(* Every step keeps the invariant.                                         *)
LEMMA StepInv ==
    ASSUME Inv, [Next]_vars
    PROVE  Inv' /\ AdmissionStarts
<1> USE DEF AdmissionStarts
<1>1. ASSUME NEW i \in Items, NEW k \in Kinds, NEW p \in Priorities, NEW c \in Callers,
             SubmitLocal(i, k, p, c)
      PROVE  Inv' /\ AdmissionStarts
  BY <1>1, SubmitInv
<1>2. ASSUME NEW i \in Items, NEW c \in Callers, Cancel(i, c)
      PROVE  Inv' /\ AdmissionStarts
  BY <1>2, CancelInv
<1>3. CASE \/ \E choice \in LimitChoices : SetConfig(choice)
           \/ \E open \in GateStates : Sample(open)
           \/ PassBegins \/ LoseRows
  BY <1>3, LoopQuietInv
<1>4. CASE Admit
  BY <1>4, AdmitInv
<1>5. ASSUME NEW i \in Items,
             \/ Launch(i) \/ TaskEnds(i) \/ Attach(i) \/ Arm(i) \/ Observe(i)
             \/ Recheck(i) \/ RecheckUnanswered(i) \/ RecheckGivesUp(i)
      PROVE  Inv' /\ AdmissionStarts
  BY <1>5, LaunchInv, TaskEndsInv, AttachInv, ArmInv, ObserveInv, RecheckInv
<1>6. CASE Restart
  BY <1>6, RestartInv
<1>7. CASE \/ TimePasses
           \/ \E i \in Items : AgentStarts(i) \/ \E a \in AgentState : AgentMoves(i, a)
           \/ UNCHANGED vars
  BY <1>7, EnvironmentInv
<1> QED
  BY <1>1, <1>2, <1>3, <1>4, <1>5, <1>6, <1>7 DEF Next, Calls, Loop, Environment

(* The conjunction holds of every reachable state.                         *)
THEOREM Invariance == Spec => []Inv
<1>1. Inv /\ [Next]_vars => Inv'
  BY StepInv
<1> QED
  BY InitInv, <1>1, PTL DEF Spec

(* Work is started at most once, across crashes and refused writes, and     *)
(* never for an item that was refused or cancelled.                        *)
THEOREM NeverStartsTwice == Spec => []StartsOnce
<1>1. Inv => StartsOnce
  BY DEF Inv, Once, StartsOnce
<1> QED
  BY <1>1, Invariance, PTL

(* An accepted item stays in the queue and its file until it is settled.    *)
THEOREM AcceptedIsNotLost == Spec => []AcceptedSurvives
<1>1. Inv => AcceptedSurvives
  BY DEF Inv
<1> QED
  BY <1>1, Invariance, PTL

(* Slots: no more are held than the owner ever allowed, and each has one    *)
(* releaser.                                                               *)
THEOREM SlotsAreAccounted == Spec => []SlotsAccounted
<1>1. Inv => SlotsAccounted
  BY DEF Inv, SlotsAccounted
<1> QED
  BY <1>1, Invariance, PTL

(* Admission passes no item over.                                          *)
THEOREM AdmissionInOrder == Spec => AdmitsInOrder
<1> DEFINE Ordered ==
        \A i, j \in Items :
            /\ \E k \in Kinds : {i, j} \subseteq OfKind(items, {"queued"}, k)
            /\ Precedes(items, j, i)
            /\ In(items', i, {"running"})
            => In(items', j, {"running"})
<1>1. Inv /\ [Next]_vars => [Ordered]_vars
  <2> SUFFICES ASSUME Inv, [Next]_vars, NEW i \in Items, NEW j \in Items, NEW k \in Kinds,
                      i \in OfKind(items, {"queued"}, k), j \in OfKind(items, {"queued"}, k),
                      Precedes(items, j, i), In(items', i, {"running"})
               PROVE  In(items', j, {"running"})
    OBVIOUS
  <2>1. TypeOK /\ items \in Table /\ AdmissionStarts
    BY StepInv DEF Inv, TypeOK, Table
  <2>2. ~NoneStarts
    BY DEF NoneStarts, OfKind, Having
  <2>3. PICK p \in pass : p \in Pass /\ items' = Admitted(items, p)
    BY <2>1, <2>2 DEF AdmissionStarts
  <2>4. \A l \in Items : IF l \in Started(items, p)
            THEN In(items', l, {"running"})
            ELSE \A S : In(items', l, S) <=> In(items, l, S)
    BY <2>1, <2>3, AdmitFacts
  <2>5. i \in Started(items, p)
    <3>1. ~In(items, i, {"running"})
      BY <2>1, OneState DEF OfKind, Having
    <3> QED
      BY <2>4, <3>1
  <2>6. i \in Starts(items, p, k)
    <3>1. PICK l \in Kinds : i \in Starts(items, p, l)
      BY <2>5 DEF Started
    <3>2. i \in OfKind(items, {"queued"}, l)
      BY <2>1, <3>1, StartsFacts
    <3>3. l = k
      BY <2>1, <3>2, OfKindFacts
    <3> QED
      BY <3>1, <3>3
  <2>7. j \in Starts(items, p, k)
    BY <2>1, <2>3, <2>6, StartsClosed
  <2> QED
    BY <2>4, <2>7 DEF Started
<1> QED
  BY Invariance, <1>1, PTL DEF Spec, AdmitsInOrder

=============================================================================

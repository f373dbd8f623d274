----------------------------- MODULE JobsProofs -----------------------------
(***************************************************************************)
(* Proofs about Jobs: its types and timetable, that runs and items of a    *)
(* job never overlap, that nothing runs unapproved, and, while the file can *)
(* be written, that a once trigger fires once and that the schedule obeys   *)
(* the owner.                                                              *)
(***************************************************************************)
EXTENDS Jobs, FiniteSetTheorems, TLAPS

-----------------------------------------------------------------------------
(* Options, rows and the timetable                                         *)

LEMMA OptionMade ==
    ASSUME NEW S, NEW x \in S
    PROVE  {x} \in Option(S) /\ {} \in Option(S)
  BY DEF Option

LEMMA OptionFacts ==
    ASSUME NEW S, NEW X \in Option(S), NEW x \in X
    PROVE  x \in S /\ X = {x} /\ (CHOOSE y \in X : TRUE) = x
<1>1. X \subseteq S /\ \A y, z \in X : y = z
  BY DEF Option
<1>2. X = {x}
  BY <1>1
<1>3. (CHOOSE y \in X : TRUE) \in X
  BY <1>2
<1> QED
  BY <1>1, <1>2, <1>3

LEMMA RowTypes == Rows \subseteq Job /\ Proposals \subseteq Job
<1>1. {} \in Option(JobIds)
  BY DEF Option
<1> QED
  BY <1>1, TriggersAssumption, HostsAssumption DEF Rows, Proposals, Job

(* The rows that have a next run.                                          *)
Scheduled(x) == x.enabled /\ ~x.proposal /\ x.trigger.kind # "manual"

LEMMA RescheduledFacts ==
    ASSUME clock \in Nat, NEW x \in Job
    PROVE  /\ Rescheduled(x) \in Option(Nat)
           /\ Rescheduled(x) # {} <=> Scheduled(x)
<1>1. /\ x.trigger.kind \in {"interval", "once", "manual"}
      /\ x.trigger.at \in Nat /\ x.enabled \in BOOLEAN /\ x.proposal \in BOOLEAN
  BY DEF Job, Trigger
<1>2. clock + Every \in Nat
  BY JobBoundsAssumption
<1>3. /\ {clock + Every} \in Option(Nat) /\ {x.trigger.at} \in Option(Nat)
      /\ {} \in Option(Nat)
  BY <1>1, <1>2, OptionMade
<1>4. CASE x.trigger.kind = "interval"
  BY <1>3, <1>4 DEF Rescheduled, NextRun, Scheduled
<1>5. CASE x.trigger.kind = "once"
  BY <1>3, <1>5 DEF Rescheduled, NextRun, Scheduled
<1>6. CASE x.trigger.kind = "manual"
  BY <1>3, <1>6 DEF Rescheduled, NextRun, Scheduled
<1> QED
  BY <1>1, <1>4, <1>5, <1>6

(* The next runs of all rows of an option.                                 *)
LEMMA RescheduledAll ==
    ASSUME clock \in Nat, NEW X \in Option(Job)
    PROVE  LET N == UNION {Rescheduled(x) : x \in X}
           IN  /\ N \in Option(Nat)
               /\ N # {} <=> \E x \in X : Scheduled(x)
<1> DEFINE N == UNION {Rescheduled(x) : x \in X}
<1>1. CASE X = {}
  <2>1. N = {}
    BY <1>1
  <2> QED
    BY <1>1, <2>1 DEF Option
<1>2. ASSUME NEW x \in X PROVE N = Rescheduled(x) /\ x \in Job /\ X = {x}
  <2>1. X = {x} /\ x \in Job
    BY OptionFacts
  <2> QED
    BY <2>1
<1> HIDE DEF N
<1>3. CASE X # {}
  <2>1. PICK x \in X : TRUE
    BY <1>3
  <2>2. N = Rescheduled(x) /\ x \in Job /\ X = {x}
    BY <1>2
  <2> QED
    BY <2>2, RescheduledFacts DEF N
<1> QED
  BY <1>1, <1>3

(* The timetable of a state follows its rows.                              *)
Timely(m) == \A j \in JobIds :
    m.next[j] # {} <=> \E x \in m.jobs[j] : Scheduled(x)

(* A state with one row and its next run replaced.                         *)
Replaced(m, j, J, N) == [m EXCEPT !.jobs[j] = J, !.next[j] = N]

LEMMA RowReplaced ==
    ASSUME NEW m \in Mem, NEW j \in JobIds, NEW J \in Option(Job),
           NEW N \in Option(Nat), Timely(m),
           N # {} <=> \E x \in J : Scheduled(x)
    PROVE  /\ Replaced(m, j, J, N) \in Mem /\ Timely(Replaced(m, j, J, N))
           /\ Replaced(m, j, J, N).jobs = [m.jobs EXCEPT ![j] = J]
<1> DEFINE n == Replaced(m, j, J, N)
<1>1. /\ m.jobs \in [JobIds -> Option(Job)]
      /\ m.next \in [JobIds -> Option(Nat)]
      /\ m.seen \in Option(Table) /\ m.stamp \in Option(Nat)
  BY DEF Mem, Table
<1> DEFINE a == [m EXCEPT !.jobs[j] = J]
<1>2. /\ a.jobs = [m.jobs EXCEPT ![j] = J] /\ a.next = m.next
      /\ a.seen = m.seen /\ a.stamp = m.stamp
      /\ a \in [jobs : Table, next : [JobIds -> Option(Nat)],
                seen : Option(Table), stamp : Option(Nat)]
  BY <1>1 DEF Mem, Table
<1>3. /\ n = [a EXCEPT !.next[j] = N]
      /\ [a.next EXCEPT ![j] = N] \in [JobIds -> Option(Nat)]
  BY <1>1, <1>2 DEF Replaced
<1> HIDE DEF n, a
<1>4. n \in Mem
  BY <1>2, <1>3 DEF Mem
<1>5. /\ n.jobs = [m.jobs EXCEPT ![j] = J]
      /\ n.next = [m.next EXCEPT ![j] = N]
  BY <1>1, <1>2, <1>3
<1>6. Timely(n)
  BY <1>1, <1>5 DEF Timely
<1> QED
  BY <1>4, <1>5, <1>6 DEF n

(* What a reload leaves: the state it found, or the rows of the file.      *)
LEMMA ReloadFacts ==
    ASSUME TypeOK
    PROVE  /\ Reloaded \in Mem
           /\ Timely(mem) => Timely(Reloaded)
           /\ Reloaded.jobs \in {mem.jobs, file.spec}
           /\ mem.seen = {file.spec} =>
                Reloaded.jobs = mem.jobs /\ Reloaded.seen = mem.seen
<1> DEFINE N == [j \in JobIds |->
              IF file.spec[j] = {} THEN {}
              ELSE LET x == CHOOSE x \in file.spec[j] : TRUE
                   IN  IF SameArming(mem.jobs[j], x) THEN mem.next[j]
                       ELSE Rescheduled(x)]
           R == [jobs |-> file.spec, next |-> N, seen |-> {file.spec},
                 stamp |-> {file.mtime}]
           S == [mem EXCEPT !.stamp = {file.mtime}]
<1>1. /\ mem \in Mem /\ file.spec \in Table /\ file.mtime \in Nat /\ clock \in Nat
      /\ mem.jobs \in Table /\ mem.next \in [JobIds -> Option(Nat)]
      /\ mem.seen \in Option(Table)
  BY DEF TypeOK, Mem, File
<1>2. /\ {file.mtime} \in Option(Nat) /\ {file.spec} \in Option(Table)
  BY <1>1, OptionMade
<1>3. /\ S \in Mem /\ S.jobs = mem.jobs /\ S.next = mem.next
      /\ S.seen = mem.seen
  BY <1>1, <1>2 DEF Mem
<1>4. Reloaded \in {mem, S} \/ (mem.seen # {file.spec} /\ Reloaded = R)
  BY DEF Reloaded
<1>5. ASSUME NEW j \in JobIds
      PROVE  /\ N[j] \in Option(Nat)
             /\ Timely(mem) =>
                  (N[j] # {} <=> \E x \in file.spec[j] : Scheduled(x))
  <2>1. file.spec[j] \in Option(Job) /\ mem.next[j] \in Option(Nat)
        /\ mem.jobs[j] \in Option(Job)
    BY <1>1 DEF Table
  <2>2. CASE file.spec[j] = {}
    BY <2>2 DEF Option
  <2>3. CASE file.spec[j] # {}
    <3>1. PICK x \in file.spec[j] : TRUE
      BY <2>3
    <3>2. /\ x \in Job /\ file.spec[j] = {x}
          /\ (CHOOSE y \in file.spec[j] : TRUE) = x
      BY <2>1, OptionFacts
    <3>3. N[j] = IF SameArming(mem.jobs[j], x) THEN mem.next[j] ELSE Rescheduled(x)
      BY <2>3, <3>2
    <3> HIDE DEF N
    <3>4. CASE ~SameArming(mem.jobs[j], x)
      BY <1>1, <3>2, <3>3, <3>4, RescheduledFacts
    <3>5. CASE SameArming(mem.jobs[j], x)
      <4>1. PICK y \in mem.jobs[j] : /\ y.enabled = x.enabled
                                     /\ y.proposal = x.proposal
                                     /\ y.trigger = x.trigger
        BY <3>5 DEF SameArming
      <4>2. mem.jobs[j] = {y}
        BY <2>1, OptionFacts
      <4>3. Scheduled(y) <=> Scheduled(x)
        BY <4>1 DEF Scheduled
      <4> QED
        BY <2>1, <3>2, <3>3, <3>5, <4>2, <4>3 DEF Timely
    <3> QED
      BY <3>4, <3>5
  <2> QED
    BY <2>2, <2>3
<1>6. N \in [JobIds -> Option(Nat)]
  BY <1>5
<1> HIDE DEF N
<1>7. R \in Mem /\ R.jobs = file.spec /\ R.next = N
  BY <1>1, <1>2, <1>6 DEF Mem
<1>8. Timely(mem) => Timely(S)
  BY <1>3 DEF Timely
<1>9. Timely(mem) => Timely(R)
  BY <1>5, <1>7 DEF Timely
<1> HIDE DEF R, S
<1> QED
  BY <1>1, <1>3, <1>4, <1>7, <1>8, <1>9

(* What a write leaves.                                                    *)
LEMMA PersistFacts ==
    ASSUME TypeOK, NEW m \in Mem, Persist(m)
    PROVE  /\ mem' \in Mem /\ file' \in File /\ refused' \in Nat
           /\ mem'.jobs = m.jobs /\ mem'.next = m.next
           /\ \/ /\ file'.spec = m.jobs /\ file'.readable
                 /\ mem'.seen = {m.jobs} /\ refused' = refused
              \/ mem' = m /\ file' = file /\ refused < MaxWriteFailures
<1>1. /\ m.jobs \in Table /\ clock \in Nat /\ refused \in Nat /\ file \in File
  BY DEF TypeOK, Mem
<1>2. CASE /\ file' = [spec |-> m.jobs, readable |-> TRUE, mtime |-> clock]
           /\ mem' = [m EXCEPT !.seen = {m.jobs}]
           /\ UNCHANGED refused
  <2>1. {m.jobs} \in Option(Table)
    BY <1>1, OptionMade
  <2>2. /\ mem' \in Mem /\ mem'.jobs = m.jobs /\ mem'.next = m.next
        /\ mem'.seen = {m.jobs}
    BY <1>2, <2>1 DEF Mem
  <2>3. file' \in File
    BY <1>1, <1>2 DEF File
  <2> QED
    BY <1>1, <1>2, <2>2, <2>3
<1>3. CASE /\ refused < MaxWriteFailures
           /\ refused' = refused + 1
           /\ mem' = m
           /\ UNCHANGED file
  BY <1>1, <1>3
<1> QED
  BY <1>2, <1>3 DEF Persist

-----------------------------------------------------------------------------
(* Calls that change the rows                                              *)

(* An armed once trigger.                                                  *)
Waits(x) == x.enabled /\ ~x.proposal /\ x.trigger.kind = "once"

(* A row the owner or an agent has just written: what is not proposed is   *)
(* approved, a once trigger is counted as armed, and a job is switched on  *)
(* by the owner's word or was so before.                                   *)
Entered(i, z) ==
    /\ z.proposal \/ z.action \in approved'
    /\ Waits(z) => armed'[i] = armed[i] + 1
    /\ z.enabled => \/ i \in on'
                    \/ (on' = on /\ \E x \in Reloaded.jobs[i] : x.enabled)

Stands(i, z) == z \in Reloaded.jobs[i] /\ (i \in on => i \in on')

(* What the history keeps through a call.                                  *)
HistoryGrows ==
    /\ armed' \in [JobIds -> Nat] /\ \A i \in JobIds : armed[i] <= armed'[i]
    /\ on' \subseteq JobIds
    /\ approved \subseteq approved' /\ approved' \subseteq Actions
    /\ UNCHANGED <<fired, launched, strayed>>

Counters == [call : Nat, edit : Nat, item : Nat, crash : Nat]

LEMMA CalledType ==
    ASSUME TypeOK, Called
    PROVE  spent' \in Counters
<1>1. spent \in [call : Nat, edit : Nat, item : Nat, crash : Nat]
  BY DEF TypeOK
<1>2. spent' = [spent EXCEPT !.call = @ + 1] /\ spent.call + 1 \in Nat
  BY <1>1 DEF Called
<1> QED
  BY <1>1, <1>2 DEF Counters

LEMMA StoresShape ==
    ASSUME TypeOK, NEW j \in JobIds, NEW x \in Job, Stores(j, x)
    PROVE  /\ HistoryGrows
           /\ x.proposal \/ x.action \in approved'
           /\ Waits(x) => armed'[j] = armed[j] + 1
           /\ x.enabled => j \in on'
           /\ \A i \in JobIds \ {j} : i \in on => i \in on'
<1>1. x.action \in Actions /\ armed \in [JobIds -> Nat] /\ on \subseteq JobIds
      /\ approved \subseteq Actions
  BY DEF TypeOK, Job
<1>2. /\ armed' = [armed EXCEPT ![j] = IF x.trigger.kind = "once" THEN @ + 1 ELSE @]
      /\ on' = IF x.enabled THEN on \cup {j} ELSE on \ {j}
      /\ approved' = IF x.proposal THEN approved ELSE approved \cup {x.action}
      /\ UNCHANGED <<fired, launched, strayed>>
  BY DEF Stores
<1>3. armed' \in [JobIds -> Nat] /\ \A i \in JobIds : armed[i] <= armed'[i]
  BY <1>1, <1>2
<1>4. Waits(x) => armed'[j] = armed[j] + 1
  BY <1>1, <1>2 DEF Waits
<1> QED
  BY <1>1, <1>2, <1>3, <1>4 DEF HistoryGrows

(* A call that writes one row.                                             *)
LEMMA WriteShape ==
    ASSUME TypeOK, Timely(mem), NEW j \in JobIds, NEW x \in Job,
           Persist([Reloaded EXCEPT !.jobs[j] = {x}, !.next[j] = Rescheduled(x)])
    PROVE  \E m \in Mem :
             /\ Persist(m) /\ Timely(m)
             /\ \A i \in JobIds : \A z \in m.jobs[i] :
                  (i = j /\ z = x) \/ (i # j /\ z \in Reloaded.jobs[i])
<1> DEFINE J == {x}
           n == Replaced(Reloaded, j, J, Rescheduled(x))
<1>1. Reloaded \in Mem /\ Timely(Reloaded) /\ clock \in Nat
  BY ReloadFacts DEF TypeOK
<1>2. /\ J \in Option(Job) /\ Rescheduled(x) \in Option(Nat)
      /\ Rescheduled(x) # {} <=> \E z \in J : Scheduled(z)
  BY <1>1, OptionMade, RescheduledFacts
<1>3. Persist(n)
  BY DEF Replaced
<1> HIDE DEF J
<1>4. /\ n \in Mem /\ Timely(n) /\ n.jobs = [Reloaded.jobs EXCEPT ![j] = J]
  BY <1>1, <1>2, RowReplaced
<1> HIDE DEF n
<1>5. Reloaded.jobs \in [JobIds -> Option(Job)]
  BY <1>1 DEF Mem, Table
<1> QED
  BY <1>3, <1>4, <1>5 DEF J

(* What a call that changes rows does to them and to the history.          *)
ChangesRows(m) ==
    /\ Persist(m) /\ Timely(m)
    /\ \A i \in JobIds : \A z \in m.jobs[i] : Entered(i, z) \/ Stands(i, z)

LEMMA UpsertShape ==
    ASSUME TypeOK, Timely(mem), NEW j \in JobIds, NEW x \in Rows, Upsert(j, x)
    PROVE  HistoryGrows /\ \E m \in Mem : ChangesRows(m)
<1>1. x \in Job
  BY RowTypes
<1>2. PICK m \in Mem :
        /\ Persist(m) /\ Timely(m)
        /\ \A i \in JobIds : \A z \in m.jobs[i] :
             (i = j /\ z = x) \/ (i # j /\ z \in Reloaded.jobs[i])
  BY <1>1, WriteShape DEF Upsert
<1>3. /\ HistoryGrows
      /\ x.proposal \/ x.action \in approved'
      /\ Waits(x) => armed'[j] = armed[j] + 1
      /\ x.enabled => j \in on'
      /\ \A i \in JobIds \ {j} : i \in on => i \in on'
  BY <1>1, StoresShape DEF Upsert
<1>4. Entered(j, x)
  BY <1>3 DEF Entered
<1>5. \A i \in JobIds : \A z \in m.jobs[i] : Entered(i, z) \/ Stands(i, z)
  BY <1>2, <1>3, <1>4 DEF Stands
<1> QED
  BY <1>2, <1>3, <1>5 DEF ChangesRows

LEMMA ProposeShape ==
    ASSUME TypeOK, Timely(mem), NEW j \in JobIds, NEW x \in Proposals,
           Propose(j, x)
    PROVE  HistoryGrows /\ \E m \in Mem : ChangesRows(m)
<1>1. x \in Job /\ x.proposal /\ ~x.enabled
  BY RowTypes DEF Propose
<1>2. PICK m \in Mem :
        /\ Persist(m) /\ Timely(m)
        /\ \A i \in JobIds : \A z \in m.jobs[i] :
             (i = j /\ z = x) \/ (i # j /\ z \in Reloaded.jobs[i])
  BY <1>1, WriteShape DEF Propose
<1>3. UNCHANGED history
  BY DEF Propose
<1>4. HistoryGrows
  BY <1>3 DEF HistoryGrows, history, TypeOK
<1>5. Entered(j, x)
  BY <1>1 DEF Entered, Waits
<1>6. \A i \in JobIds : \A z \in m.jobs[i] : Entered(i, z) \/ Stands(i, z)
  BY <1>2, <1>3, <1>5 DEF Stands, history
<1> QED
  BY <1>2, <1>4, <1>6 DEF ChangesRows

LEMMA ApproveShape ==
    ASSUME TypeOK, Timely(mem), NEW p \in JobIds, Approve(p)
    PROVE  HistoryGrows /\ \E m \in Mem : ChangesRows(m)
<1> DEFINE R == Reloaded
<1>1. R \in Mem /\ Timely(R) /\ clock \in Nat
  BY ReloadFacts DEF TypeOK
<1>2. /\ R.jobs \in [JobIds -> Option(Job)]
      /\ R.next \in [JobIds -> Option(Nat)]
  BY <1>1 DEF Mem, Table
<1>3. PICK y, t :
        /\ y \in R.jobs[p] /\ t \in y.replaces /\ y.proposal /\ Live(R, t)
        /\ LET z == Changed(CHOOSE x \in R.jobs[t] : TRUE, y)
           IN  Persist([R EXCEPT !.jobs[t] = {z}, !.jobs[p] = {},
                                 !.next[p] = {}, !.next[t] = Rescheduled(z)])
        /\ armed' = [armed EXCEPT ![t] =
                       IF y.trigger.kind = "once" THEN @ + 1 ELSE @]
        /\ approved' = approved \cup {y.action}
  BY DEF Approve
<1>4. y \in Job /\ R.jobs[p] = {y}
  BY <1>2, <1>3, OptionFacts
<1>5. t \in JobIds
  BY <1>3, <1>4 DEF Job, Option
<1>6. PICK x \in R.jobs[t] : ~x.proposal
  BY <1>3 DEF Live
<1>7. x \in Job /\ R.jobs[t] = {x} /\ (CHOOSE w \in R.jobs[t] : TRUE) = x
  BY <1>2, <1>5, <1>6, OptionFacts
<1> DEFINE z == Changed(x, y)
<1>8. /\ z \in Job /\ ~z.proposal /\ z.enabled = x.enabled
      /\ z.action = y.action /\ z.trigger = y.trigger
  BY <1>4, <1>6, <1>7 DEF Changed, Job
<1> HIDE DEF z, R
<1>9. p # t
  BY <1>3, <1>4, <1>6, <1>7
<1> DEFINE m == [R EXCEPT !.jobs[t] = {z}, !.jobs[p] = {}, !.next[p] = {},
                          !.next[t] = Rescheduled(z)]
           J == [[R.jobs EXCEPT ![t] = {z}] EXCEPT ![p] = {}]
           N == [[R.next EXCEPT ![p] = {}] EXCEPT ![t] = Rescheduled(z)]
<1>10. Persist(m)
  BY <1>3, <1>7 DEF z
<1>11. /\ {z} \in Option(Job) /\ {} \in Option(Job) /\ {} \in Option(Nat)
       /\ Rescheduled(z) \in Option(Nat)
       /\ Rescheduled(z) # {} <=> Scheduled(z)
  BY <1>1, <1>8, OptionMade, RescheduledFacts DEF Option
<1>12. J \in [JobIds -> Option(Job)] /\ N \in [JobIds -> Option(Nat)]
  BY <1>2, <1>5, <1>11
<1>13. m \in Mem /\ m.jobs = J /\ m.next = N
  <2> DEFINE a == [R EXCEPT !.jobs[t] = {z}]
             b == [a EXCEPT !.jobs[p] = {}]
             c == [b EXCEPT !.next[p] = {}]
  <2>1. /\ a \in Mem /\ a.jobs = [R.jobs EXCEPT ![t] = {z}] /\ a.next = R.next
    BY <1>1, <1>5, <1>2, <1>11 DEF Mem, Table
  <2> HIDE DEF a
  <2>2. /\ b \in Mem /\ b.jobs = J /\ b.next = R.next
    BY <1>12, <2>1 DEF Mem, Table
  <2> HIDE DEF b
  <2>3. /\ c \in Mem /\ c.jobs = J /\ c.next = [R.next EXCEPT ![p] = {}]
    BY <1>2, <1>11, <2>2 DEF Mem, Table
  <2> HIDE DEF c, J
  <2>4. [c EXCEPT !.next[t] = Rescheduled(z)] \in Mem
    BY <1>12, <2>3 DEF Mem
  <2>5. m = [c EXCEPT !.next[t] = Rescheduled(z)]
    BY DEF a, b, c
  <2>6. /\ [c EXCEPT !.next[t] = Rescheduled(z)].jobs = J
        /\ [c EXCEPT !.next[t] = Rescheduled(z)].next = N
    BY <2>3 DEF Mem
  <2> QED
    BY <2>4, <2>5, <2>6
<1> HIDE DEF m
<1>14. /\ J[t] = {z} /\ J[p] = {} /\ N[p] = {} /\ N[t] = Rescheduled(z)
       /\ \A i \in JobIds \ {p, t} : J[i] = R.jobs[i] /\ N[i] = R.next[i]
  BY <1>2, <1>5, <1>9, <1>12
<1> HIDE DEF J, N
<1>15. Timely(m)
  BY <1>1, <1>5, <1>11, <1>13, <1>14 DEF Timely
<1>16. UNCHANGED <<fired, on, launched, strayed>>
  BY DEF Approve
<1>17. HistoryGrows
  <2>1. armed \in [JobIds -> Nat] /\ on \subseteq JobIds /\ approved \subseteq Actions
    BY DEF TypeOK
  <2>2. y.action \in Actions
    BY <1>4 DEF Job
  <2>3. armed' \in [JobIds -> Nat] /\ \A i \in JobIds : armed[i] <= armed'[i]
    BY <1>3, <1>5, <2>1
  <2> QED
    BY <1>3, <1>16, <2>1, <2>2, <2>3 DEF HistoryGrows
<1>18. Entered(t, z)
  <2>1. z.action \in approved'
    BY <1>3, <1>8
  <2>2. Waits(z) => armed'[t] = armed[t] + 1
    <3>1. armed \in [JobIds -> Nat]
      BY DEF TypeOK
    <3> QED
      BY <1>3, <1>5, <1>8, <3>1 DEF Waits
  <2>3. z.enabled => on' = on /\ \E w \in Reloaded.jobs[t] : w.enabled
    BY <1>6, <1>8, <1>16 DEF R
  <2> QED
    BY <2>1, <2>2, <2>3 DEF Entered
<1>19. \A i \in JobIds : \A w \in m.jobs[i] : Entered(i, w) \/ Stands(i, w)
  BY <1>13, <1>14, <1>16, <1>18 DEF Stands, R
<1> QED
  BY <1>10, <1>13, <1>15, <1>17, <1>19 DEF ChangesRows

LEMMA RemoveShape ==
    ASSUME TypeOK, Timely(mem), NEW j \in JobIds, Remove(j)
    PROVE  HistoryGrows /\ \E m \in Mem : ChangesRows(m)
<1> DEFINE R == Reloaded
<1>1. R \in Mem /\ Timely(R)
  BY ReloadFacts
<1>2. /\ R.jobs \in [JobIds -> Option(Job)]
      /\ R.next \in [JobIds -> Option(Nat)]
  BY <1>1 DEF Mem, Table
<1> HIDE DEF R
<1> DEFINE Gone(i) == i = j \/ \E x \in R.jobs[i] : x.proposal /\ j \in x.replaces
           J == [i \in JobIds |-> IF Gone(i) THEN {} ELSE R.jobs[i]]
           N == [R.next EXCEPT ![j] = {}]
           m == [R EXCEPT !.next[j] = {}, !.jobs = J]
<1>3. Persist(m)
  BY DEF Remove, R
<1>4. {} \in Option(Job) /\ {} \in Option(Nat)
  BY DEF Option
<1>5. J \in Table /\ N \in [JobIds -> Option(Nat)]
  BY <1>2, <1>4 DEF Table
<1>6. \A i \in JobIds : J[i] \subseteq R.jobs[i]
  BY <1>2
<1>7. \A i \in JobIds : J[i] = R.jobs[i] \/ \A x \in R.jobs[i] : i = j \/ x.proposal
  <2> SUFFICES ASSUME NEW i \in JobIds, Gone(i), i # j, NEW x \in R.jobs[i]
               PROVE  x.proposal
    OBVIOUS
  <2>1. R.jobs[i] = {x}
    BY <1>2, OptionFacts
  <2> QED
    BY <2>1
<1>8. J[j] = {}
  OBVIOUS
<1> HIDE DEF J
<1>9. m \in Mem /\ m.jobs = J /\ m.next = N
  BY <1>1, <1>2, <1>5 DEF Mem
<1> HIDE DEF m
<1>10. Timely(m)
  <2> SUFFICES ASSUME NEW i \in JobIds
               PROVE  N[i] # {} <=> \E x \in J[i] : Scheduled(x)
    BY <1>9 DEF Timely
  <2>1. CASE i = j
    BY <1>2, <1>8, <2>1
  <2>2. CASE i # j
    <3>1. N[i] = R.next[i] /\ (R.next[i] # {} <=> \E x \in R.jobs[i] : Scheduled(x))
      BY <1>1, <1>2, <2>2 DEF Timely
    <3> QED
      BY <1>6, <1>7, <2>2, <3>1 DEF Scheduled
  <2> QED
    BY <2>1, <2>2
<1>11. UNCHANGED history
  BY DEF Remove
<1>12. HistoryGrows
  BY <1>11 DEF HistoryGrows, history, TypeOK
<1>13. \A i \in JobIds : \A z \in m.jobs[i] : Stands(i, z)
  BY <1>6, <1>9, <1>11 DEF Stands, R, history
<1> QED
  BY <1>3, <1>9, <1>10, <1>12, <1>13 DEF ChangesRows

-----------------------------------------------------------------------------
(* Types and the timetable                                                 *)

(* A run that asks for, or submits, an item is not one of an inline job.    *)
Submitting == \A j \in JobIds : \A i \in DOMAIN runs[j] :
    runs[j][i].phase \in {"asking", "clear"} => runs[j][i].job.host # "inline"

TimedInv == TypeOK /\ Submitting /\ Timely(mem)

LEMMA InitTimed == Init => TimedInv
<1> SUFFICES ASSUME Init PROVE TimedInv
  OBVIOUS
<1>1. InitialFile \in [JobIds -> Option(Job)] /\ clock \in Nat /\ 0 \in Nat
  BY FileAssumption DEF Init, Table
<1>2. \A j \in JobIds : LET N == UNION {Rescheduled(x) : x \in InitialFile[j]}
                        IN  /\ N \in Option(Nat)
                            /\ N # {} <=> \E x \in InitialFile[j] : Scheduled(x)
  BY <1>1, RescheduledAll
<1>3. {0} \in Option(Nat) /\ {InitialFile} \in Option(Table)
  BY FileAssumption, OptionMade
<1>4. mem = [jobs |-> InitialFile, stamp |-> {0}, seen |-> {InitialFile},
             next |-> [j \in JobIds |->
                         UNION {Rescheduled(x) : x \in InitialFile[j]}]]
  BY DEF Init
<1>5. mem \in Mem
  <2>1. [j \in JobIds |-> UNION {Rescheduled(x) : x \in InitialFile[j]}]
          \in [JobIds -> Option(Nat)]
    BY <1>2
  <2> QED
    BY <1>3, <1>4, <2>1, FileAssumption DEF Mem
<1>6. Timely(mem)
  BY <1>2, <1>4 DEF Timely
<1>7. file \in File
  BY FileAssumption DEF Init, File
<1>8. \A j \in JobIds :
         Cardinality({x \in InitialFile[j] : x.trigger.kind = "once"}) \in Nat
  <2> TAKE j \in JobIds
  <2> DEFINE O == {x \in InitialFile[j] : x.trigger.kind = "once"}
  <2>1. O = {} \/ \E x : O = {x}
    BY <1>1, OptionFacts
  <2>2. IsFiniteSet(O)
    BY <2>1, FS_EmptySet, FS_Singleton
  <2> QED
    BY <2>2, FS_CardinalityType
<1>9. /\ armed \in [JobIds -> Nat] /\ fired \in [JobIds -> Nat]
  BY <1>8 DEF Init
<1>10. approved \subseteq Actions
  <2>1. \A j \in JobIds : \A x \in InitialFile[j] : x \in Job
    BY <1>1, OptionFacts
  <2>2. \A x \in Job : x.action \in Actions
    BY DEF Job
  <2> QED
    BY <2>1, <2>2 DEF Init
<1>11. /\ queued \in [JobIds -> Option({"local", "peer"})]
       /\ chan \in [JobIds -> Seq(Job)] /\ runs \in [JobIds -> Seq(Run)]
  BY DEF Init, Option
<1>12. /\ on \subseteq JobIds /\ running \subseteq JobIds
       /\ \A x \in items : x \in QueueItem
       /\ launched \subseteq Actions /\ strayed \subseteq JobIds
       /\ refused \in Nat
       /\ spent \in [call : Nat, edit : Nat, item : Nat, crash : Nat]
  BY DEF Init
<1>13. Submitting
  BY DEF Init, Submitting
<1> QED
  BY <1>1, <1>5, <1>6, <1>7, <1>9, <1>10, <1>11, <1>12, <1>13 DEF TimedInv, TypeOK

(* Calls that change rows.                                                 *)
ChangeCall(j) == \/ Remove(j) \/ Approve(j)
                 \/ \E x \in Rows : Upsert(j, x)
                 \/ \E x \in Proposals : Propose(j, x)

LEMMA ChangeShape ==
    ASSUME TimedInv, NEW j \in JobIds, ChangeCall(j)
    PROVE  /\ HistoryGrows
           /\ \E m \in Mem : ChangesRows(m)
           /\ spent' \in Counters
           /\ UNCHANGED <<tasks, outside>>
<1>1. TypeOK /\ Timely(mem)
  BY DEF TimedInv
<1>2. HistoryGrows /\ \E m \in Mem : ChangesRows(m)
  BY <1>1, RemoveShape, ApproveShape, UpsertShape, ProposeShape DEF ChangeCall
<1>3. spent' \in Counters
  BY <1>1, CalledType DEF ChangeCall, Remove, Approve, Upsert, Propose
<1>4. UNCHANGED <<tasks, outside>>
  BY DEF ChangeCall, Remove, StillRunning, Approve, Upsert, Propose, tasks, outside
<1> QED
  BY <1>2, <1>3, <1>4

LEMMA ChangeTimed ==
    ASSUME TimedInv, NEW j \in JobIds, ChangeCall(j)
    PROVE  TimedInv'
<1>1. PICK m \in Mem : ChangesRows(m)
  BY ChangeShape
<1>2. /\ mem' \in Mem /\ file' \in File /\ refused' \in Nat
      /\ mem'.jobs = m.jobs /\ mem'.next = m.next
  BY <1>1, PersistFacts DEF ChangesRows, TimedInv
<1>3. Timely(mem')
  BY <1>1, <1>2 DEF ChangesRows, Timely
<1>4. /\ HistoryGrows /\ spent' \in Counters
      /\ UNCHANGED <<running, queued, chan, runs, items, clock>>
  BY ChangeShape DEF tasks, outside
<1>5. TypeOK'
  BY <1>2, <1>4 DEF TimedInv, TypeOK, HistoryGrows, Counters
<1> QED
  BY <1>3, <1>4, <1>5 DEF TimedInv, Timely, Submitting

(* Sequences of jobs and runs.                                             *)
LEMMA AppendType ==
    ASSUME NEW S, NEW f \in [JobIds -> Seq(S)], NEW j \in JobIds, NEW x \in S
    PROVE  [f EXCEPT ![j] = Append(@, x)] \in [JobIds -> Seq(S)]
<1>1. Append(f[j], x) \in Seq(S)
  OBVIOUS
<1> QED
  BY <1>1

LEMMA TailType ==
    ASSUME NEW S, NEW f \in [JobIds -> Seq(S)], NEW j \in JobIds, f[j] # <<>>
    PROVE  /\ [f EXCEPT ![j] = Tail(@)] \in [JobIds -> Seq(S)]
           /\ Head(f[j]) \in S
<1>1. Tail(f[j]) \in Seq(S) /\ Head(f[j]) \in S
  OBVIOUS
<1> QED
  BY <1>1

LEMMA RunNowTimed ==
    ASSUME TimedInv, NEW j \in JobIds, RunNow(j)
    PROVE  TimedInv'
<1>1. TypeOK /\ Timely(mem)
  BY DEF TimedInv
<1>2. Reloaded \in Mem /\ Timely(Reloaded) /\ mem' = Reloaded
  BY <1>1, ReloadFacts DEF RunNow
<1>3. Timely(mem)'
  BY <1>2 DEF Timely
<1>4. spent' \in Counters
  BY <1>1, CalledType DEF RunNow
<1>5. (CHOOSE x \in Reloaded.jobs[j] : TRUE) \in Job
  <2>1. PICK x \in Reloaded.jobs[j] : ~x.proposal
    BY DEF RunNow, Runnable, Live
  <2>2. Reloaded.jobs[j] \in Option(Job)
    BY <1>2 DEF Mem, Table
  <2> QED
    BY <2>1, <2>2, OptionFacts
<1> DEFINE x == CHOOSE x \in Reloaded.jobs[j] : TRUE
<1>6. /\ chan' \in [JobIds -> Seq(Job)] /\ running' \subseteq JobIds
  <2>1. chan \in [JobIds -> Seq(Job)] /\ running \subseteq JobIds
    BY <1>1 DEF TypeOK
  <2>2. \/ running' = running /\ chan' = chan
        \/ /\ running' = running \cup {j}
           /\ chan' = [chan EXCEPT ![j] = Append(@, x)]
    BY DEF RunNow
  <2> HIDE DEF x
  <2>3. [chan EXCEPT ![j] = Append(@, x)] \in [JobIds -> Seq(Job)]
    BY <1>5, <2>1, AppendType DEF x
  <2> QED
    BY <2>1, <2>2, <2>3
<1>7. UNCHANGED <<file, queued, runs, outside, history, refused>>
  BY DEF RunNow
<1>8. TypeOK'
  BY <1>1, <1>2, <1>4, <1>6, <1>7 DEF TypeOK, outside, history, Counters
<1> QED
  BY <1>3, <1>7, <1>8 DEF TimedInv, Submitting

(* due: what it leaves of the reloaded rows.                               *)
AfterDue ==
    LET m == Reloaded
    IN  [m EXCEPT
            !.jobs = [j \in JobIds |-> Fired(m, j)],
            !.next = [j \in JobIds |->
                IF j \in OnceJobs(m) THEN {}
                ELSE IF j \in DueJobs(m)
                THEN UNION {Rescheduled(x) : x \in m.jobs[j]}
                ELSE m.next[j]]]

LEMMA DueFacts ==
    ASSUME TimedInv
    PROVE  /\ AfterDue \in Mem /\ Timely(AfterDue)
           /\ OnceJobs(Reloaded) = {} => AfterDue.jobs = Reloaded.jobs
           /\ \A j \in JobIds :
                /\ j \in OnceJobs(Reloaded) =>
                     \A x \in AfterDue.jobs[j] :
                       /\ ~x.enabled /\ ~x.proposal
                       /\ \E y \in Reloaded.jobs[j] :
                            ~y.proposal /\ x.action = y.action
                /\ j \notin OnceJobs(Reloaded) =>
                     AfterDue.jobs[j] = Reloaded.jobs[j]
                /\ j \in DueJobs(Reloaded) =>
                     \E x \in AfterDue.jobs[j] : \E y \in Reloaded.jobs[j] :
                       /\ x \in Job /\ ~x.proposal /\ x.action = y.action
                       /\ ~y.proposal /\ y.enabled
                       /\ (CHOOSE z \in AfterDue.jobs[j] : TRUE) = x
<1> DEFINE R == Reloaded
           once == OnceJobs(R)
           J == [j \in JobIds |-> Fired(R, j)]
           N == [j \in JobIds |->
                IF j \in once THEN {}
                ELSE IF j \in DueJobs(R)
                THEN UNION {Rescheduled(x) : x \in R.jobs[j]}
                ELSE R.next[j]]
<1>1. /\ R \in Mem /\ Timely(R) /\ clock \in Nat
  BY ReloadFacts DEF TimedInv, TypeOK
<1> HIDE DEF R
<1>2. /\ R.jobs \in [JobIds -> Option(Job)]
      /\ R.next \in [JobIds -> Option(Nat)]
      /\ R.seen \in Option(Table) /\ R.stamp \in Option(Nat)
  BY <1>1 DEF Mem, Table
<1>3. ASSUME NEW j \in JobIds, j \in once
      PROVE  \E y \in R.jobs[j] : \E z \in Job :
               /\ y.enabled /\ ~y.proposal
               /\ J[j] = {z} /\ ~z.enabled /\ ~z.proposal /\ z.action = y.action
  <2>1. PICK y \in R.jobs[j] : y.enabled /\ ~y.proposal
    BY <1>3 DEF OnceJobs, DueJobs
  <2>2. y \in Job /\ R.jobs[j] = {y}
    BY <1>2, OptionFacts
  <2> DEFINE z == [y EXCEPT !.enabled = FALSE]
  <2>3. J[j] = {z}
    BY <1>3, <2>2 DEF Fired
  <2>4. z \in Job /\ ~z.enabled /\ ~z.proposal /\ z.action = y.action
    BY <2>1, <2>2 DEF Job
  <2> HIDE DEF z, J
  <2> QED
    BY <2>1, <2>3, <2>4
<1>4. \A j \in JobIds : j \notin once => J[j] = R.jobs[j]
  BY DEF Fired
<1>5. \A j \in JobIds : J[j] \in Option(Job)
  <2> TAKE j \in JobIds
  <2>1. CASE j \in once
    <3>1. PICK z \in Job : J[j] = {z}
      BY <1>3, <2>1
    <3> HIDE DEF J
    <3> QED
      BY <3>1, OptionMade
  <2>2. CASE j \notin once
    BY <1>2, <1>4, <2>2
  <2> QED
    BY <2>1, <2>2
<1>6. J \in Table
  BY <1>5 DEF Table
<1>7. ASSUME NEW j \in JobIds
      PROVE  /\ N[j] \in Option(Nat)
             /\ N[j] # {} <=> \E x \in J[j] : Scheduled(x)
  <2>1. CASE j \in once
    <3>1. N[j] = {} /\ {} \in Option(Nat)
      BY <2>1 DEF Option
    <3>2. \A x \in J[j] : ~Scheduled(x)
      BY <1>3, <2>1 DEF Scheduled
    <3> QED
      BY <3>1, <3>2
  <2>2. CASE j \notin once /\ j \in DueJobs(R)
    <3>1. N[j] = UNION {Rescheduled(x) : x \in R.jobs[j]} /\ R.jobs[j] \in Option(Job)
      BY <1>2, <2>2
    <3> QED
      BY <1>1, <1>4, <2>2, <3>1, RescheduledAll
  <2>3. CASE j \notin once /\ j \notin DueJobs(R)
    <3>1. N[j] = R.next[j] /\ J[j] = R.jobs[j]
      BY <1>4, <2>3
    <3> QED
      BY <1>1, <1>2, <3>1 DEF Timely
  <2> QED
    BY <2>1, <2>2, <2>3
<1>8. N \in [JobIds -> Option(Nat)]
  BY <1>7
<1>9. AfterDue = [R EXCEPT !.jobs = J, !.next = N]
  BY DEF AfterDue, R
<1> HIDE DEF J, N, once
<1>10. AfterDue \in Mem /\ AfterDue.jobs = J /\ AfterDue.next = N
  BY <1>1, <1>6, <1>8, <1>9 DEF Mem
<1>11. Timely(AfterDue)
  BY <1>7, <1>10 DEF Timely
<1>12. once = {} => J = R.jobs
  BY <1>2, <1>4, <1>6 DEF Table
<1>13. ASSUME NEW j \in JobIds, j \in DueJobs(R)
       PROVE  \E x \in J[j] : \E y \in R.jobs[j] :
                /\ x \in Job /\ ~x.proposal /\ x.action = y.action
                /\ ~y.proposal /\ y.enabled
                /\ (CHOOSE z \in J[j] : TRUE) = x
  <2>1. CASE j \in once
    <3>1. PICK y \in R.jobs[j], z \in Job :
            /\ y.enabled /\ ~y.proposal
            /\ J[j] = {z} /\ ~z.enabled /\ ~z.proposal /\ z.action = y.action
      BY <1>3, <2>1
    <3>2. z \in J[j] /\ (CHOOSE w \in J[j] : TRUE) = z
      BY <3>1
    <3> QED
      BY <3>1, <3>2
  <2>2. CASE j \notin once
    <3>1. PICK y \in R.jobs[j] : y.enabled /\ ~y.proposal
      BY <1>13 DEF DueJobs
    <3>2. J[j] = R.jobs[j] /\ y \in Job /\ (CHOOSE z \in J[j] : TRUE) = y
      BY <1>2, <1>4, <2>2, <3>1, OptionFacts
    <3> QED
      BY <3>1, <3>2
  <2> QED
    BY <2>1, <2>2
<1>14. ASSUME NEW j \in JobIds, j \in once, NEW x \in J[j]
       PROVE  /\ ~x.enabled /\ ~x.proposal
              /\ \E y \in R.jobs[j] : ~y.proposal /\ x.action = y.action
  BY <1>3, <1>14
<1> QED
  BY <1>4, <1>10, <1>11, <1>12, <1>13, <1>14 DEF R, once

LEMMA DueShape ==
    ASSUME Due
    PROVE  LET m == Reloaded
           IN  /\ \/ OnceJobs(m) # {} /\ Persist(AfterDue)
                  \/ OnceJobs(m) = {} /\ mem' = AfterDue /\ UNCHANGED <<file, refused>>
               /\ running' = running \cup DueJobs(m)
               /\ runs' = [j \in JobIds |->
                     IF j \in DueJobs(m) \ running
                     THEN Append(runs[j], [phase |-> "begun", last |-> {},
                            job |-> CHOOSE x \in AfterDue.jobs[j] : TRUE])
                     ELSE runs[j]]
               /\ fired' = [j \in JobIds |->
                     IF j \in OnceJobs(m) THEN fired[j] + 1 ELSE fired[j]]
               /\ strayed' = strayed \cup (DueJobs(m) \ on)
               /\ UNCHANGED <<queued, chan, items, clock, armed, on, approved,
                              launched, spent>>
  BY DEF Due, AfterDue, outside

\* The job a firing starts.
LEMMA DueJobMade ==
    ASSUME TimedInv, NEW j \in JobIds, j \in DueJobs(Reloaded)
    PROVE  (CHOOSE x \in AfterDue.jobs[j] : TRUE) \in Job
<1>1. \E x \in AfterDue.jobs[j] :
         x \in Job /\ (CHOOSE z \in AfterDue.jobs[j] : TRUE) = x
  BY DueFacts
<1> QED
  BY <1>1

-----------------------------------------------------------------------------
(* The steps of a run.                                                     *)

\* The run at the head becomes `q`.
HeadBecomes(j, q) == runs' = [runs EXCEPT ![j] = [@ EXCEPT ![1] = q]]

LEMMA HeadFacts ==
    ASSUME runs \in [JobIds -> Seq(Run)], NEW j \in JobIds, NEW q \in Run,
           runs[j] # <<>>, HeadBecomes(j, q)
    PROVE  /\ runs' \in [JobIds -> Seq(Run)]
           /\ Len(runs'[j]) = Len(runs[j]) /\ runs'[j] # <<>>
           /\ Head(runs'[j]) = q /\ runs'[j][1] = q
           /\ \A i \in 2..Len(runs[j]) : runs'[j][i] = runs[j][i]
           /\ \A i \in JobIds \ {j} : runs'[i] = runs[i]
<1> DEFINE s == runs[j]
           t == [s EXCEPT ![1] = q]
<1>1. s \in Seq(Run) /\ Len(s) \in Nat /\ Len(s) >= 1 /\ DOMAIN s = 1..Len(s)
  OBVIOUS
<1>2. /\ t \in [1..Len(s) -> Run] /\ t[1] = q
      /\ \A i \in 2..Len(s) : t[i] = s[i]
  BY <1>1
<1>3. t \in Seq(Run) /\ Len(t) = Len(s) /\ DOMAIN t = 1..Len(s)
  <2>1. t \in Seq(Run)
    BY <1>1, <1>2
  <2> QED
    BY <1>1, <1>2, <2>1
<1>4. runs' = [runs EXCEPT ![j] = t]
  BY DEF HeadBecomes
<1> HIDE DEF t
<1>5. runs'[j] = t /\ \A i \in JobIds \ {j} : runs'[i] = runs[i]
  BY <1>4
<1>6. Head(t) = t[1] /\ t # <<>>
  BY <1>1, <1>3
<1> QED
  BY <1>2, <1>3, <1>4, <1>5, <1>6

LEMMA FirstRun ==
    ASSUME runs \in [JobIds -> Seq(Run)], NEW j \in JobIds, runs[j] # <<>>
    PROVE  /\ Head(runs[j]) = runs[j][1] /\ runs[j][1] \in Run
           /\ Len(runs[j]) \in Nat /\ Len(runs[j]) >= 1
           /\ DOMAIN runs[j] = 1..Len(runs[j])
<1>1. runs[j] \in Seq(Run)
  OBVIOUS
<1> QED
  BY <1>1

HeadStep(j) == \/ Perform(j) \/ ReadLast(j) \/ Submit(j) \/ SubmitUnknown(j)
               \/ \E answers \in BOOLEAN : Check(j, answers)

(* A run moves on: its job stays, and before it is done only a check sets  *)
(* it clear and only reading sets what it asks for.                        *)
LEMMA HeadShape ==
    ASSUME TypeOK, NEW j \in JobIds, HeadStep(j)
    PROVE  /\ runs[j] # <<>>
           /\ \E q \in Run :
                /\ HeadBecomes(j, q) /\ q.job = runs[j][1].job
                /\ \/ q.phase = "done"
                   \/ /\ q.phase = "asking" /\ q.last = queued[j]
                      /\ q.job.host # "inline"
                   \/ /\ q.phase = "clear" /\ runs[j][1].phase = "asking"
                      /\ \E answers \in BOOLEAN : Free(j, runs[j][1].last, answers)
           /\ UNCHANGED <<mem, file, running, chan, clock, armed, fired, on,
                          approved, strayed, refused>>
<1>1. runs \in [JobIds -> Seq(Run)] /\ queued \in [JobIds -> Option({"local", "peer"})]
  BY DEF TypeOK
<1>2. runs[j] # <<>>
  BY DEF HeadStep, Perform, ReadLast, Submit, SubmitUnknown, Check, InPhase
<1> DEFINE r == runs[j][1]
<1>3. r \in Run /\ Head(runs[j]) = r
  BY <1>1, <1>2, FirstRun
<1>4. UNCHANGED <<mem, file, running, chan, clock, armed, fired, on, approved,
                  strayed, refused>>
  BY DEF HeadStep, Perform, ReadLast, Submit, SubmitUnknown, Check, Submitted,
         outside, history
<1>5. ASSUME NEW p \in {"done", "clear"}, To(j, p)
      PROVE  LET q == [r EXCEPT !.phase = p]
             IN  /\ q \in Run /\ HeadBecomes(j, q) /\ q.job = r.job /\ q.phase = p
  BY <1>3, <1>5 DEF To, HeadBecomes, Run
<1>6. CASE Perform(j) \/ Submit(j) \/ SubmitUnknown(j)
  <2>1. To(j, "done")
    BY <1>6 DEF Perform, Submit, SubmitUnknown
  <2> QED
    BY <1>2, <1>4, <1>5, <2>1
<1>7. CASE ReadLast(j)
  <2> DEFINE q == [r EXCEPT !.phase = "asking", !.last = queued[j]]
  <2>1. {"local", "peer"} \subseteq AllHosts
    BY DEF AllHosts
  <2>2. queued[j] \in Option(AllHosts)
    BY <1>1, <2>1 DEF Option
  <2>3. q \in Run /\ q.job = r.job /\ q.phase = "asking" /\ q.last = queued[j]
    BY <1>3, <2>2 DEF Run
  <2>4. HeadBecomes(j, q)
    BY <1>1, <1>2, <1>7, <2>3 DEF ReadLast, HeadBecomes
  <2>5. q.job.host # "inline"
    BY <1>3, <1>7, <2>3 DEF ReadLast, JobOf
  <2> HIDE DEF q
  <2> QED
    BY <1>2, <1>4, <2>3, <2>4, <2>5
<1>8. ASSUME NEW answers \in BOOLEAN, Check(j, answers)
      PROVE  \E q \in Run :
                /\ HeadBecomes(j, q) /\ q.job = r.job
                /\ \/ q.phase = "done"
                   \/ /\ q.phase = "clear" /\ r.phase = "asking"
                      /\ Free(j, r.last, answers)
  <2>1. r.phase = "asking"
    BY <1>3, <1>8 DEF Check, InPhase
  <2>2. CASE Free(j, r.last, answers)
    <3>1. To(j, "clear")
      BY <1>3, <1>8, <2>2 DEF Check
    <3> QED
      BY <1>5, <2>1, <2>2, <3>1
  <2>3. CASE ~Free(j, r.last, answers)
    <3>1. To(j, "done")
      BY <1>3, <1>8, <2>3 DEF Check
    <3> QED
      BY <1>5, <3>1
  <2> QED
    BY <2>2, <2>3
<1> QED
  BY <1>2, <1>4, <1>6, <1>7, <1>8 DEF HeadStep

LEMMA SubmittedFacts ==
    ASSUME TypeOK, NEW j \in JobIds, NEW h \in {"local", "peer"},
           NEW known \in BOOLEAN, runs[j] # <<>>, Submitted(j, h, known)
    PROVE  /\ spent' \in Counters /\ launched' \subseteq Actions
           /\ launched' = launched \cup {JobOf(j).action}
           /\ \E x \in QueueItem : /\ items' = items \cup {x}
                                   /\ x.job = j /\ x.known = known
                                   /\ x.host = h
<1>1. spent \in [call : Nat, edit : Nat, item : Nat, crash : Nat]
  BY DEF TypeOK
<1>2. spent' \in Counters
  <2>1. spent' = [spent EXCEPT !.item = @ + 1] /\ spent.item + 1 \in Nat
    BY <1>1 DEF Submitted
  <2> QED
    BY <1>1, <2>1 DEF Counters
<1>3. JobOf(j).action \in Actions
  <2>1. Head(runs[j]) \in Run
    BY FirstRun DEF TypeOK
  <2> QED
    BY <2>1 DEF JobOf, Run, Job
<1>4. launched' \subseteq Actions /\ launched' = launched \cup {JobOf(j).action}
  BY <1>3 DEF Submitted, TypeOK
<1> DEFINE x == [n |-> spent.item, job |-> j, host |-> h, state |-> "queued",
                 known |-> known]
<1>5. x \in QueueItem /\ items' = items \cup {x}
  BY <1>1 DEF Submitted, QueueItem
<1>6. x.job = j /\ x.known = known /\ x.host = h
  OBVIOUS
<1> HIDE DEF x
<1> QED
  BY <1>2, <1>4, <1>5, <1>6

LEMMA HeadTimed ==
    ASSUME TimedInv, NEW j \in JobIds, HeadStep(j)
    PROVE  TimedInv'
<1>1. TypeOK /\ Timely(mem) /\ Submitting
  BY DEF TimedInv
<1>2. /\ runs[j] # <<>>
      /\ \E q \in Run : HeadBecomes(j, q)
      /\ UNCHANGED <<mem, file, running, chan, clock, armed, fired, on,
                     approved, strayed, refused>>
  BY <1>1, HeadShape
<1>3. runs' \in [JobIds -> Seq(Run)]
  BY <1>1, <1>2, HeadFacts DEF TypeOK
<1>4. JobOf(j) \in Job
  <2>1. Head(runs[j]) \in Run
    BY <1>1, <1>2, FirstRun DEF TypeOK
  <2> QED
    BY <2>1 DEF JobOf, Run
<1>5. /\ queued' \in [JobIds -> Option({"local", "peer"})]
      /\ \A x \in items' : x \in QueueItem
      /\ launched' \subseteq Actions
      /\ spent' \in Counters
  <2>1. CASE Perform(j)
    BY <1>1, <1>4, <2>1 DEF Perform, TypeOK, Job, outside, Counters
  <2>2. CASE ReadLast(j) \/ \E answers \in BOOLEAN : Check(j, answers)
    BY <1>1, <2>2 DEF ReadLast, Check, TypeOK, outside, history, Counters
  <2>3. CASE Submit(j)
    <3>1. JobOf(j).host \in {"local", "peer"}
      <4>1. Head(runs[j]).phase = "clear" /\ Head(runs[j]) = runs[j][1]
            /\ 1 \in DOMAIN runs[j]
        BY <1>1, <1>2, <2>3, FirstRun DEF Submit, InPhase, TypeOK
      <4>2. JobOf(j).host # "inline"
        BY <1>1, <4>1 DEF Submitting, JobOf
      <4> QED
        BY <1>4, <4>2 DEF Job, AllHosts
    <3>2. Submitted(j, JobOf(j).host, TRUE) /\ queued' = [queued EXCEPT ![j] = {JobOf(j).host}]
      BY <2>3 DEF Submit, Remembered
    <3>3. {JobOf(j).host} \in Option({"local", "peer"})
      BY <3>1, OptionMade
    <3>4. /\ spent' \in Counters /\ launched' \subseteq Actions
          /\ \E x \in QueueItem : items' = items \cup {x}
      <4>1. TRUE \in BOOLEAN
        OBVIOUS
      <4> QED
        BY <1>1, <1>2, <3>1, <3>2, <4>1, SubmittedFacts
    <3>5. \A x \in items' : x \in QueueItem
      BY <1>1, <3>4 DEF TypeOK
    <3>6. queued' \in [JobIds -> Option({"local", "peer"})]
      BY <1>1, <3>2, <3>3 DEF TypeOK
    <3> QED
      BY <3>4, <3>5, <3>6
  <2>4. CASE SubmitUnknown(j)
    <3>1. Submitted(j, "peer", FALSE) /\ UNCHANGED queued
      BY <2>4 DEF SubmitUnknown
    <3>2. /\ spent' \in Counters /\ launched' \subseteq Actions
          /\ \E x \in QueueItem : items' = items \cup {x}
      <4>1. FALSE \in BOOLEAN /\ "peer" \in {"local", "peer"}
        OBVIOUS
      <4> QED
        BY <1>1, <1>2, <3>1, <4>1, SubmittedFacts
    <3>3. \A x \in items' : x \in QueueItem
      BY <1>1, <3>2 DEF TypeOK
    <3>4. queued' \in [JobIds -> Option({"local", "peer"})]
      BY <1>1, <3>1 DEF TypeOK
    <3> QED
      BY <3>2, <3>3, <3>4
  <2> QED
    BY <2>1, <2>2, <2>3, <2>4 DEF HeadStep
<1>6. TypeOK'
  BY <1>1, <1>2, <1>3, <1>5 DEF TypeOK, Counters
<1>7. Timely(mem)'
  BY <1>1, <1>2 DEF Timely
<1>8. Submitting'
  <2>1. PICK q \in Run :
          /\ HeadBecomes(j, q) /\ q.job = runs[j][1].job
          /\ \/ q.phase = "done" \/ q.job.host # "inline"
             \/ runs[j][1].phase = "asking"
    BY <1>1, HeadShape
  <2>2. /\ Len(runs'[j]) = Len(runs[j]) /\ runs'[j][1] = q
        /\ \A i \in 2..Len(runs[j]) : runs'[j][i] = runs[j][i]
        /\ \A i \in JobIds \ {j} : runs'[i] = runs[i]
        /\ runs' \in [JobIds -> Seq(Run)] /\ runs \in [JobIds -> Seq(Run)]
        /\ runs'[j] # <<>>
    BY <1>1, <1>2, <2>1, HeadFacts DEF TypeOK
  <2>3. /\ DOMAIN runs'[j] = 1..Len(runs[j]) /\ Len(runs[j]) \in Nat
        /\ DOMAIN runs[j] = 1..Len(runs[j]) /\ Len(runs[j]) >= 1
    BY <1>2, <2>2, FirstRun
  <2>4. q.phase \in {"asking", "clear"} => q.job.host # "inline"
    BY <1>1, <2>1, <2>3 DEF Submitting
  <2> SUFFICES ASSUME NEW k \in JobIds, NEW i \in DOMAIN runs'[k],
                      runs'[k][i].phase \in {"asking", "clear"}
               PROVE  runs'[k][i].job.host # "inline"
    BY DEF Submitting
  <2>5. CASE k # j
    BY <1>1, <2>2, <2>5 DEF Submitting
  <2>6. CASE k = j /\ i = 1
    BY <2>2, <2>4, <2>6
  <2>7. CASE k = j /\ i # 1
    BY <1>1, <2>2, <2>3, <2>7 DEF Submitting
  <2> QED
    BY <2>5, <2>6, <2>7
<1> QED
  BY <1>6, <1>7, <1>8 DEF TimedInv

LEMMA TakeTimed ==
    ASSUME TimedInv, NEW j \in JobIds, Take(j)
    PROVE  TimedInv'
<1>1. TypeOK /\ Timely(mem) /\ Submitting
  BY DEF TimedInv
<1>2. chan \in [JobIds -> Seq(Job)] /\ runs \in [JobIds -> Seq(Run)]
      /\ chan[j] # <<>>
  BY <1>1 DEF TypeOK, Take
<1> DEFINE r == [phase |-> "begun", last |-> {}, job |-> Head(chan[j])]
<1>3. /\ chan' \in [JobIds -> Seq(Job)] /\ Head(chan[j]) \in Job
  BY <1>2, TailType DEF Take
<1>4. r \in Run /\ r.phase = "begun"
  BY <1>3 DEF Run, Option
<1>5. runs' = [runs EXCEPT ![j] = Append(@, r)]
  BY DEF Take
<1> HIDE DEF r
<1>6. runs' \in [JobIds -> Seq(Run)]
  BY <1>2, <1>4, <1>5, AppendType
<1>7. UNCHANGED <<mem, file, running, queued, outside, history, refused, spent>>
  BY DEF Take
<1>8. TypeOK'
  BY <1>1, <1>3, <1>6, <1>7 DEF TypeOK, outside, history
<1>9. Submitting'
  <2>1. ASSUME NEW k \in JobIds, NEW i \in DOMAIN runs'[k]
        PROVE  \/ i \in DOMAIN runs[k] /\ runs'[k][i] = runs[k][i]
               \/ runs'[k][i].phase = "begun"
    <3>1. CASE k = j
      <4>1. runs'[k] = Append(runs[j], r) /\ runs[j] \in Seq(Run)
        BY <1>2, <1>5, <3>1
      <4> QED
        BY <1>4, <3>1, <4>1
    <3>2. CASE k # j
      BY <1>2, <1>5, <3>2
    <3> QED
      BY <3>1, <3>2
  <2> QED
    BY <1>1, <2>1 DEF Submitting
<1>10. Timely(mem)'
  BY <1>1, <1>7 DEF Timely
<1> QED
  BY <1>8, <1>9, <1>10 DEF TimedInv

LEMMA FinishTimed ==
    ASSUME TimedInv, NEW j \in JobIds, Finish(j)
    PROVE  TimedInv'
<1>1. TypeOK /\ Timely(mem) /\ Submitting
  BY DEF TimedInv
<1>2. runs \in [JobIds -> Seq(Run)] /\ runs[j] # <<>> /\ running \subseteq JobIds
  BY <1>1 DEF TypeOK, Finish
<1>3. runs' = [runs EXCEPT ![j] = Tail(@)]
  BY DEF Finish
<1>4. runs' \in [JobIds -> Seq(Run)]
  BY <1>2, <1>3, TailType
<1>5. /\ UNCHANGED <<mem, file, queued, chan, outside, history, refused, spent>>
      /\ running' \subseteq JobIds
  BY <1>2 DEF Finish
<1>6. TypeOK'
  BY <1>1, <1>4, <1>5 DEF TypeOK, outside, history
<1>7. Submitting'
  <2>1. ASSUME NEW k \in JobIds, NEW i \in DOMAIN runs'[k]
        PROVE  \E n \in DOMAIN runs[k] : runs'[k][i] = runs[k][n]
    <3>1. CASE k = j
      <4>1. runs'[k] = Tail(runs[j]) /\ runs[j] \in Seq(Run) /\ runs[j] # <<>>
        BY <1>2, <1>3, <3>1
      <4>2. i + 1 \in DOMAIN runs[j] /\ runs'[k][i] = runs[j][i + 1]
        BY <4>1
      <4> QED
        BY <3>1, <4>2
    <3>2. CASE k # j
      BY <1>2, <1>3, <3>2
    <3> QED
      BY <3>1, <3>2
  <2> QED
    BY <1>1, <2>1 DEF Submitting
<1>8. Timely(mem)'
  BY <1>1, <1>5 DEF Timely
<1> QED
  BY <1>6, <1>7, <1>8 DEF TimedInv

LEMMA DueTimed ==
    ASSUME TimedInv, Due
    PROVE  TimedInv'
<1>1. TypeOK /\ Timely(mem) /\ Submitting
  BY DEF TimedInv
<1> DEFINE R == Reloaded
           due == DueJobs(R)
           once == OnceJobs(R)
           X(j) == CHOOSE x \in AfterDue.jobs[j] : TRUE
           r(j) == [phase |-> "begun", last |-> {}, job |-> X(j)]
<1>2. AfterDue \in Mem /\ Timely(AfterDue)
      /\ \A j \in JobIds : j \in due => X(j) \in Job
  <2>1. AfterDue \in Mem /\ Timely(AfterDue)
    BY DueFacts
  <2>2. \A j \in JobIds : j \in due => X(j) \in Job
    BY DueJobMade
  <2> QED
    BY <2>1, <2>2
<1>3. /\ \/ once # {} /\ Persist(AfterDue)
         \/ once = {} /\ mem' = AfterDue /\ UNCHANGED <<file, refused>>
      /\ running' = running \cup due
      /\ runs' = [j \in JobIds |-> IF j \in due \ running
                                  THEN Append(runs[j], r(j)) ELSE runs[j]]
      /\ fired' = [j \in JobIds |-> IF j \in once THEN fired[j] + 1 ELSE fired[j]]
      /\ strayed' = strayed \cup (due \ on)
      /\ UNCHANGED <<queued, chan, items, clock, armed, on, approved,
                     launched, spent>>
  BY DueShape
<1>4. due \subseteq JobIds
  BY DEF DueJobs
<1> HIDE DEF R, due, once, X
<1>5. mem' \in Mem /\ file' \in File /\ refused' \in Nat /\ Timely(mem')
  <2>1. CASE Persist(AfterDue)
    BY <1>1, <1>2, <2>1, PersistFacts DEF Timely
  <2>2. CASE mem' = AfterDue /\ UNCHANGED <<file, refused>>
    BY <1>1, <1>2, <2>2 DEF TypeOK
  <2> QED
    BY <1>3, <2>1, <2>2
<1>6. /\ runs \in [JobIds -> Seq(Run)] /\ fired \in [JobIds -> Nat]
      /\ running \subseteq JobIds /\ strayed \subseteq JobIds
  BY <1>1 DEF TypeOK
<1>7. \A j \in due : r(j) \in Run /\ r(j).phase = "begun"
  BY <1>2, <1>4 DEF Run, Option
<1> HIDE DEF r
<1>8. runs' \in [JobIds -> Seq(Run)]
  <2>1. \A j \in JobIds : j \in due => Append(runs[j], r(j)) \in Seq(Run)
    BY <1>6, <1>7
  <2> QED
    BY <1>3, <1>6, <2>1
<1>9. /\ fired' \in [JobIds -> Nat] /\ running' \subseteq JobIds
      /\ strayed' \subseteq JobIds
  BY <1>3, <1>4, <1>6
<1>10. TypeOK'
  BY <1>1, <1>3, <1>5, <1>8, <1>9 DEF TypeOK
<1>11. Submitting'
  <2>1. ASSUME NEW k \in JobIds, NEW i \in DOMAIN runs'[k]
        PROVE  \/ i \in DOMAIN runs[k] /\ runs'[k][i] = runs[k][i]
               \/ runs'[k][i].phase = "begun"
    <3>1. CASE k \in due \ running
      <4>1. runs'[k] = Append(runs[k], r(k)) /\ runs[k] \in Seq(Run)
        BY <1>3, <1>6, <3>1
      <4>2. r(k) \in Run /\ r(k).phase = "begun"
        BY <1>7, <3>1
      <4> QED
        BY <4>1, <4>2
    <3>2. CASE k \notin due \ running
      BY <1>3, <3>2
    <3> QED
      BY <3>1, <3>2
  <2> QED
    BY <1>1, <2>1 DEF Submitting
<1> QED
  BY <1>5, <1>10, <1>11 DEF TimedInv, Timely

(* The owner's editor, time, the work queues and restarts.                 *)
LEMMA EditTimed ==
    ASSUME TimedInv, (\E j \in JobIds, x \in Rows : Edit(j, x)) \/ Spoil
    PROVE  TimedInv' /\ HistoryGrows
<1>1. TypeOK /\ Timely(mem) /\ Submitting
  BY DEF TimedInv
<1>2. /\ file \in File /\ clock \in Nat
      /\ spent \in [call : Nat, edit : Nat, item : Nat, crash : Nat]
  BY <1>1 DEF TypeOK
<1>3. spent' \in Counters
  <2>1. spent' = [spent EXCEPT !.edit = @ + 1]
    BY DEF Edit, Spoil
  <2>2. spent.edit + 1 \in Nat
    BY <1>2
  <2> QED
    BY <1>2, <2>1, <2>2 DEF Counters
<1>4. UNCHANGED <<mem, tasks, outside, refused>>
  BY DEF Edit, Spoil
<1>5. HistoryGrows /\ file' \in File
  <2>1. ASSUME NEW j \in JobIds, NEW x \in Rows, Edit(j, x)
        PROVE  HistoryGrows /\ file' \in File
    <3>1. x \in Job
      BY RowTypes
    <3>2. file' = [file EXCEPT !.spec[j] = {x}, !.mtime = clock] /\ Stores(j, x)
      BY <2>1 DEF Edit
    <3>3. {x} \in Option(Job)
      BY <3>1, OptionMade
    <3>4. file' \in File
      BY <1>2, <3>2, <3>3 DEF File, Table
    <3> QED
      BY <1>1, <3>1, <3>2, <3>4, StoresShape
  <2>2. CASE Spoil
    <3>1. UNCHANGED history /\ file' = [file EXCEPT !.readable = FALSE, !.mtime = clock]
      BY <2>2 DEF Spoil
    <3>2. HistoryGrows
      BY <1>1, <3>1 DEF HistoryGrows, history, TypeOK
    <3>3. file' \in File
      BY <1>2, <3>1 DEF File
    <3> QED
      BY <3>2, <3>3
  <2> QED
    BY <2>1, <2>2
<1>6. TypeOK'
  BY <1>1, <1>3, <1>4, <1>5
  DEF TypeOK, tasks, outside, HistoryGrows, Counters
<1> QED
  BY <1>1, <1>4, <1>5, <1>6 DEF TimedInv, Timely, Submitting, tasks

RestartedMem ==
    IF file.readable
    THEN [jobs |-> file.spec, seen |-> {file.spec}, stamp |-> {file.mtime},
          next |-> [j \in JobIds |->
                       UNION {Rescheduled(x) : x \in file.spec[j]}]]
    ELSE [jobs |-> [j \in JobIds |-> {}], seen |-> {}, stamp |-> {file.mtime},
          next |-> [j \in JobIds |-> {}]]

LEMMA RestartFacts ==
    ASSUME TypeOK
    PROVE  /\ RestartedMem \in Mem /\ Timely(RestartedMem)
           /\ \A j \in JobIds : RestartedMem.jobs[j] \subseteq file.spec[j]
           /\ file.readable => /\ RestartedMem.jobs = file.spec
                               /\ RestartedMem.seen = {file.spec}
<1>1. /\ file.spec \in [JobIds -> Option(Job)] /\ file.spec \in Table
      /\ file.mtime \in Nat /\ clock \in Nat
  BY DEF TypeOK, File, Table
<1>2. /\ {file.mtime} \in Option(Nat) /\ {file.spec} \in Option(Table)
      /\ {} \in Option(Table) /\ {} \in Option(Nat) /\ {} \in Option(Job)
  BY <1>1, OptionMade DEF Option
<1> DEFINE N == [j \in JobIds |-> UNION {Rescheduled(x) : x \in file.spec[j]}]
<1>3. \A j \in JobIds : /\ N[j] \in Option(Nat)
                        /\ N[j] # {} <=> \E x \in file.spec[j] : Scheduled(x)
  BY <1>1, RescheduledAll
<1>4. N \in [JobIds -> Option(Nat)]
  BY <1>3
<1>5. CASE file.readable
  <2>1. RestartedMem = [jobs |-> file.spec, seen |-> {file.spec},
                        stamp |-> {file.mtime}, next |-> N]
    BY <1>5 DEF RestartedMem
  <2> HIDE DEF N
  <2>2. RestartedMem \in Mem
    BY <1>1, <1>2, <1>4, <2>1 DEF Mem
  <2> QED
    BY <1>3, <2>1, <2>2 DEF Timely
<1>6. CASE ~file.readable
  <2>1. RestartedMem = [jobs |-> [j \in JobIds |-> {}], seen |-> {},
                        stamp |-> {file.mtime}, next |-> [j \in JobIds |-> {}]]
    BY <1>6 DEF RestartedMem
  <2>2. RestartedMem \in Mem
    BY <1>2, <2>1 DEF Mem, Table
  <2> QED
    BY <1>6, <2>1, <2>2 DEF Timely
<1> QED
  BY <1>5, <1>6

LEMMA RestartTimed ==
    ASSUME TimedInv, Restart
    PROVE  TimedInv'
<1>1. TypeOK
  BY DEF TimedInv
<1>2. mem' = RestartedMem
  BY DEF Restart, RestartedMem
<1>3. mem' \in Mem /\ Timely(mem)'
  BY <1>1, <1>2, RestartFacts DEF Timely
<1>4. spent' \in Counters
  <2>1. spent \in [call : Nat, edit : Nat, item : Nat, crash : Nat]
    BY <1>1 DEF TypeOK
  <2>2. spent' = [spent EXCEPT !.crash = @ + 1] /\ spent.crash + 1 \in Nat
    BY <2>1 DEF Restart
  <2> QED
    BY <2>1, <2>2 DEF Counters
<1>5. /\ running' = {} /\ queued' = [j \in JobIds |-> {}]
      /\ chan' = [j \in JobIds |-> <<>>] /\ runs' = [j \in JobIds |-> <<>>]
      /\ UNCHANGED <<file, clock, history, refused>>
  BY DEF Restart
<1>6. \A x \in items' : x \in QueueItem
  <2>1. \A x \in items : x \in QueueItem
    BY <1>1 DEF TypeOK
  <2>2. \A x \in QueueItem : [x EXCEPT !.known = FALSE] \in QueueItem
    BY DEF QueueItem
  <2> QED
    BY <2>1, <2>2 DEF Restart
<1>7. {} \in Option({"local", "peer"})
  BY DEF Option
<1>8. TypeOK'
  BY <1>1, <1>3, <1>4, <1>5, <1>6, <1>7 DEF TypeOK, history, Counters
<1>9. Submitting'
  BY <1>5 DEF Submitting
<1> QED
  BY <1>3, <1>8, <1>9 DEF TimedInv

LEMMA OutsideTimed ==
    ASSUME TimedInv,
           TimePasses \/ (\E x \in items : ItemStarts(x) \/ ItemEnds(x))
             \/ UNCHANGED vars
    PROVE  TimedInv'
<1>1. TypeOK /\ Timely(mem) /\ Submitting
  BY DEF TimedInv
<1>2. UNCHANGED <<mem, file, tasks, history, refused, spent>>
  BY DEF TimePasses, ItemStarts, ItemEnds, vars, tasks, history
<1>3. clock' \in Nat
  BY <1>1 DEF TimePasses, ItemStarts, ItemEnds, vars, TypeOK
<1>4. \A x \in items' : x \in QueueItem
  <2>1. \A x \in items : x \in QueueItem
    BY <1>1 DEF TypeOK
  <2>2. \A x \in QueueItem : [x EXCEPT !.state = "running"] \in QueueItem
    BY DEF QueueItem
  <2> QED
    BY <2>1, <2>2 DEF TimePasses, ItemStarts, ItemEnds, vars
<1>5. TypeOK'
  BY <1>1, <1>2, <1>3, <1>4 DEF TypeOK, tasks, history
<1> QED
  BY <1>1, <1>2, <1>5 DEF TimedInv, Timely, Submitting, tasks

(* The steps, as the proofs split them.                                    *)
LEMMA StepCases ==
    ASSUME [Next]_vars
    PROVE  \/ \E j \in JobIds : \/ ChangeCall(j) \/ RunNow(j) \/ HeadStep(j)
                               \/ Take(j) \/ Finish(j)
           \/ Due \/ Restart
           \/ (\E j \in JobIds, x \in Rows : Edit(j, x)) \/ Spoil
           \/ TimePasses \/ (\E x \in items : ItemStarts(x) \/ ItemEnds(x))
           \/ UNCHANGED vars
  BY DEF Next, Calls, Scheduler, Environment, ChangeCall, HeadStep

LEMMA NextTimed == TimedInv /\ [Next]_vars => TimedInv'
<1> SUFFICES ASSUME TimedInv, [Next]_vars PROVE TimedInv'
  OBVIOUS
<1>1. ASSUME NEW j \in JobIds,
             ChangeCall(j) \/ RunNow(j) \/ HeadStep(j) \/ Take(j) \/ Finish(j)
      PROVE  TimedInv'
  BY <1>1, ChangeTimed, RunNowTimed, HeadTimed, TakeTimed, FinishTimed
<1> QED
  BY <1>1, StepCases, DueTimed, RestartTimed, EditTimed, OutsideTimed

(* Every variable keeps its type.                                          *)
THEOREM JobsTypeCorrect == Spec => []TypeOK
<1>1. TimedInv => TypeOK
  BY DEF TimedInv
<1> QED
  BY <1>1, InitTimed, NextTimed, PTL DEF Spec

(* The timetable follows the specifications through calls, hand edits,     *)
(* firings, refused writes and restarts (jobs.rs reload, reschedule, due). *)
THEOREM TimetableFollows == Spec => []ScheduledIffArmed
<1>1. TimedInv => ScheduledIffArmed
  BY DEF TimedInv, Timely, Scheduled, ScheduledIffArmed
<1> QED
  BY <1>1, InitTimed, NextTimed, PTL DEF Spec

-----------------------------------------------------------------------------
(* No two runs and no two known items of a job at once                     *)

\* No two known items of a job.
KnownOne == \A x, y \in items : x.known /\ y.known /\ x.job = y.job => x = y

\* A known item on the peer is the one the job remembers.
PeerRemembered ==
    \A x \in items : x.known /\ x.host = "peer" => queued[x.job] = {"peer"}

(* What the first run of a job has seen: while it asks, it asks the peer   *)
(* if a known item is there; once it is clear, no item of the job is known. *)
Seen(s, j) ==
    /\ s.phase = "asking" =>
         \A x \in items : x.known /\ x.job = j /\ x.host = "peer" => "peer" \in s.last
    /\ s.phase = "clear" => \A x \in items : x.job = j => ~x.known

Asked == \A j \in JobIds : runs[j] # <<>> => Seen(runs[j][1], j)

(* A job is idle, or one manual run of it is on its way, or one run is     *)
(* under way.                                                              *)
Idle(j) == j \notin running /\ chan[j] = <<>> /\ runs[j] = <<>>
Coming(j) == j \in running /\ runs[j] = <<>> /\ \E x \in Job : chan[j] = <<x>>
Going(j) == j \in running /\ chan[j] = <<>> /\ \E r \in Run : runs[j] = <<r>>
OneRun == \A j \in JobIds : Idle(j) \/ Coming(j) \/ Going(j)

OverlapInv == TimedInv /\ OneRun /\ KnownOne /\ PeerRemembered /\ Asked

LEMMA OneRunIsRunning == OneRun => RunningIsRun
<1> SUFFICES ASSUME OneRun, NEW j \in JobIds
             PROVE  Len(chan[j]) + Len(runs[j]) = IF j \in running THEN 1 ELSE 0
  BY DEF RunningIsRun
<1>1. CASE Idle(j)
  BY <1>1 DEF Idle
<1>2. CASE Coming(j)
  BY <1>2 DEF Coming
<1>3. CASE Going(j)
  BY <1>3 DEF Going
<1> QED
  BY <1>1, <1>2, <1>3 DEF OneRun

(* Short sequences.                                                        *)
LEMMA ShortSeqs ==
    ASSUME NEW x, NEW y
    PROVE  /\ Append(<<>>, x) = <<x>> /\ Tail(<<x>>) = <<>> /\ Head(<<x>>) = x
           /\ <<x>>[1] = x /\ <<x>> # <<>>
           /\ [<<x>> EXCEPT ![1] = y] = <<y>>
  OBVIOUS

LEMMA InitOverlap == Init => OverlapInv
<1> SUFFICES ASSUME Init PROVE OverlapInv
  OBVIOUS
<1>1. /\ running = {} /\ items = {}
      /\ chan = [j \in JobIds |-> <<>>] /\ runs = [j \in JobIds |-> <<>>]
  BY DEF Init
<1>2. OneRun
  BY <1>1 DEF OneRun, Idle
<1>3. KnownOne /\ PeerRemembered /\ Asked
  BY <1>1 DEF KnownOne, PeerRemembered, Asked
<1> QED
  BY <1>2, <1>3, InitTimed DEF OverlapInv

(* Steps that leave runs and items alone.                                  *)
LEMMA StillApart ==
    ASSUME OverlapInv, TimedInv', UNCHANGED <<tasks, items>>
    PROVE  OverlapInv'
  BY DEF OverlapInv, tasks, OneRun, Idle, Coming, Going, KnownOne,
         PeerRemembered, Asked, Seen

(* An item that starts or ends stays the item it is.                       *)
LEMMA ItemsApart ==
    ASSUME OverlapInv, TimedInv', NEW x \in items, ItemStarts(x) \/ ItemEnds(x)
    PROVE  OverlapInv'
<1>1. UNCHANGED tasks
  BY DEF ItemStarts, ItemEnds
<1> DEFINE Same(y, z) == /\ z \in items /\ y.job = z.job /\ y.known = z.known
                         /\ y.host = z.host
           s == [x EXCEPT !.state = "running"]
<1>2. ASSUME NEW y \in items'
      PROVE  \E z \in items : Same(y, z) /\ (y # z => y = s /\ z = x /\ x \notin items')
  <2>1. CASE ItemEnds(x)
    BY <1>2, <2>1 DEF ItemEnds
  <2>2. CASE ItemStarts(x)
    <3>1. x \in QueueItem /\ x.state = "queued"
      BY <2>2 DEF OverlapInv, TimedInv, TypeOK, ItemStarts
    <3>2. Same(s, x) /\ s # x
      BY <3>1 DEF QueueItem
    <3>3. items' = (items \ {x}) \cup {s}
      BY <2>2 DEF ItemStarts
    <3> HIDE DEF s
    <3>4. x \notin items'
      BY <3>2, <3>3
    <3> QED
      BY <1>2, <3>2, <3>3, <3>4
  <2> QED
    BY <2>1, <2>2
<1> HIDE DEF s
<1>3. KnownOne'
  <2> SUFFICES ASSUME NEW y \in items', NEW z \in items',
                      y.known, z.known, y.job = z.job
               PROVE  y = z
    BY DEF KnownOne
  <2>1. PICK a \in items : Same(y, a) /\ (y # a => y = s /\ a = x /\ x \notin items')
    BY <1>2
  <2>2. PICK b \in items : Same(z, b) /\ (z # b => z = s /\ b = x /\ x \notin items')
    BY <1>2
  <2>3. a = b
    BY <2>1, <2>2 DEF OverlapInv, KnownOne
  <2> QED
    BY <2>1, <2>2, <2>3
<1>4. PeerRemembered' /\ OneRun' /\ Asked'
  <2>1. PeerRemembered'
    BY <1>1, <1>2 DEF OverlapInv, PeerRemembered, tasks
  <2>2. OneRun'
    BY <1>1 DEF OverlapInv, OneRun, Idle, Coming, Going, tasks
  <2>3. Asked'
    <3>1. Asked /\ runs' = runs
      BY <1>1 DEF OverlapInv, tasks
    <3>2. \A g, j : Seen(g, j) => Seen(g, j)'
      <4> SUFFICES ASSUME NEW g, NEW j, Seen(g, j) PROVE Seen(g, j)'
        OBVIOUS
      <4>1. ASSUME NEW y \in items'
            PROVE  \E z \in items : Same(y, z)
        BY <1>2, <4>1
      <4> QED
        BY <4>1 DEF Seen
    <3> QED
      BY <3>1, <3>2 DEF Asked
  <2> QED
    BY <2>1, <2>2, <2>3
<1> QED
  BY <1>3, <1>4 DEF OverlapInv

(* A restart forgets the runs and what it knew of the peer's items.        *)
LEMMA RestartApart ==
    ASSUME OverlapInv, TimedInv', Restart
    PROVE  OverlapInv'
<1>1. /\ running' = {} /\ chan' = [j \in JobIds |-> <<>>]
      /\ runs' = [j \in JobIds |-> <<>>]
  BY DEF Restart
<1>2. \A y \in items' : y.known => y \in items /\ y.host = "local"
  <2>1. \A x \in items : [x EXCEPT !.known = FALSE].known = FALSE
    BY DEF OverlapInv, TimedInv, TypeOK, QueueItem
  <2> QED
    BY <2>1 DEF Restart
<1>3. KnownOne' /\ PeerRemembered'
  BY <1>2 DEF OverlapInv, KnownOne, PeerRemembered
<1>4. OneRun' /\ Asked'
  BY <1>1 DEF OneRun, Idle, Asked
<1> QED
  BY <1>3, <1>4 DEF OverlapInv

(* Steps that leave items and what is remembered of them alone.            *)
LEMMA KnownStays ==
    ASSUME OverlapInv, UNCHANGED <<items, queued>>
    PROVE  KnownOne' /\ PeerRemembered'
  BY DEF OverlapInv, KnownOne, PeerRemembered

LEMMA Shapes ==
    ASSUME OverlapInv
    PROVE  /\ chan \in [JobIds -> Seq(Job)] /\ runs \in [JobIds -> Seq(Run)]
           /\ running \subseteq JobIds /\ OneRun /\ Asked
  BY DEF OverlapInv, TimedInv, TypeOK

(* The states of a job, told apart.                                        *)
LEMMA States ==
    ASSUME OverlapInv, NEW j \in JobIds
    PROVE  /\ j \notin running => Idle(j)
           /\ chan[j] # <<>> => Coming(j)
           /\ runs[j] # <<>> => Going(j)
<1>1. \A x : <<x>> # <<>>
  BY ShortSeqs
<1> QED
  BY <1>1, Shapes DEF OneRun, Idle, Coming, Going

(* The other jobs stay as they are.                                        *)
LEMMA OthersStay ==
    ASSUME OverlapInv, NEW i \in JobIds,
           i \in running <=> i \in running',
           chan'[i] = chan[i], runs'[i] = runs[i]
    PROVE  Idle(i)' \/ Coming(i)' \/ Going(i)'
  BY Shapes DEF OneRun, Idle, Coming, Going

LEMMA RunNowApart ==
    ASSUME OverlapInv, TimedInv', NEW j \in JobIds, RunNow(j)
    PROVE  OverlapInv'
<1>1. /\ UNCHANGED <<queued, runs, items>>
      /\ \/ UNCHANGED <<running, chan>>
         \/ /\ j \notin running /\ running' = running \cup {j}
            /\ \E x \in {CHOOSE x \in Reloaded.jobs[j] : TRUE} :
                 chan' = [chan EXCEPT ![j] = Append(@, x)]
  BY DEF RunNow, outside
<1>2. KnownOne' /\ PeerRemembered'
  BY <1>1, KnownStays
<1>3. Asked'
  BY <1>1 DEF OverlapInv, Asked, Seen
<1>4. OneRun'
  <2>1. CASE UNCHANGED <<running, chan>>
    BY <1>1, <2>1, OthersStay DEF OneRun
  <2>2. CASE ~UNCHANGED <<running, chan>>
    <3>1. PICK x : chan' = [chan EXCEPT ![j] = Append(@, x)]
      BY <1>1, <2>2
    <3>2. j \notin running /\ running' = running \cup {j}
      BY <1>1, <2>2
    <3>3. Idle(j)
      BY <3>2, States
    <3>4. chan'[j] = <<x>>
      BY <3>1, <3>3, Shapes, ShortSeqs DEF Idle
    <3>5. Coming(j)'
      <4>1. chan'[j] \in Seq(Job)
        BY DEF TimedInv, TypeOK
      <4>2. Len(<<x>>) = 1 /\ <<x>>[1] = x
        OBVIOUS
      <4>3. x \in Job
        BY <3>4, <4>1, <4>2
      <4> QED
        BY <1>1, <3>2, <3>3, <3>4, <4>3 DEF Coming, Idle
    <3>6. \A i \in JobIds \ {j} : Idle(i)' \/ Coming(i)' \/ Going(i)'
      BY <1>1, <3>1, <3>2, OthersStay, Shapes
    <3> QED
      BY <3>5, <3>6 DEF OneRun
  <2> QED
    BY <2>1, <2>2
<1> QED
  BY <1>2, <1>3, <1>4 DEF OverlapInv

\* A run that begins.
Begun(s) == s \in Run /\ s.phase = "begun"

LEMMA BegunAlone ==
    ASSUME NEW r, Begun(r), NEW j \in JobIds, Idle(j) \/ Coming(j),
           runs'[j] = Append(runs[j], r), chan'[j] = <<>>, j \in running'
    PROVE  Going(j)' /\ Seen(runs[j][1], j)'
<1>1. runs'[j] = <<r>> /\ <<r>>[1] = r
  BY ShortSeqs DEF Idle, Coming
<1>2. r \in Run /\ r.phase = "begun"
  BY DEF Begun
<1> QED
  BY <1>1, <1>2 DEF Going, Seen

(* What the first run of a job has seen stays so while the items stay.     *)
LEMMA SeenStays ==
    ASSUME OverlapInv, NEW i \in JobIds, runs'[i] # <<>>, runs'[i] = runs[i],
           UNCHANGED items
    PROVE  Seen(runs[i][1], i)'
  BY Shapes DEF Asked, Seen

LEMMA TakeApart ==
    ASSUME OverlapInv, TimedInv', NEW j \in JobIds, Take(j)
    PROVE  OverlapInv'
<1> DEFINE r == [phase |-> "begun", last |-> {}, job |-> Head(chan[j])]
<1>1. /\ chan[j] # <<>> /\ chan' = [chan EXCEPT ![j] = Tail(@)]
      /\ runs' = [runs EXCEPT ![j] = Append(@, r)]
      /\ UNCHANGED <<running, queued, items>>
  BY DEF Take, outside
<1>2. Coming(j)
  BY <1>1, States
<1>3. PICK x \in Job : chan[j] = <<x>>
  BY <1>2 DEF Coming
<1>4. Head(chan[j]) = x /\ Tail(chan[j]) = <<>>
  BY <1>3, ShortSeqs
<1>5. Begun(r)
  BY <1>4 DEF Begun, Run, Option
<1> HIDE DEF r
<1>6. /\ runs'[j] = Append(runs[j], r) /\ chan'[j] = <<>>
      /\ \A i \in JobIds \ {j} : runs'[i] = runs[i] /\ chan'[i] = chan[i]
  BY <1>1, <1>4, Shapes
<1>7. Going(j)' /\ Seen(runs[j][1], j)'
  BY <1>1, <1>2, <1>5, <1>6, BegunAlone DEF Coming
<1>8. OneRun'
  BY <1>1, <1>6, <1>7, OthersStay DEF OneRun
<1>9. Asked'
  BY <1>1, <1>6, <1>7, SeenStays DEF Asked
<1> QED
  BY <1>1, <1>8, <1>9, KnownStays DEF OverlapInv

LEMMA FinishApart ==
    ASSUME OverlapInv, TimedInv', NEW j \in JobIds, Finish(j)
    PROVE  OverlapInv'
<1>1. /\ runs[j] # <<>> /\ runs' = [runs EXCEPT ![j] = Tail(@)]
      /\ running' = running \ {j} /\ UNCHANGED <<queued, chan, items>>
  BY DEF Finish, outside
<1>2. Going(j)
  BY <1>1, States
<1>3. PICK r \in Run : runs[j] = <<r>>
  BY <1>2 DEF Going
<1>4. /\ runs'[j] = <<>>
      /\ \A i \in JobIds \ {j} : runs'[i] = runs[i]
  BY <1>1, <1>3, Shapes, ShortSeqs
<1>5. Idle(j)'
  BY <1>1, <1>2, <1>4 DEF Idle, Going
<1>6. OneRun'
  BY <1>1, <1>4, <1>5, OthersStay DEF OneRun
<1>7. Asked'
  BY <1>1, <1>4, SeenStays DEF Asked
<1> QED
  BY <1>1, <1>6, <1>7, KnownStays DEF OverlapInv

(* A due job that is running is skipped.                                   *)
LEMMA DueApart ==
    ASSUME OverlapInv, TimedInv', Due
    PROVE  OverlapInv'
<1> DEFINE due == DueJobs(Reloaded)
           r(j) == [phase |-> "begun", last |-> {},
                    job |-> CHOOSE x \in AfterDue.jobs[j] : TRUE]
<1>1. /\ running' = running \cup due
      /\ runs' = [j \in JobIds |-> IF j \in due \ running
                                  THEN Append(runs[j], r(j)) ELSE runs[j]]
      /\ UNCHANGED <<queued, chan, items>>
  BY DueShape
<1>2. \A j \in JobIds : j \in due => Begun(r(j))
  <2>1. TimedInv /\ {} \in Option(AllHosts)
    BY DEF OverlapInv, Option
  <2>2. ASSUME NEW j \in JobIds, j \in due
        PROVE  (CHOOSE x \in AfterDue.jobs[j] : TRUE) \in Job
    BY <2>1, <2>2, DueJobMade
  <2> QED
    BY <2>1, <2>2 DEF Begun, Run
<1> HIDE DEF due, r
<1>3. \A j \in JobIds : j \in due \ running => Going(j)' /\ Seen(runs[j][1], j)'
  <2> SUFFICES ASSUME NEW j \in JobIds, j \in due \ running
               PROVE  Going(j)' /\ Seen(runs[j][1], j)'
    OBVIOUS
  <2>1. Idle(j)
    BY States
  <2>2. runs'[j] = Append(runs[j], r(j)) /\ Begun(r(j))
    BY <1>1, <1>2
  <2>3. chan'[j] = <<>> /\ j \in running'
    BY <1>1, <2>1 DEF Idle
  <2> QED
    BY <2>1, <2>2, <2>3, BegunAlone
<1>4. \A j \in JobIds : j \notin due \ running =>
        /\ runs'[j] = runs[j] /\ chan'[j] = chan[j]
        /\ j \in running <=> j \in running'
  BY <1>1
<1>5. OneRun'
  BY <1>3, <1>4, OthersStay DEF OneRun
<1>6. Asked'
  BY <1>1, <1>3, <1>4, SeenStays DEF Asked
<1> QED
  BY <1>1, <1>5, <1>6, KnownStays DEF OverlapInv

(* The steps of a run.  Only Submit adds an item the hub knows of, and it   *)
(* does so in a run that found no other.                                   *)
LEMMA PhaseBecomes ==
    ASSUME runs \in [JobIds -> Seq(Run)], NEW j \in JobIds, NEW p, To(j, p),
           NEW r \in Run, runs[j] = <<r>>
    PROVE  runs'[j][1].phase = p
<1>1. runs'[j] = [<<r>> EXCEPT ![1] = [r EXCEPT !.phase = p]]
  BY DEF To
<1>2. [r EXCEPT !.phase = p].phase = p
  BY DEF Run
<1>3. runs'[j] = <<[r EXCEPT !.phase = p]>>
  BY <1>1
<1> DEFINE n == [r EXCEPT !.phase = p]
<1>4. n.phase = p /\ runs'[j] = <<n>>
  BY <1>2, <1>3
<1> HIDE DEF n
<1>5. runs'[j][1] = n
  BY <1>4, ShortSeqs
<1> QED
  BY <1>4, <1>5

LEMMA HeadApart ==
    ASSUME OverlapInv, TimedInv', NEW j \in JobIds, HeadStep(j)
    PROVE  OverlapInv'
<1>1. TimedInv /\ TypeOK
  BY DEF OverlapInv, TimedInv
<1>2. PICK q \in Run :
        /\ HeadBecomes(j, q)
        /\ \/ q.phase = "done"
           \/ q.phase = "asking" /\ q.last = queued[j]
           \/ /\ q.phase = "clear" /\ runs[j][1].phase = "asking"
              /\ \E answers \in BOOLEAN : Free(j, runs[j][1].last, answers)
  BY <1>1, HeadShape
<1>3. runs[j] # <<>> /\ UNCHANGED <<running, chan>>
  BY <1>1, HeadShape
<1>4. Going(j)
  BY <1>3, States
<1>5. PICK r \in Run : runs[j] = <<r>>
  BY <1>4 DEF Going
<1>6. /\ runs[j][1] = r /\ Head(runs[j]) = r
      /\ runs'[j] = <<q>> /\ runs'[j][1] = q
      /\ \A i \in JobIds \ {j} : runs'[i] = runs[i]
  BY <1>2, <1>5, Shapes, ShortSeqs DEF HeadBecomes
<1>7. OneRun'
  <2>1. Going(j)'
    BY <1>3, <1>4, <1>6 DEF Going
  <2> QED
    BY <1>3, <1>6, <2>1, OthersStay DEF OneRun
<1>8. CASE ~Submit(j)
  <2>1. /\ UNCHANGED queued
        /\ \A x \in items' : x \in items \/ ~x.known
        /\ UNCHANGED items \/ q.phase = "done"
    <3>1. CASE SubmitUnknown(j)
      <4>1. q.phase = "done"
        <5>1. To(j, "done")
          BY <3>1 DEF SubmitUnknown
        <5> QED
          BY <1>5, <1>6, <5>1, PhaseBecomes, Shapes
      <4> QED
        BY <3>1, <4>1 DEF SubmitUnknown, Submitted
    <3>2. CASE Perform(j) \/ ReadLast(j) \/ \E answers \in BOOLEAN : Check(j, answers)
      BY <3>2 DEF Perform, ReadLast, Check, outside
    <3> QED
      BY <1>8, <3>1, <3>2 DEF HeadStep
  <2>2. items \subseteq items'
    BY DEF HeadStep, Perform, ReadLast, Check, SubmitUnknown, Submit, Submitted,
           outside
  <2>3. KnownOne' /\ PeerRemembered'
    BY <2>1 DEF OverlapInv, KnownOne, PeerRemembered
  <2>4. Seen(q, j)'
    <3>1. CASE q.phase = "done"
      BY <3>1 DEF Seen
    <3>2. CASE q.phase = "asking" /\ q.last = queued[j]
      BY <2>1, <3>2 DEF OverlapInv, PeerRemembered, Seen
    <3>3. CASE /\ q.phase = "clear" /\ runs[j][1].phase = "asking"
               /\ \E answers \in BOOLEAN : Free(j, runs[j][1].last, answers)
      <4>1. UNCHANGED items
        BY <2>1, <3>3
      <4>2. \A x \in items : x.host \in {"local", "peer"}
        BY <1>1 DEF TypeOK, QueueItem
      <4>3. Seen(r, j) /\ r.phase = "asking"
        BY <1>3, <1>6, <3>3, Shapes DEF Asked
      <4>4. \A x \in items : x.job = j => ~x.known
        BY <1>6, <3>3, <4>2, <4>3 DEF Seen, Free, ItemsOf
      <4> QED
        BY <3>3, <4>1, <4>4 DEF Seen
    <3> QED
      BY <1>2, <3>1, <3>2, <3>3
  <2>5. Asked'
    <3>1. ASSUME NEW i \in JobIds \ {j}, runs'[i] # <<>>
          PROVE  Seen(runs[i][1], i)'
      <4>1. Seen(runs[i][1], i) /\ runs'[i] = runs[i]
        BY <1>6, <3>1, Shapes DEF Asked
      <4> QED
        BY <2>1, <4>1 DEF Seen
    <3> QED
      BY <1>6, <2>4, <3>1 DEF Asked
  <2> QED
    BY <1>7, <2>3, <2>5 DEF OverlapInv
<1>9. CASE Submit(j)
  <2>1. /\ r.phase = "clear" /\ r.job = JobOf(j)
        /\ Submitted(j, r.job.host, TRUE)
        /\ queued' = [queued EXCEPT ![j] = {r.job.host}]
    BY <1>6, <1>9 DEF Submit, InPhase, JobOf, Remembered
  <2>2. q.phase = "done"
    <3>1. To(j, "done")
      BY <1>9 DEF Submit
    <3> QED
      BY <1>5, <1>6, <3>1, PhaseBecomes, Shapes
  <2>3. \A x \in items : x.job = j => ~x.known
    BY <1>3, <1>6, <2>1, Shapes DEF Asked, Seen
  <2>4. PICK y : items' = items \cup {y} /\ y.job = j /\ y.host = r.job.host
    <3> DEFINE y == [n |-> spent.item, job |-> j, host |-> r.job.host,
                     state |-> "queued", known |-> TRUE]
    <3>1. items' = items \cup {y} /\ y.job = j /\ y.host = r.job.host
      BY <2>1 DEF Submitted
    <3> QED
      BY <3>1
  <2>5. KnownOne'
    BY <2>3, <2>4 DEF OverlapInv, KnownOne
  <2>6. PeerRemembered'
    <3>1. queued \in [JobIds -> Option({"local", "peer"})]
      BY <1>1 DEF TypeOK
    <3>2. \A x \in items : x.known => x.job # j /\ x.job \in JobIds
      BY <1>1, <2>3 DEF TypeOK, QueueItem
    <3> QED
      BY <2>1, <2>4, <3>1, <3>2 DEF OverlapInv, PeerRemembered
  <2>7. Asked'
    <3>1. ASSUME NEW i \in JobIds \ {j}, runs'[i] # <<>>
          PROVE  Seen(runs[i][1], i)'
      <4>1. Seen(runs[i][1], i) /\ runs'[i] = runs[i]
        BY <1>6, <3>1, Shapes DEF Asked
      <4> QED
        BY <2>4, <4>1 DEF Seen
    <3> QED
      BY <1>6, <2>2, <3>1 DEF Asked, Seen
  <2> QED
    BY <1>7, <2>5, <2>6, <2>7 DEF OverlapInv
<1> QED
  BY <1>8, <1>9

LEMMA NextApart == OverlapInv /\ [Next]_vars => OverlapInv'
<1> SUFFICES ASSUME OverlapInv, [Next]_vars PROVE OverlapInv'
  OBVIOUS
<1>1. TimedInv'
  BY NextTimed DEF OverlapInv
<1>2. ASSUME NEW j \in JobIds, ChangeCall(j)
      PROVE  OverlapInv'
  BY <1>1, <1>2, ChangeShape, StillApart DEF OverlapInv, outside
<1>3. ASSUME NEW j \in JobIds, RunNow(j) \/ HeadStep(j) \/ Take(j) \/ Finish(j)
      PROVE  OverlapInv'
  BY <1>1, <1>3, RunNowApart, HeadApart, TakeApart, FinishApart
<1>4. CASE \/ (\E j \in JobIds, x \in Rows : Edit(j, x)) \/ Spoil
           \/ TimePasses \/ UNCHANGED vars
  <2>1. UNCHANGED <<tasks, items>>
    BY <1>4 DEF Edit, Spoil, TimePasses, vars, tasks, outside
  <2> QED
    BY <1>1, <2>1, StillApart
<1>5. ASSUME NEW x \in items, ItemStarts(x) \/ ItemEnds(x)
      PROVE  OverlapInv'
  BY <1>1, <1>5, ItemsApart
<1> QED
  BY <1>1, <1>2, <1>3, <1>4, <1>5, StepCases, DueApart, RestartApart

(* No two runs of a job are ever under way in the hub, and no two items of  *)
(* it that the hub knows of stand in the work queues, here and on the peer  *)
(* together, whatever the peer answers, however the job's host is changed   *)
(* and across restarts (jobs.rs execute, perform_queued, job_item_active). *)
THEOREM JobsNeverOverlap == Spec => []NeverOverlaps
<1>1. OverlapInv => NeverOverlaps
  <2> SUFFICES ASSUME OverlapInv PROVE NeverOverlaps
    OBVIOUS
  <2>1. ASSUME NEW j \in JobIds
        PROVE  Cardinality({x \in items : x.job = j /\ x.known}) <= 1
    <3> DEFINE X == {x \in items : x.job = j /\ x.known}
    <3>1. \A x, y \in X : x = y
      BY DEF OverlapInv, KnownOne
    <3>2. CASE X = {}
      BY <3>2, FS_EmptySet
    <3>3. ASSUME NEW x \in X
          PROVE  Cardinality(X) <= 1
      <4>1. X = {x}
        BY <3>1, <3>3
      <4> HIDE DEF X
      <4>2. Cardinality(X) = 1
        BY <4>1, FS_Singleton
      <4> QED
        BY <4>2
    <3> QED
      BY <3>2, <3>3
  <2> QED
    BY <2>1, OneRunIsRunning DEF OverlapInv, TimedInv, NeverOverlaps, KnownItemsAlone
<1>2. Init => OverlapInv
  BY InitOverlap
<1> QED
  BY <1>1, <1>2, NextApart, PTL DEF Spec

-----------------------------------------------------------------------------
(* Nothing runs that the owner has not approved                            *)

\* The rows of a table that are not proposals are approved.
Allowed(T) == \A j \in JobIds : \A x \in T[j] : x.proposal \/ x.action \in approved

(* What is on its way or under way is approved.                            *)
AllowedRun(j) ==
    /\ chan[j] # <<>> => chan[j][1].action \in approved
    /\ runs[j] # <<>> => runs[j][1].job.action \in approved

ApprovedInv ==
    /\ OverlapInv
    /\ Allowed(mem.jobs) /\ Allowed(file.spec)
    /\ \A j \in JobIds : AllowedRun(j)
    /\ launched \subseteq approved

LEMMA InitApproved == Init => ApprovedInv
<1> SUFFICES ASSUME Init PROVE ApprovedInv
  OBVIOUS
<1>1. mem.jobs = InitialFile /\ file.spec = InitialFile
  BY DEF Init
<1>2. \A j \in JobIds : \A x \in InitialFile[j] : x.proposal \/ x.action \in approved
  BY DEF Init
<1>3. \A j \in JobIds : chan[j] = <<>> /\ runs[j] = <<>>
  BY DEF Init
<1>4. launched = {}
  BY DEF Init
<1> QED
  BY <1>1, <1>2, <1>3, <1>4, InitOverlap DEF ApprovedInv, Allowed, AllowedRun

LEMMA ReloadAllowed ==
    ASSUME ApprovedInv
    PROVE  Allowed(Reloaded.jobs) /\ TypeOK /\ TimedInv
<1>1. TypeOK /\ TimedInv
  BY DEF ApprovedInv, OverlapInv, TimedInv
<1> QED
  BY <1>1, ReloadFacts DEF ApprovedInv

(* A write keeps what it is given.                                         *)
LEMMA PersistAllowed ==
    ASSUME ApprovedInv, NEW m \in Mem, Persist(m), Allowed(m.jobs)',
           approved \subseteq approved'
    PROVE  Allowed(mem.jobs)' /\ Allowed(file.spec)'
<1>1. /\ mem'.jobs = m.jobs
      /\ file'.spec = m.jobs \/ file'.spec = file.spec
  BY ReloadAllowed, PersistFacts
<1>2. \A j \in JobIds : \A x \in file.spec[j] : x.proposal \/ x.action \in approved'
  BY DEF ApprovedInv, Allowed
<1>3. \A j \in JobIds : \A x \in m.jobs[j] : x.proposal \/ x.action \in approved'
  BY DEF Allowed
<1> QED
  BY <1>1, <1>2, <1>3 DEF Allowed

(* Steps that leave the runs alone.                                        *)
LEMMA RunsAllowed ==
    ASSUME ApprovedInv, UNCHANGED <<chan, runs, launched>>, approved \subseteq approved'
    PROVE  (\A j \in JobIds : AllowedRun(j))' /\ launched' \subseteq approved'
  BY DEF ApprovedInv, AllowedRun

LEMMA ChangeAllowed ==
    ASSUME ApprovedInv, OverlapInv', NEW j \in JobIds, ChangeCall(j)
    PROVE  ApprovedInv'
<1>1. /\ HistoryGrows /\ UNCHANGED <<tasks, outside>>
      /\ \E m \in Mem : ChangesRows(m)
  BY ChangeShape DEF ApprovedInv, OverlapInv
<1>2. PICK m \in Mem : ChangesRows(m)
  BY <1>1
<1>3. approved \subseteq approved' /\ UNCHANGED <<chan, runs, launched>>
  BY <1>1 DEF HistoryGrows, tasks
<1>4. Allowed(m.jobs)'
  <2> SUFFICES ASSUME NEW i \in JobIds, NEW z \in m.jobs[i]
               PROVE  z.proposal \/ z.action \in approved'
    BY DEF Allowed
  <2>1. CASE Entered(i, z)
    BY <2>1 DEF Entered
  <2>2. CASE Stands(i, z)
    BY <1>3, <2>2, ReloadAllowed DEF Stands, Allowed
  <2> QED
    BY <1>2, <2>1, <2>2 DEF ChangesRows
<1> QED
  BY <1>2, <1>3, <1>4, PersistAllowed, RunsAllowed DEF ApprovedInv, ChangesRows

(* jobs.run starts an approved job.                                        *)
LEMMA RunNowAllowed ==
    ASSUME ApprovedInv, OverlapInv', NEW j \in JobIds, RunNow(j)
    PROVE  ApprovedInv'
<1> DEFINE x == CHOOSE x \in Reloaded.jobs[j] : TRUE
<1>1. /\ mem' = Reloaded /\ UNCHANGED <<file, runs, approved, launched>>
      /\ \/ UNCHANGED chan
         \/ j \notin running /\ chan' = [chan EXCEPT ![j] = Append(@, x)]
  BY DEF RunNow, history
<1>2. x.action \in approved
  <2>1. PICK y \in Reloaded.jobs[j] : ~y.proposal
    BY DEF RunNow, Runnable, Live
  <2>2. Reloaded.jobs[j] \in Option(Job)
    BY ReloadAllowed, ReloadFacts DEF Mem, Table
  <2>3. x = y
    BY <2>1, <2>2, OptionFacts
  <2> QED
    BY <2>1, <2>3, ReloadAllowed DEF Allowed
<1> HIDE DEF x
<1>3. \A i \in JobIds : AllowedRun(i)'
  <2>1. CASE UNCHANGED chan
    BY <1>1, <2>1 DEF ApprovedInv, AllowedRun
  <2>2. CASE j \notin running /\ chan' = [chan EXCEPT ![j] = Append(@, x)]
    <3>1. chan[j] = <<>> /\ chan \in [JobIds -> Seq(Job)]
      BY <2>2, States, Shapes DEF ApprovedInv, Idle
    <3>2. /\ chan'[j] = <<x>>
          /\ \A i \in JobIds \ {j} : chan'[i] = chan[i]
      BY <2>2, <3>1, ShortSeqs
    <3>3. chan'[j][1] = x
      BY <3>2, ShortSeqs
    <3> QED
      BY <1>1, <1>2, <3>2, <3>3 DEF ApprovedInv, AllowedRun
  <2> QED
    BY <1>1, <2>1, <2>2
<1>4. Allowed(mem.jobs)' /\ Allowed(file.spec)' /\ launched' \subseteq approved'
  BY <1>1, ReloadAllowed DEF ApprovedInv, Allowed
<1> QED
  BY <1>3, <1>4 DEF ApprovedInv

LEMMA TakeAllowed ==
    ASSUME ApprovedInv, OverlapInv', NEW j \in JobIds, Take(j)
    PROVE  ApprovedInv'
<1> DEFINE r == [phase |-> "begun", last |-> {}, job |-> Head(chan[j])]
<1>1. /\ chan[j] # <<>> /\ chan' = [chan EXCEPT ![j] = Tail(@)]
      /\ runs' = [runs EXCEPT ![j] = Append(@, r)]
      /\ UNCHANGED <<mem, file, approved, launched>>
  BY DEF Take, history
<1>2. Coming(j)
  BY <1>1, States DEF ApprovedInv
<1>3. PICK x \in Job : chan[j] = <<x>>
  BY <1>2 DEF Coming
<1>4. Head(chan[j]) = x /\ Tail(chan[j]) = <<>> /\ chan[j][1] = x
  BY <1>3, ShortSeqs
<1>5. r.job.action \in approved
  BY <1>1, <1>4 DEF ApprovedInv, AllowedRun
<1> HIDE DEF r
<1>6. /\ runs'[j] = <<r>> /\ chan'[j] = <<>>
      /\ \A i \in JobIds \ {j} : runs'[i] = runs[i] /\ chan'[i] = chan[i]
  BY <1>1, <1>2, <1>4, Shapes, ShortSeqs DEF Coming, ApprovedInv
<1>7. runs'[j][1] = r
  BY <1>6, ShortSeqs
<1>8. \A i \in JobIds : AllowedRun(i)'
  BY <1>1, <1>5, <1>6, <1>7 DEF ApprovedInv, AllowedRun
<1> QED
  BY <1>1, <1>8 DEF ApprovedInv, Allowed

LEMMA FinishAllowed ==
    ASSUME ApprovedInv, OverlapInv', NEW j \in JobIds, Finish(j)
    PROVE  ApprovedInv'
<1>1. /\ runs[j] # <<>> /\ runs' = [runs EXCEPT ![j] = Tail(@)]
      /\ UNCHANGED <<mem, file, chan, approved, launched>>
  BY DEF Finish, history
<1>2. PICK r \in Run : runs[j] = <<r>>
  BY <1>1, States DEF Going, ApprovedInv
<1>3. /\ runs'[j] = <<>>
      /\ \A i \in JobIds \ {j} : runs'[i] = runs[i]
  BY <1>1, <1>2, Shapes, ShortSeqs DEF ApprovedInv
<1>4. \A i \in JobIds : AllowedRun(i)'
  BY <1>1, <1>3 DEF ApprovedInv, AllowedRun
<1> QED
  BY <1>1, <1>4 DEF ApprovedInv, Allowed

LEMMA HeadAllowed ==
    ASSUME ApprovedInv, OverlapInv', NEW j \in JobIds, HeadStep(j)
    PROVE  ApprovedInv'
<1>1. TypeOK /\ runs[j] # <<>>
  BY ReloadAllowed, HeadShape
<1>2. PICK q \in Run : HeadBecomes(j, q) /\ q.job = runs[j][1].job
  BY <1>1, HeadShape
<1>3. UNCHANGED <<mem, file, chan, approved>>
  BY <1>1, HeadShape
<1>4. /\ runs'[j][1] = q
      /\ \A i \in JobIds \ {j} : runs'[i] = runs[i]
  BY <1>1, <1>2, HeadFacts DEF TypeOK
<1>5. \A i \in JobIds : AllowedRun(i)'
  BY <1>1, <1>2, <1>3, <1>4 DEF ApprovedInv, AllowedRun
<1>6. launched' \subseteq launched \cup {JobOf(j).action}
  BY DEF HeadStep, Perform, ReadLast, Check, Submit, SubmitUnknown, Submitted,
         history
<1>7. JobOf(j).action \in approved
  BY <1>1, FirstRun DEF TypeOK, JobOf, ApprovedInv, AllowedRun
<1> QED
  BY <1>3, <1>5, <1>6, <1>7 DEF ApprovedInv, Allowed

(* A firing disarms or reschedules, and starts what it read.               *)
LEMMA DueAllowed ==
    ASSUME ApprovedInv, OverlapInv', Due
    PROVE  ApprovedInv'
<1> DEFINE due == DueJobs(Reloaded)
           X(j) == CHOOSE x \in AfterDue.jobs[j] : TRUE
           r(j) == [phase |-> "begun", last |-> {}, job |-> X(j)]
<1>1. /\ \/ Persist(AfterDue)
         \/ mem' = AfterDue /\ UNCHANGED <<file, refused>>
      /\ runs' = [j \in JobIds |-> IF j \in due \ running
                                  THEN Append(runs[j], r(j)) ELSE runs[j]]
      /\ UNCHANGED <<chan, approved, launched>>
  BY DueShape
<1>2. TimedInv /\ Allowed(Reloaded.jobs)
  BY ReloadAllowed
<1>3. AfterDue \in Mem
  BY <1>2, DueFacts
<1>4. Allowed(AfterDue.jobs)
  <2> SUFFICES ASSUME NEW j \in JobIds, NEW x \in AfterDue.jobs[j]
               PROVE  x.proposal \/ x.action \in approved
    BY DEF Allowed
  <2>1. CASE j \in OnceJobs(Reloaded)
    BY <1>2, <2>1, DueFacts DEF Allowed
  <2>2. CASE j \notin OnceJobs(Reloaded)
    BY <1>2, <2>2, DueFacts DEF Allowed
  <2> QED
    BY <2>1, <2>2
<1>5. \A j \in JobIds : j \in due => X(j).action \in approved
  <2> SUFFICES ASSUME NEW j \in JobIds, j \in due
               PROVE  X(j).action \in approved
    OBVIOUS
  <2>1. PICK x \in AfterDue.jobs[j] : \E y \in Reloaded.jobs[j] :
          x.action = y.action /\ ~y.proposal /\ X(j) = x
    BY <1>2, DueFacts
  <2> QED
    BY <1>2, <2>1 DEF Allowed
<1> HIDE DEF due, X
<1>6. \A j \in JobIds : j \in due => r(j).job.action \in approved
  BY <1>5
<1> HIDE DEF r
<1>7. Allowed(mem.jobs)' /\ Allowed(file.spec)'
  <2>1. CASE Persist(AfterDue)
    <3>1. PICK m \in Mem : m = AfterDue
      BY <1>3
    <3>2. \A j \in JobIds : \A x \in m.jobs[j] : x.proposal \/ x.action \in approved'
      BY <1>1, <1>4, <3>1 DEF Allowed
    <3>3. Allowed(m.jobs)'
      BY <3>2 DEF Allowed
    <3> QED
      BY <1>1, <2>1, <3>1, <3>3, PersistAllowed
  <2>2. CASE mem' = AfterDue /\ UNCHANGED <<file, refused>>
    BY <1>1, <1>4, <2>2 DEF ApprovedInv, Allowed
  <2> QED
    BY <1>1, <2>1, <2>2
<1>8. \A j \in JobIds : AllowedRun(j)'
  <2> SUFFICES ASSUME NEW j \in JobIds PROVE AllowedRun(j)'
    OBVIOUS
  <2>1. CASE j \in due \ running
    <3>1. runs[j] = <<>>
      BY <2>1, States DEF ApprovedInv, Idle
    <3>2. runs'[j] = <<r(j)>>
      BY <1>1, <2>1, <3>1, ShortSeqs
    <3>3. runs'[j][1] = r(j)
      BY <3>2, ShortSeqs
    <3> QED
      BY <1>1, <1>6, <2>1, <3>3 DEF ApprovedInv, AllowedRun
  <2>2. CASE j \notin due \ running
    BY <1>1, <2>2 DEF ApprovedInv, AllowedRun
  <2> QED
    BY <2>1, <2>2
<1> QED
  BY <1>1, <1>7, <1>8 DEF ApprovedInv

LEMMA OutsideAllowed ==
    ASSUME ApprovedInv, OverlapInv',
           \/ (\E j \in JobIds, x \in Rows : Edit(j, x)) \/ Spoil
           \/ TimePasses \/ (\E x \in items : ItemStarts(x) \/ ItemEnds(x))
           \/ UNCHANGED vars
    PROVE  ApprovedInv'
<1>1. UNCHANGED <<mem, chan, runs, launched>> /\ approved \subseteq approved'
  BY DEF Edit, Stores, Spoil, TimePasses, ItemStarts, ItemEnds, vars, tasks, history
<1>2. Allowed(file.spec)'
  <2>1. ASSUME NEW j \in JobIds, NEW x \in Rows, Edit(j, x)
        PROVE  Allowed(file.spec)'
    <3>1. x.action \in approved'
      BY <2>1 DEF Edit, Stores, Rows
    <3>2. file'.spec = [file.spec EXCEPT ![j] = {x}] /\ file.spec \in Table
      BY <2>1, ReloadAllowed DEF Edit, TypeOK, File
    <3> QED
      BY <1>1, <3>1, <3>2 DEF ApprovedInv, Allowed, Table
  <2>2. CASE Spoil
    <3>1. file'.spec = file.spec
      BY <2>2, ReloadAllowed DEF Spoil, TypeOK, File
    <3> QED
      BY <1>1, <3>1 DEF ApprovedInv, Allowed
  <2>3. CASE UNCHANGED file
    BY <1>1, <2>3 DEF ApprovedInv, Allowed
  <2>4. \/ (\E j \in JobIds, x \in Rows : Edit(j, x)) \/ Spoil \/ UNCHANGED file
    BY DEF TimePasses, ItemStarts, ItemEnds, vars
  <2> QED
    BY <2>1, <2>2, <2>3, <2>4
<1> QED
  BY <1>1, <1>2, RunsAllowed DEF ApprovedInv, Allowed

LEMMA RestartAllowed ==
    ASSUME ApprovedInv, OverlapInv', Restart
    PROVE  ApprovedInv'
<1>1. /\ mem' = RestartedMem /\ UNCHANGED <<file, approved, launched>>
      /\ \A j \in JobIds : chan'[j] = <<>> /\ runs'[j] = <<>>
  BY DEF Restart, RestartedMem, history
<1>2. \A j \in JobIds : RestartedMem.jobs[j] \subseteq file.spec[j]
  BY ReloadAllowed, RestartFacts
<1>3. Allowed(mem.jobs)' /\ Allowed(file.spec)'
  BY <1>1, <1>2 DEF ApprovedInv, Allowed
<1> QED
  BY <1>1, <1>3 DEF ApprovedInv, AllowedRun

LEMMA NextApproved == ApprovedInv /\ [Next]_vars => ApprovedInv'
<1> SUFFICES ASSUME ApprovedInv, [Next]_vars PROVE ApprovedInv'
  OBVIOUS
<1>1. OverlapInv'
  BY NextApart DEF ApprovedInv
<1>2. ASSUME NEW j \in JobIds,
             ChangeCall(j) \/ RunNow(j) \/ HeadStep(j) \/ Take(j) \/ Finish(j)
      PROVE  ApprovedInv'
  BY <1>1, <1>2, ChangeAllowed, RunNowAllowed, HeadAllowed, TakeAllowed,
     FinishAllowed
<1> QED
  BY <1>1, <1>2, StepCases, DueAllowed, RestartAllowed, OutsideAllowed

(* What an agent proposed never starts before the owner approved it, by the *)
(* schedule or by hand, through edits of the proposal and of the file,      *)
(* refused writes and restarts (jobs.rs propose, upsert, run, due).         *)
THEOREM OnlyApprovedRuns == Spec => []ApprovedOnly
<1>1. ApprovedInv => ApprovedOnly
  BY DEF ApprovedInv, ApprovedOnly
<1> QED
  BY <1>1, InitApproved, NextApproved, PTL DEF Spec

-----------------------------------------------------------------------------
(* While no write of the file is refused                                   *)

\* No write of the file is refused.
WritesSucceed == MaxWriteFailures = 0

LEMMA Written ==
    ASSUME TypeOK, WritesSucceed, NEW m \in Mem, Persist(m)
    PROVE  /\ mem'.jobs = m.jobs /\ file'.spec = m.jobs /\ file'.readable
           /\ mem'.seen = {m.jobs}
<1>1. ~(refused < MaxWriteFailures)
  BY DEF TypeOK, WritesSucceed
<1> QED
  BY <1>1, PersistFacts

\* An armed once trigger has fired less often than it was armed.
Owed(T) == \A j \in JobIds : \A x \in T[j] : Waits(x) => fired[j] < armed[j]

OnceInv == TimedInv /\ OnceFires /\ Owed(mem.jobs) /\ Owed(file.spec)

LEMMA InitOnce == Init => OnceInv
<1> SUFFICES ASSUME Init PROVE OnceInv
  OBVIOUS
<1>1. /\ mem.jobs = InitialFile /\ file.spec = InitialFile
      /\ fired = [j \in JobIds |-> 0]
      /\ armed = [j \in JobIds |->
             Cardinality({x \in InitialFile[j] : x.trigger.kind = "once"})]
  BY DEF Init
<1>2. armed \in [JobIds -> Nat]
  BY InitTimed DEF TimedInv, TypeOK
<1>3. OnceFires
  BY <1>1, <1>2 DEF OnceFires
<1>4. ASSUME NEW j \in JobIds, NEW x \in InitialFile[j], Waits(x)
      PROVE  fired[j] < armed[j]
  <2>1. InitialFile[j] = {x}
    BY <1>4, FileAssumption, OptionFacts DEF Table
  <2>2. {y \in InitialFile[j] : y.trigger.kind = "once"} = {x}
    BY <1>4, <2>1 DEF Waits
  <2>3. Cardinality({x}) = 1
    BY FS_Singleton
  <2>4. armed[j] = 1 /\ fired[j] = 0
    BY <1>1, <2>2, <2>3
  <2> QED
    BY <2>4
<1> QED
  BY <1>1, <1>3, <1>4, InitTimed DEF OnceInv, Owed

LEMMA ReloadOwed ==
    ASSUME OnceInv
    PROVE  /\ Owed(Reloaded.jobs) /\ TypeOK /\ TimedInv
           /\ fired \in [JobIds -> Nat] /\ armed \in [JobIds -> Nat]
<1>1. TypeOK /\ TimedInv
  BY DEF OnceInv, TimedInv
<1> QED
  BY <1>1, ReloadFacts DEF OnceInv, TypeOK

\* What an owner's word makes of what is owed.
LEMMA WordOwed ==
    ASSUME OnceInv, HistoryGrows
    PROVE  /\ OnceFires'
           /\ \A i \in JobIds : fired[i] < armed[i] => fired'[i] < armed'[i]
           /\ \A i \in JobIds : armed'[i] = armed[i] + 1 => fired'[i] < armed'[i]
<1>1. /\ fired' = fired
      /\ \A i \in JobIds : /\ fired[i] \in Nat /\ armed[i] \in Nat
                           /\ armed'[i] \in Nat /\ armed[i] <= armed'[i]
                           /\ fired[i] <= armed[i]
  BY ReloadOwed DEF HistoryGrows, OnceInv, OnceFires
<1>2. \A i \in JobIds : fired'[i] <= armed'[i]
  BY <1>1
<1>3. \A i \in JobIds : fired[i] < armed[i] => fired'[i] < armed'[i]
  BY <1>1
<1>4. \A i \in JobIds : armed'[i] = armed[i] + 1 => fired'[i] < armed'[i]
  BY <1>1
<1> QED
  BY <1>2, <1>3, <1>4 DEF OnceFires

LEMMA ChangeOnce ==
    ASSUME OnceInv, WritesSucceed, TimedInv', NEW j \in JobIds, ChangeCall(j)
    PROVE  OnceInv'
<1>1. HistoryGrows
  BY ChangeShape, ReloadOwed
<1>2. PICK m \in Mem : ChangesRows(m)
  BY ChangeShape, ReloadOwed
<1>3. mem'.jobs = m.jobs /\ file'.spec = m.jobs
  BY <1>2, Written, ReloadOwed DEF ChangesRows
<1>4. ASSUME NEW i \in JobIds, NEW z \in m.jobs[i], Waits(z)
      PROVE  fired'[i] < armed'[i]
  <2>1. CASE Entered(i, z)
    BY <1>1, <1>4, <2>1, WordOwed DEF Entered
  <2>2. CASE Stands(i, z)
    BY <1>1, <1>4, <2>2, WordOwed, ReloadOwed DEF Stands, Owed
  <2> QED
    BY <1>2, <2>1, <2>2 DEF ChangesRows
<1> QED
  BY <1>1, <1>3, <1>4, WordOwed DEF OnceInv, Owed

(* A firing disarms the trigger in the file before its run.                *)
LEMMA DueOnce ==
    ASSUME OnceInv, WritesSucceed, TimedInv', Due
    PROVE  OnceInv'
<1> DEFINE once == OnceJobs(Reloaded)
<1>1. /\ \/ once # {} /\ Persist(AfterDue)
         \/ once = {} /\ mem' = AfterDue /\ UNCHANGED <<file, refused>>
      /\ fired' = [j \in JobIds |-> IF j \in once THEN fired[j] + 1 ELSE fired[j]]
      /\ UNCHANGED armed
  BY DueShape
<1>2. /\ Owed(Reloaded.jobs) /\ TypeOK /\ TimedInv
      /\ fired \in [JobIds -> Nat] /\ armed \in [JobIds -> Nat]
  BY ReloadOwed
<1>3. \A j \in JobIds : j \in once => fired[j] < armed[j]
  <2> SUFFICES ASSUME NEW j \in JobIds, j \in once PROVE fired[j] < armed[j]
    OBVIOUS
  <2>1. PICK y \in Reloaded.jobs[j] : y.enabled /\ ~y.proposal
    BY DEF OnceJobs, DueJobs
  <2>2. PICK z \in Reloaded.jobs[j] : z.trigger.kind = "once"
    BY DEF OnceJobs
  <2>3. Reloaded.jobs[j] \in Option(Job)
    BY <1>2, ReloadFacts DEF Mem, Table
  <2>4. y = z
    BY <2>3, OptionFacts
  <2> QED
    BY <1>2, <2>1, <2>2, <2>4 DEF Owed, Waits
<1>4. AfterDue \in Mem
  BY <1>2, DueFacts
<1>5. \A j \in JobIds : /\ j \in once => \A x \in AfterDue.jobs[j] : ~Waits(x)
                        /\ j \notin once => AfterDue.jobs[j] = Reloaded.jobs[j]
  BY <1>2, DueFacts DEF Waits
<1> HIDE DEF once
<1>6. OnceFires'
  <2> SUFFICES ASSUME NEW j \in JobIds PROVE fired'[j] <= armed'[j]
    BY DEF OnceFires
  <2>1. fired[j] \in Nat /\ armed[j] \in Nat /\ armed' = armed
    BY <1>1, <1>2
  <2>2. CASE j \in once
    <3>1. fired[j] < armed[j] /\ fired'[j] = fired[j] + 1
      BY <1>1, <1>3, <2>2
    <3> QED
      BY <2>1, <3>1
  <2>3. CASE j \notin once
    <3>1. fired[j] <= armed[j] /\ fired'[j] = fired[j]
      BY <1>1, <2>3 DEF OnceInv, OnceFires
    <3> QED
      BY <2>1, <3>1
  <2> QED
    BY <2>2, <2>3
<1>7. ASSUME NEW j \in JobIds, NEW x \in AfterDue.jobs[j], Waits(x)
      PROVE  fired'[j] < armed'[j]
  <2>1. j \notin once
    BY <1>5, <1>7
  <2>2. fired[j] < armed[j]
    BY <1>2, <1>5, <1>7, <2>1 DEF Owed
  <2> QED
    BY <1>1, <2>1, <2>2
<1>8. CASE once # {}
  <2>1. mem'.jobs = AfterDue.jobs /\ file'.spec = AfterDue.jobs
    BY <1>1, <1>2, <1>4, <1>8, Written
  <2> QED
    BY <1>6, <1>7, <2>1 DEF OnceInv, Owed
<1>9. CASE once = {}
  <2>1. mem'.jobs = AfterDue.jobs /\ file' = file
    BY <1>1, <1>9
  <2>2. \A j \in JobIds : fired'[j] = fired[j] /\ armed'[j] = armed[j]
    BY <1>1, <1>9
  <2> QED
    BY <1>6, <1>7, <2>1, <2>2 DEF OnceInv, Owed
<1> QED
  BY <1>8, <1>9

LEMMA EditOnce ==
    ASSUME OnceInv, TimedInv', (\E j \in JobIds, x \in Rows : Edit(j, x)) \/ Spoil
    PROVE  OnceInv'
<1>1. mem' = mem /\ HistoryGrows
  BY EditTimed, ReloadOwed DEF Edit, Spoil
<1>2. Owed(file.spec)'
  <2>1. ASSUME NEW j \in JobIds, NEW x \in Rows, Edit(j, x)
        PROVE  Owed(file.spec)'
    <3>1. x \in Job /\ Stores(j, x)
      BY <2>1, RowTypes DEF Edit
    <3>2. Waits(x) => armed'[j] = armed[j] + 1
      BY <3>1, StoresShape, ReloadOwed
    <3>3. file'.spec = [file.spec EXCEPT ![j] = {x}] /\ file.spec \in Table
      BY <2>1, ReloadOwed DEF Edit, TypeOK, File
    <3>4. Waits(x) => fired'[j] < armed'[j]
      BY <1>1, <3>2, WordOwed
    <3>5. ASSUME NEW i \in JobIds, NEW z \in file'.spec[i], Waits(z)
          PROVE  fired'[i] < armed'[i]
      <4>1. CASE i = j
        BY <3>3, <3>4, <3>5, <4>1 DEF Table
      <4>2. CASE i # j
        BY <1>1, <3>3, <3>5, <4>2, WordOwed DEF OnceInv, Owed, Table
      <4> QED
        BY <4>1, <4>2
    <3> QED
      BY <3>5 DEF Owed
  <2>2. CASE Spoil
    <3>1. file'.spec = file.spec
      BY <2>2, ReloadOwed DEF Spoil, TypeOK, File
    <3> QED
      BY <1>1, <3>1, WordOwed DEF OnceInv, Owed
  <2> QED
    BY <2>1, <2>2
<1>3. Owed(mem.jobs)'
  BY <1>1, WordOwed DEF OnceInv, Owed
<1> QED
  BY <1>1, <1>2, <1>3, WordOwed DEF OnceInv

LEMMA NextOnce == WritesSucceed /\ OnceInv /\ [Next]_vars => OnceInv'
<1> SUFFICES ASSUME WritesSucceed, OnceInv, [Next]_vars PROVE OnceInv'
  OBVIOUS
<1>1. TimedInv'
  BY NextTimed DEF OnceInv
<1>2. ASSUME UNCHANGED <<file, armed, fired>>, mem'.jobs = mem.jobs \/ mem'.jobs = file.spec
      PROVE  OnceInv'
  BY <1>1, <1>2 DEF OnceInv, Owed, OnceFires
<1>3. ASSUME NEW j \in JobIds, RunNow(j)
      PROVE  OnceInv'
  BY <1>2, <1>3, ReloadOwed, ReloadFacts DEF RunNow, history
<1>4. CASE Restart
  <2>1. /\ mem' = RestartedMem /\ UNCHANGED <<file, armed, fired>>
        /\ \A j \in JobIds : RestartedMem.jobs[j] \subseteq file.spec[j]
    BY <1>4, ReloadOwed, RestartFacts DEF Restart, RestartedMem, history
  <2> QED
    BY <1>1, <2>1 DEF OnceInv, Owed, OnceFires
<1>5. ASSUME NEW j \in JobIds, HeadStep(j) \/ Take(j) \/ Finish(j)
      PROVE  OnceInv'
  <2>1. UNCHANGED <<mem, file, armed, fired>>
    BY <1>5, HeadShape, ReloadOwed DEF Take, Finish, history
  <2> QED
    BY <1>2, <2>1
<1>6. CASE TimePasses \/ (\E x \in items : ItemStarts(x) \/ ItemEnds(x)) \/ UNCHANGED vars
  <2>1. UNCHANGED <<mem, file, armed, fired>>
    BY <1>6 DEF TimePasses, ItemStarts, ItemEnds, vars, history
  <2> QED
    BY <1>2, <2>1
<1>7. ASSUME NEW j \in JobIds, ChangeCall(j)
      PROVE  OnceInv'
  BY <1>1, <1>7, ChangeOnce
<1> QED
  BY <1>1, <1>3, <1>4, <1>5, <1>6, <1>7, StepCases, DueOnce, EditOnce

(* While the file can be written, a once trigger fires at most once for     *)
(* each time the owner armed it, by a call or in an editor, whatever is     *)
(* reloaded in between and across restarts (jobs.rs due, persist, reload). *)
THEOREM OnceFiresOnce == WritesSucceed => (Spec => []OnceFires)
<1> SUFFICES ASSUME WritesSucceed PROVE Spec => []OnceFires
  OBVIOUS
<1>1. OnceInv => OnceFires
  BY DEF OnceInv
<1>2. OnceInv /\ [Next]_vars => OnceInv'
  BY NextOnce
<1> QED
  BY <1>1, <1>2, InitOnce, PTL DEF Spec

-----------------------------------------------------------------------------
(* The owner's last word                                                   *)

\* The owner changes jobs by calls alone.
NoHandEdits == MaxEdits = 0

(* The file holds what the hub knows, and what is switched on is what the  *)
(* owner left so.                                                          *)
OwnInv ==
    /\ ApprovedInv
    /\ file.readable /\ mem.jobs = file.spec /\ mem.seen = {file.spec}
    /\ \A j \in JobIds : \A x \in mem.jobs[j] : x.enabled => j \in on
    /\ strayed = {}

LEMMA InitOwn == Init => OwnInv
<1> SUFFICES ASSUME Init PROVE OwnInv
  OBVIOUS
<1>1. /\ mem.jobs = InitialFile /\ file.spec = InitialFile /\ file.readable
      /\ mem.seen = {InitialFile} /\ strayed = {}
      /\ on = {j \in JobIds : \E x \in InitialFile[j] : x.enabled}
  BY DEF Init
<1> QED
  BY <1>1, InitApproved DEF OwnInv

LEMMA ReloadOwn ==
    ASSUME OwnInv
    PROVE  /\ TypeOK /\ TimedInv /\ Reloaded \in Mem
           /\ Reloaded.jobs = file.spec /\ Reloaded.seen = {file.spec}
           /\ \A j \in JobIds : \A x \in Reloaded.jobs[j] : x.enabled => j \in on
<1>1. TypeOK /\ TimedInv
  BY ReloadAllowed DEF OwnInv
<1> QED
  BY <1>1, ReloadFacts DEF OwnInv

LEMMA ChangeOwn ==
    ASSUME OwnInv, WritesSucceed, ApprovedInv', NEW j \in JobIds, ChangeCall(j)
    PROVE  OwnInv'
<1>1. HistoryGrows
  BY ChangeShape, ReloadOwn
<1>2. PICK m \in Mem : ChangesRows(m)
  BY ChangeShape, ReloadOwn
<1>3. /\ mem'.jobs = m.jobs /\ file'.spec = m.jobs /\ file'.readable
      /\ mem'.seen = {m.jobs}
  BY <1>2, Written, ReloadOwn DEF ChangesRows
<1>4. ASSUME NEW i \in JobIds, NEW z \in m.jobs[i], z.enabled
      PROVE  i \in on'
  <2>1. CASE Entered(i, z)
    BY <1>4, <2>1, ReloadOwn DEF Entered
  <2>2. CASE Stands(i, z)
    BY <1>4, <2>2, ReloadOwn DEF Stands
  <2> QED
    BY <1>2, <2>1, <2>2 DEF ChangesRows
<1> QED
  BY <1>1, <1>3, <1>4 DEF OwnInv, HistoryGrows

LEMMA DueOwn ==
    ASSUME OwnInv, WritesSucceed, ApprovedInv', Due
    PROVE  OwnInv'
<1> DEFINE once == OnceJobs(Reloaded)
<1>1. /\ \/ once # {} /\ Persist(AfterDue)
         \/ once = {} /\ mem' = AfterDue /\ UNCHANGED <<file, refused>>
      /\ strayed' = strayed \cup (DueJobs(Reloaded) \ on)
      /\ UNCHANGED on
  BY DueShape
<1>2. AfterDue \in Mem
  BY ReloadOwn, DueFacts
<1>3. \A j \in JobIds : /\ j \in once => \A x \in AfterDue.jobs[j] : ~x.enabled
                        /\ j \notin once => AfterDue.jobs[j] = Reloaded.jobs[j]
  BY ReloadOwn, DueFacts
<1>4. strayed' = {}
  <2>1. DueJobs(Reloaded) \subseteq on
    BY ReloadOwn DEF DueJobs
  <2> QED
    BY <1>1, <2>1 DEF OwnInv
<1>5. \A j \in JobIds : \A x \in AfterDue.jobs[j] : x.enabled => j \in on
  BY <1>3, ReloadOwn
<1>6. once = {} => AfterDue.jobs = file.spec /\ AfterDue.seen = {file.spec}
  <2>1. AfterDue.seen = Reloaded.seen
    BY ReloadOwn DEF AfterDue, Mem
  <2> QED
    BY <2>1, ReloadOwn, DueFacts
<1> HIDE DEF once
<1>7. CASE once # {}
  <2>1. /\ mem'.jobs = AfterDue.jobs /\ file'.spec = AfterDue.jobs
        /\ file'.readable /\ mem'.seen = {AfterDue.jobs}
    BY <1>1, <1>2, <1>7, Written, ReloadOwn
  <2> QED
    BY <1>1, <1>4, <1>5, <2>1 DEF OwnInv
<1>8. CASE once = {}
  BY <1>1, <1>4, <1>5, <1>6, <1>8 DEF OwnInv
<1> QED
  BY <1>7, <1>8

LEMMA NextOwn ==
    WritesSucceed /\ NoHandEdits /\ OwnInv /\ [Next]_vars => OwnInv'
<1> SUFFICES ASSUME WritesSucceed, NoHandEdits, OwnInv, [Next]_vars PROVE OwnInv'
  OBVIOUS
<1>1. ApprovedInv'
  BY NextApproved DEF OwnInv
<1>2. ASSUME UNCHANGED <<file, on, strayed>>,
             mem'.jobs = file.spec /\ mem'.seen = {file.spec}
      PROVE  OwnInv'
  BY <1>1, <1>2 DEF OwnInv
<1>3. ASSUME NEW j \in JobIds, RunNow(j)
      PROVE  OwnInv'
  BY <1>2, <1>3, ReloadOwn DEF RunNow, history
<1>4. CASE Restart
  <2>1. /\ mem' = RestartedMem /\ UNCHANGED <<file, on, strayed>>
        /\ RestartedMem.jobs = file.spec /\ RestartedMem.seen = {file.spec}
    BY <1>4, ReloadOwn, RestartFacts DEF Restart, RestartedMem, history, OwnInv
  <2> QED
    BY <1>2, <2>1
<1>5. ASSUME NEW j \in JobIds, HeadStep(j) \/ Take(j) \/ Finish(j)
      PROVE  OwnInv'
  <2>1. UNCHANGED <<mem, file, on, strayed>>
    BY <1>5, HeadShape, ReloadOwn DEF Take, Finish, history
  <2> QED
    BY <1>2, <2>1 DEF OwnInv
<1>6. CASE TimePasses \/ (\E x \in items : ItemStarts(x) \/ ItemEnds(x)) \/ UNCHANGED vars
  <2>1. UNCHANGED <<mem, file, on, strayed>>
    BY <1>6 DEF TimePasses, ItemStarts, ItemEnds, vars, history
  <2> QED
    BY <1>2, <2>1 DEF OwnInv
<1>7. ASSUME NEW j \in JobIds, ChangeCall(j)
      PROVE  OwnInv'
  BY <1>1, <1>7, ChangeOwn
<1>8. ~Spoil /\ \A j \in JobIds, x \in Rows : ~Edit(j, x)
  <2>1. ~(spent.edit < MaxEdits)
    BY ReloadOwn DEF TypeOK, NoHandEdits
  <2> QED
    BY <2>1 DEF Spoil, Edit
<1> QED
  BY <1>1, <1>3, <1>4, <1>5, <1>6, <1>7, <1>8, StepCases, DueOwn

(* While the owner changes jobs by calls and the file can be written, the   *)
(* schedule fires no job the owner last left switched off, and nothing      *)
(* starts that is not approved: approving a change resumes no paused job,   *)
(* a fired once trigger does not come back, and a restart revives nothing   *)
(* (jobs.rs upsert, propose, due, open_with_queue).                        *)
THEOREM OwnersWord == WritesSucceed /\ NoHandEdits => (Spec => []OwnerDecides)
<1> SUFFICES ASSUME WritesSucceed, NoHandEdits PROVE Spec => []OwnerDecides
  OBVIOUS
<1>1. OwnInv => OwnerDecides
  BY DEF OwnInv, ApprovedInv, OwnerDecides, ApprovedOnly, PausedNeverFires
<1>2. OwnInv /\ [Next]_vars => OwnInv'
  BY NextOwn
<1> QED
  BY <1>1, <1>2, InitOwn, PTL DEF Spec

=============================================================================

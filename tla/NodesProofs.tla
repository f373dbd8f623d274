---------------------------- MODULE NodesProofs ----------------------------
(***************************************************************************)
(* Proofs about Nodes, for any registry of nodes that is reconciled at once *)
(* and all limits and bounds.                                              *)
(***************************************************************************)
EXTENDS Nodes, FiniteSetTheorems, TLAPS

-----------------------------------------------------------------------------
(* The inductive invariant, node by node                                   *)

Probing == {"probe", "start", "starting"}       \* on the way to a start
GivingUp == {"giveUp", "recheck", "undoing", "undone"}

(* One task of a node at a time holds its action lock.                     *)
Turns(n) ==
    \A e, f \in Epochs : At(n, e, Holding) /\ At(n, f, Holding) => e = f

(* Tasks, readings and commands belong to requests that were made.         *)
Past(n) ==
    /\ \A e \in Epochs : task[n][e] # {} => e <= mem[n].epoch
    /\ \A c \in recon[n] : c.epoch <= mem[n].epoch
    /\ sent[n] <= mem[n].epoch

(* The direction tells whether the latest request is under way: it is while *)
(* its task waits for its turn, it is not once its wake has failed.        *)
Directed(n) ==
    \A e \in Epochs : Current(n, e) =>
        /\ At(n, e, {"queued"}) => mem[n].direction # "none"
        /\ At(n, e, GivingUp) => mem[n].direction = "none"

(* While a start may still be confirmed, some request is under way; if it is *)
(* a newer one, it waits and found the power on.                           *)
Waking(n) ==
    \A f \in Epochs : At(n, f, Probing) =>
        /\ mem[n].direction # "none"
        /\ \A e \in Epochs : Current(n, e) /\ e # f =>
               \E t \in task[n][e] : t.pc = "queued" /\ t.prior

(* A wake that found the power off, and may fall back on that when it       *)
(* fails, comes after no confirmed start.                                  *)
Prior(n) ==
    \A e \in Epochs : Current(n, e) =>
        \A t \in task[n][e] :
            t.pc \in {"queued"} \cup Probing /\ ~t.prior => started[n] # "confirmed"

(* A cloud reading that is still current was made for a node at rest, and   *)
(* says off only if no start was confirmed.                                *)
Reading(n) ==
    \A c \in recon[n] : c.epoch = mem[n].epoch =>
        /\ mem[n].direction = "none"
        /\ c.sample \cap {"stopped", "destroyed"} # {} => started[n] # "confirmed"

(* A start of this hub holds while the machine is up or going down.        *)
Running(n) == started[n] # "no" => machine[n] \in {"started", "stopping"}

(* RequestStands and PowerIsAdmitted of one node.                          *)
Stands(n) ==
    mem[n].direction # "none" =>
        /\ mem[n].power
        /\ mem[n].state = IF mem[n].direction = "wake" THEN "waking" ELSE "stopping"
Admitted(n) == started[n] = "confirmed" => mem[n].power

NodeInv(n) == /\ Turns(n) /\ Past(n) /\ Directed(n) /\ Waking(n) /\ Prior(n)
              /\ Reading(n) /\ Running(n) /\ Stands(n) /\ Admitted(n)

Inv == TypeOK /\ \A n \in Nodes : NodeInv(n)

-----------------------------------------------------------------------------
(* Types                                                                   *)

Machines == {"started", "stopping", "stopped", "destroyed"}
ViewStates == {"available", "waking", "stopping", "stopped", "unreachable"}
Directions == {"none", "wake", "sleep"}
ViewType == [state : ViewStates, power : BOOLEAN, failed : BOOLEAN, slept : BOOLEAN,
             epoch : 0..MaxRequests, direction : Directions]
TaskType == [direction : {"wake", "sleep"}, pc : Positions,
             attempt : 0..StartRetries, prior : BOOLEAN]
Samples == {"started", "starting", "stopped", "destroyed", "unknown", "failed"}
ReadingType == [epoch : 0..MaxRequests, sample : Option(Samples)]
ProviderType == [node : Nodes, silent : BOOLEAN]
BudgetType == [faults : 0..MaxFaults, moves : 0..MaxMoves, restarts : 0..MaxRestarts]

(* TypeOK in these terms.                                                  *)
LEMMA Types ==
    TypeOK <=> /\ machine \in [Nodes -> Machines]
               /\ provider \in Option(ProviderType)
               /\ mem \in [Nodes -> ViewType]
               /\ task \in [Nodes -> [Epochs -> Option(TaskType)]]
               /\ recon \in [Nodes -> Option(ReadingType)]
               /\ strikes \in 0..SilentStrikes - 1
               /\ started \in [Nodes -> {"no", "confirmed", "lost"}]
               /\ sent \in [Nodes -> 0..MaxRequests]
               /\ budget \in BudgetType
  BY DEF TypeOK, Machines, ProviderType, ViewType, ViewStates, Directions, TaskType,
         ReadingType, Samples, BudgetType

(* The same after a step.                                                  *)
LEMMA TypesAfter ==
    ASSUME machine' \in [Nodes -> Machines], provider' \in Option(ProviderType),
           mem' \in [Nodes -> ViewType],
           task' \in [Nodes -> [Epochs -> Option(TaskType)]],
           recon' \in [Nodes -> Option(ReadingType)],
           strikes' \in 0..SilentStrikes - 1,
           started' \in [Nodes -> {"no", "confirmed", "lost"}],
           sent' \in [Nodes -> 0..MaxRequests], budget' \in BudgetType
    PROVE  TypeOK'
  BY DEF TypeOK, Machines, ProviderType, ViewType, ViewStates, Directions, TaskType,
         ReadingType, Samples, BudgetType

(* The empty option and the option of one element.                         *)
LEMMA OptionIntro ==
    ASSUME NEW S
    PROVE  {} \in Option(S) /\ \A x \in S : {x} \in Option(S)
  BY DEF Option

(* An option has no element but one of its set, and no second one.         *)
LEMMA OptionElim ==
    ASSUME NEW S, NEW X \in Option(S), NEW x \in X
    PROVE  x \in S /\ X = {x}
  BY DEF Option

(* A call that fails uses up one failure, a move one move.                 *)
LEMMA Budgets ==
    ASSUME TypeOK
    PROVE  /\ Faulty \/ Moves => budget' \in BudgetType /\ budget'.restarts = budget.restarts
           /\ UNCHANGED budget => budget' \in BudgetType /\ budget'.restarts = budget.restarts
<1>1. /\ budget \in BudgetType /\ budget.faults \in 0..MaxFaults
      /\ budget.moves \in 0..MaxMoves
  BY Types DEF BudgetType
<1>2. budget.faults > 0 => budget.faults - 1 \in 0..MaxFaults
  BY <1>1, NodeBoundsAssumption
<1>3. budget.moves > 0 => budget.moves - 1 \in 0..MaxMoves
  BY <1>1, NodeBoundsAssumption
<1>4. Faulty => budget' \in BudgetType /\ budget'.restarts = budget.restarts
  BY <1>1, <1>2 DEF Faulty, BudgetType
<1>5. Moves => budget' \in BudgetType /\ budget'.restarts = budget.restarts
  BY <1>1, <1>3 DEF Moves, BudgetType
<1> QED
  BY <1>1, <1>4, <1>5

(* The views that actions write, and what they keep of the old one.        *)
LEMMA Views ==
    ASSUME TypeOK, NEW n \in Nodes, NEW st \in ViewStates, NEW pw \in BOOLEAN
    PROVE  /\ mem[n] \in ViewType
           /\ View(n, st, pw) \in {v \in ViewType : v.epoch = mem[n].epoch /\ v.power = pw
                                        /\ v.state = st /\ v.direction = mem[n].direction}
           /\ Over(View(n, st, pw)) \in {v \in ViewType : v.epoch = mem[n].epoch
                                             /\ v.power = pw /\ v.direction = "none"}
           /\ Failed(Over(View(n, st, pw))) \in {v \in ViewType : v.epoch = mem[n].epoch
                                                     /\ v.power = pw /\ v.direction = "none"}
           /\ Available(n) \in {v \in ViewType : v.epoch = mem[n].epoch /\ v.power
                                                 /\ v.direction = "none"}
<1>1. mem[n] \in ViewType
  BY Types
<1> DEFINE V(s, p) == View(n, s, p)
<1>2. ASSUME NEW s \in ViewStates, NEW p \in BOOLEAN
      PROVE  /\ V(s, p) \in {v \in ViewType : v.epoch = mem[n].epoch /\ v.power = p
                                 /\ v.state = s /\ v.direction = mem[n].direction}
             /\ Over(V(s, p)) \in {v \in ViewType : v.epoch = mem[n].epoch /\ v.power = p
                                       /\ v.direction = "none"}
  BY <1>1 DEF View, Over, ViewType, Directions
<1>3. ASSUME NEW v \in ViewType, NEW b \in BOOLEAN
      PROVE  /\ Failed(v) \in {u \in ViewType : u.epoch = v.epoch /\ u.power = v.power
                                                /\ u.direction = v.direction}
             /\ [v EXCEPT !.failed = b] \in {u \in ViewType : u.epoch = v.epoch
                                 /\ u.power = v.power /\ u.direction = v.direction}
  BY DEF Failed, ViewType
<1>4. "available" \in ViewStates
  BY DEF ViewStates
<1>5. Available(n) = [Over(V("available", TRUE)) EXCEPT !.failed = FALSE]
  BY DEF Available
<1> HIDE DEF V
<1>6. Over(V("available", TRUE)) \in {v \in ViewType : v.epoch = mem[n].epoch
                                          /\ v.power = TRUE /\ v.direction = "none"}
  BY <1>2, <1>4
<1>7. Available(n) \in {v \in ViewType : v.epoch = mem[n].epoch /\ v.power
                                         /\ v.direction = "none"}
  <2> DEFINE o == Over(V("available", TRUE))
  <2>1. o \in ViewType /\ o.epoch = mem[n].epoch /\ o.power = TRUE /\ o.direction = "none"
    BY <1>6
  <2>2. Available(n) = [o EXCEPT !.failed = FALSE]
    BY <1>5
  <2> HIDE DEF o
  <2> QED
    BY <1>3, <2>1, <2>2
<1>8. Failed(Over(V(st, pw))) \in {v \in ViewType : v.epoch = mem[n].epoch
                                       /\ v.power = pw /\ v.direction = "none"}
  <2> DEFINE o == Over(V(st, pw))
  <2>1. o \in ViewType /\ o.epoch = mem[n].epoch /\ o.power = pw /\ o.direction = "none"
    BY <1>2
  <2> HIDE DEF o
  <2>2. Failed(o) \in {v \in ViewType : v.epoch = mem[n].epoch /\ v.power = pw
                                        /\ v.direction = "none"}
    BY <1>3, <2>1
  <2> QED
    BY <2>2 DEF o
<1> QED
  BY <1>1, <1>2, <1>7, <1>8 DEF V

(* The view of a node that a request put to sleep.                         *)
LEMMA SleptView ==
    ASSUME TypeOK, NEW n \in Nodes, NEW st \in ViewStates, NEW pw \in BOOLEAN
    PROVE  [Over(View(n, st, pw)) EXCEPT !.slept = TRUE] \in
               {v \in ViewType : v.epoch = mem[n].epoch /\ v.power = pw
                                 /\ v.direction = "none"}
<1> DEFINE o == Over(View(n, st, pw))
<1>1. o \in ViewType /\ o.epoch = mem[n].epoch /\ o.power = pw /\ o.direction = "none"
  <2>1. o \in {v \in ViewType : v.epoch = mem[n].epoch /\ v.power = pw
                                /\ v.direction = "none"}
    BY Views
  <2> QED
    BY <2>1
<1> HIDE DEF o
<1>2. [o EXCEPT !.slept = TRUE] \in {v \in ViewType : v.epoch = mem[n].epoch
                                         /\ v.power = pw /\ v.direction = "none"}
  BY <1>1 DEF ViewType
<1> QED
  BY <1>2 DEF o

(* set: a result is written only if nothing newer was requested.           *)
LEMMA SetFacts ==
    ASSUME TypeOK, NEW n \in Nodes, NEW e, NEW view \in ViewType,
           view.epoch = mem[n].epoch, Set(n, e, view)
    PROVE  /\ mem' \in [Nodes -> ViewType]
           /\ \A m \in Nodes \ {n} : mem'[m] = mem[m]
           /\ mem'[n] = IF Current(n, e) THEN view ELSE mem[n]
           /\ mem'[n].epoch = mem[n].epoch
<1>1. mem \in [Nodes -> ViewType]
  BY Types
<1> QED
  BY <1>1 DEF Set

-----------------------------------------------------------------------------
(* Steps of a task                                                         *)

(* The end of a task.                                                      *)
LEMMA EndsFacts ==
    ASSUME TypeOK, NEW n \in Nodes, NEW e \in Epochs, Ends(n, e)
    PROVE  /\ task' \in [Nodes -> [Epochs -> Option(TaskType)]]
           /\ \A m \in Nodes \ {n} : task'[m] = task[m]
           /\ task'[n][e] = {} /\ \A f \in Epochs \ {e} : task'[n][f] = task[n][f]
<1>1. task \in [Nodes -> [Epochs -> Option(TaskType)]] /\ {} \in Option(TaskType)
  BY Types, OptionIntro
<1> QED
  BY <1>1 DEF Ends

(* A task moves: it stays the task it was.                                 *)
LEMMA GoesFacts ==
    ASSUME TypeOK, NEW n \in Nodes, NEW e \in Epochs, NEW pc \in Positions,
           task[n][e] # {}, Goes(n, e, pc)
    PROVE  /\ task' \in [Nodes -> [Epochs -> Option(TaskType)]]
           /\ \A m \in Nodes \ {n} : task'[m] = task[m]
           /\ \A f \in Epochs \ {e} : task'[n][f] = task[n][f]
           /\ \E t \in task[n][e], u \in TaskType :
                 /\ t \in TaskType /\ task[n][e] = {t} /\ task'[n][e] = {u}
                 /\ u.pc = pc /\ u.prior = t.prior
<1>1. task \in [Nodes -> [Epochs -> Option(TaskType)]]
  BY Types
<1>2. PICK t \in task[n][e] : t \in TaskType /\ task[n][e] = {t}
  <2>1. task[n][e] \in Option(TaskType)
    BY <1>1
  <2> QED
    BY <2>1, OptionElim
<1> DEFINE u == [t EXCEPT !.pc = pc]
<1>3. u \in TaskType /\ u.pc = pc /\ u.prior = t.prior
  BY <1>2 DEF TaskType
<1>4. task' = [task EXCEPT ![n][e] = {u}]
  BY <1>2 DEF Goes
<1> HIDE DEF u
<1>5. {u} \in Option(TaskType)
  BY <1>3, OptionIntro
<1> QED
  BY <1>1, <1>2, <1>3, <1>4, <1>5

(* A node that nothing was changed of keeps its part of the invariant.     *)
LEMMA Untouched ==
    ASSUME NEW m \in Nodes, NodeInv(m),
           machine'[m] = machine[m], mem'[m] = mem[m], task'[m] = task[m],
           recon'[m] = recon[m], started'[m] = started[m], sent'[m] = sent[m]
    PROVE  NodeInv(m)'
<1>1. /\ \A e \in Epochs : \A pcs : At(m, e, pcs)' <=> At(m, e, pcs)
      /\ \A e : Current(m, e)' <=> Current(m, e)
  BY DEF At, Current
<1>2. Turns(m)' /\ Past(m)' /\ Directed(m)'
  BY <1>1 DEF NodeInv, Turns, Past, Directed
<1>3. Waking(m)' /\ Prior(m)'
  BY <1>1 DEF NodeInv, Waking, Prior
<1>4. Reading(m)' /\ Running(m)' /\ Stands(m)' /\ Admitted(m)'
  BY DEF NodeInv, Reading, Running, Stands, Admitted
<1> QED
  BY <1>2, <1>3, <1>4 DEF NodeInv

(* A task ends, with its result if it is the current one.                  *)
LEMMA EndStep ==
    ASSUME Inv, NEW n \in Nodes, NEW e \in Epochs, Ends(n, e),
           Current(n, e) => ~At(n, e, {"queued"}) /\ mem'[n].direction = "none",
           ~Current(n, e) => mem'[n] = mem[n],
           mem'[n].epoch = mem[n].epoch, recon'[n] = recon[n], sent'[n] = sent[n],
           started'[n] = started[n] \/ started'[n] = "lost",
           Running(n)', Admitted(n)'
    PROVE  NodeInv(n)'
<1>1. /\ TypeOK /\ NodeInv(n)
      /\ task'[n][e] = {} /\ \A f \in Epochs \ {e} : task'[n][f] = task[n][f]
  <2>1. TypeOK /\ NodeInv(n)
    BY DEF Inv
  <2> QED
    BY <2>1, EndsFacts
<1>2. /\ \A f \in Epochs : \A pcs : At(n, f, pcs)' => f # e /\ At(n, f, pcs)
      /\ \A f : Current(n, f)' <=> Current(n, f)
  BY <1>1 DEF At, Current
<1>3. Turns(n)' /\ Past(n)'
  BY <1>1, <1>2 DEF NodeInv, Turns, Past
<1>4. mem'[n] = mem[n] \/ (Current(n, e) /\ mem'[n].direction = "none")
  OBVIOUS
<1>5. Directed(n)'
  <2> SUFFICES ASSUME NEW f \in Epochs, Current(n, f)
               PROVE  /\ At(n, f, {"queued"})' => mem'[n].direction # "none"
                      /\ At(n, f, GivingUp)' => mem'[n].direction = "none"
    BY <1>2 DEF Directed
  <2>1. Current(n, e) => f = e
    BY DEF Current
  <2> QED
    BY <1>1, <1>2, <1>4, <2>1 DEF NodeInv, Directed
<1>6. Waking(n)'
  <2> SUFFICES ASSUME NEW f \in Epochs, At(n, f, Probing)'
               PROVE  /\ mem'[n].direction # "none"
                      /\ \A g \in Epochs : Current(n, g) /\ g # f =>
                             \E t \in task'[n][g] : t.pc = "queued" /\ t.prior
    BY <1>2 DEF Waking
  <2>1. /\ f # e /\ mem[n].direction # "none"
        /\ \A g \in Epochs : Current(n, g) /\ g # f =>
               \E t \in task[n][g] : t.pc = "queued" /\ t.prior
    BY <1>1, <1>2 DEF NodeInv, Waking
  <2>2. ~Current(n, e)
    BY <2>1 DEF At
  <2> QED
    BY <1>1, <1>4, <2>1, <2>2
<1>7. Prior(n)'
  BY <1>1, <1>2 DEF NodeInv, Prior
<1>8. Reading(n)'
  BY <1>1, <1>4 DEF NodeInv, Reading
<1>9. Stands(n)'
  BY <1>1, <1>4 DEF NodeInv, Stands
<1> QED
  BY <1>3, <1>5, <1>6, <1>7, <1>8, <1>9 DEF NodeInv

(* A task moves on.  It takes the lock when it is free, it goes towards a   *)
(* start as the task of a request under way, and only a start is confirmed. *)
LEMMA MoveStep ==
    ASSUME Inv, NEW n \in Nodes, NEW e \in Epochs, NEW pc \in Positions \ {"queued"},
           NEW t \in task[n][e], NEW u, task'[n][e] = {u}, u.pc = pc, u.prior = t.prior,
           \A f \in Epochs \ {e} : task'[n][f] = task[n][f],
           pc \in Holding \/ t.pc = "queued" => t.pc \in Holding \/ Unlocked(n),
           pc \in Probing => \/ t.pc \in Probing
                             \/ (t.pc = "queued" /\ Current(n, e)),
           Current(n, e) /\ pc \in GivingUp => mem'[n].direction = "none",
           \/ mem'[n] = mem[n]
           \/ /\ Current(n, e) /\ t.pc # "queued" /\ pc \notin Probing
              /\ mem'[n].direction = "none"
              /\ mem'[n].epoch = mem[n].epoch,
           recon'[n] = recon[n],
           sent'[n] = sent[n] \/ sent'[n] = e,
           \/ started'[n] \in {started[n], "lost"} /\ Admitted(n)'
           \/ t.pc = "starting" /\ pc = "watch" /\ mem'[n] = mem[n],
           Running(n)'
    PROVE  NodeInv(n)'
<1>1. /\ TypeOK /\ NodeInv(n) /\ t \in TaskType /\ task[n][e] = {t}
  <2>1. TypeOK /\ NodeInv(n)
    BY DEF Inv
  <2>2. task[n][e] \in Option(TaskType)
    BY <2>1, Types
  <2> QED
    BY <2>1, <2>2, OptionElim
<1>2. /\ \A f \in Epochs \ {e} : \A pcs : At(n, f, pcs)' <=> At(n, f, pcs)
      /\ \A pcs : At(n, e, pcs)' <=> pc \in pcs
      /\ \A pcs : At(n, e, pcs) <=> t.pc \in pcs
      /\ \A f : Current(n, f)' <=> Current(n, f)
  BY <1>1 DEF At, Current
<1>3. Turns(n)'
  <2>1. \A f \in Epochs \ {e} : pc \in Holding => ~At(n, f, Holding)
    BY <1>1, <1>2 DEF NodeInv, Turns, Unlocked
  <2> QED
    BY <1>1, <1>2, <2>1 DEF NodeInv, Turns
<1>4. Past(n)'
  BY <1>1 DEF NodeInv, Past
<1>5. Directed(n)'
  <2>1. \A f \in Epochs \ {e} : Current(n, f) => mem'[n] = mem[n]
    BY DEF Current
  <2> QED
    BY <1>1, <1>2, <2>1 DEF NodeInv, Directed
<1>6. ASSUME NEW f \in Epochs \ {e}, At(n, f, Probing), Current(n, e)
      PROVE  FALSE
  <2>1. t.pc = "queued"
    BY <1>1, <1>6 DEF NodeInv, Waking
  <2>2. t.pc \notin Holding /\ Probing \subseteq Holding
    BY <2>1 DEF Holding, Probing
  <2> QED
    BY <1>6, <2>1, <2>2 DEF Unlocked, At
<1>7. Waking(n)'
  <2> SUFFICES ASSUME NEW f \in Epochs, At(n, f, Probing)'
               PROVE  /\ mem'[n].direction # "none"
                      /\ \A g \in Epochs : Current(n, g) /\ g # f =>
                             \E v \in task'[n][g] : v.pc = "queued" /\ v.prior
    BY <1>2 DEF Waking
  <2>1. CASE f = e
    <3>1. mem'[n] = mem[n] /\ (t.pc \in Probing \/ (t.pc = "queued" /\ Current(n, e)))
      BY <1>2, <2>1
    <3>2. CASE t.pc \in Probing
      BY <1>1, <1>2, <2>1, <3>1, <3>2 DEF NodeInv, Waking
    <3>3. CASE t.pc = "queued" /\ Current(n, e)
      <4>1. mem[n].direction # "none"
        BY <1>1, <1>2, <3>3 DEF NodeInv, Directed
      <4>2. \A g \in Epochs : Current(n, g) => g = e
        BY <3>3 DEF Current
      <4> QED
        BY <2>1, <3>1, <4>1, <4>2
    <3> QED
      BY <3>1, <3>2, <3>3
  <2>2. CASE f # e
    <3>1. At(n, f, Probing) /\ ~Current(n, e)
      BY <1>2, <1>6, <2>2
    <3> QED
      BY <1>1, <1>2, <3>1 DEF NodeInv, Waking
  <2> QED
    BY <2>1, <2>2
<1>8. t.pc = "starting" =>
          /\ mem[n].direction # "none"
          /\ \A g \in Epochs : Current(n, g) /\ g # e =>
                 \E v \in task[n][g] : v.pc = "queued" /\ v.prior
  BY <1>1, <1>2 DEF NodeInv, Waking, Probing
<1>9. Prior(n)'
  <2> SUFFICES ASSUME NEW f \in Epochs, Current(n, f), NEW v \in task'[n][f],
                      v.pc \in {"queued"} \cup Probing, ~v.prior
               PROVE  started'[n] # "confirmed"
    BY <1>2 DEF Prior
  <2>1. CASE f = e
    <3>1. pc \in Probing /\ v = u /\ ~t.prior /\ t.pc \in {"queued"} \cup Probing
      BY <2>1
    <3>2. started[n] # "confirmed"
      BY <1>1, <2>1, <3>1 DEF NodeInv, Prior
    <3> QED
      BY <3>1, <3>2 DEF Probing
  <2>2. CASE f # e
    <3>1. started[n] # "confirmed" /\ v \in task[n][f]
      BY <1>1, <2>2 DEF NodeInv, Prior
    <3>2. CASE t.pc = "starting" /\ pc = "watch"
      <4>1. \E w \in task[n][f] : w.prior
        BY <1>8, <2>2, <3>2
      <4>2. task[n][f] \in Option(TaskType)
        BY <1>1, Types
      <4> QED
        BY <3>1, <4>1, <4>2, OptionElim
    <3> QED
      BY <3>1, <3>2
  <2> QED
    BY <2>1, <2>2
<1>10. Reading(n)'
  <2> SUFFICES ASSUME NEW c \in recon[n], c.epoch = mem[n].epoch
               PROVE  /\ mem'[n].direction = "none"
                      /\ c.sample \cap {"stopped", "destroyed"} # {} => started'[n] # "confirmed"
    BY DEF Reading
  <2>1. /\ mem[n].direction = "none"
        /\ c.sample \cap {"stopped", "destroyed"} # {} => started[n] # "confirmed"
    BY <1>1 DEF NodeInv, Reading
  <2> QED
    BY <1>8, <2>1
<1>11. Stands(n)'
  BY <1>1 DEF NodeInv, Stands
<1>12. Admitted(n)'
  <2>1. CASE t.pc = "starting" /\ mem'[n] = mem[n]
    BY <1>1, <1>8, <2>1 DEF NodeInv, Stands, Admitted
  <2> QED
    BY <2>1
<1> QED
  BY <1>3, <1>4, <1>5, <1>7, <1>9, <1>10, <1>11, <1>12 DEF NodeInv

(* Commands of a node are sent in the order of its requests, or the hub     *)
(* restarted.                                                              *)
Ordered == \A n \in Nodes : sent'[n] < sent[n] => budget'.restarts < budget.restarts

(* A step of one node keeps the invariant if it keeps the node's.          *)
LEMMA OneNode ==
    ASSUME Inv, NEW n \in Nodes, TypeOK', NodeInv(n)',
           \A m \in Nodes \ {n} :
              /\ machine'[m] = machine[m] /\ mem'[m] = mem[m] /\ task'[m] = task[m]
              /\ recon'[m] = recon[m] /\ started'[m] = started[m] /\ sent'[m] = sent[m],
           sent'[n] = sent[n] \/ sent'[n] = mem[n].epoch
    PROVE  Inv' /\ Ordered
<1>1. \A m \in Nodes \ {n} : NodeInv(m)'
  BY Untouched DEF Inv
<1>2. \A m \in Nodes : sent[m] \in 0..MaxRequests /\ mem[m].epoch \in 0..MaxRequests
      /\ sent[m] <= mem[m].epoch
  <2>1. TypeOK /\ \A m \in Nodes : NodeInv(m)
    BY DEF Inv
  <2>2. \A m \in Nodes : mem[m] \in ViewType /\ sent[m] \in 0..MaxRequests
    BY <2>1, Types
  <2> QED
    BY <2>1, <2>2 DEF ViewType, NodeInv, Past
<1>3. \A m \in Nodes : ~(sent'[m] < sent[m])
  <2> SUFFICES ASSUME NEW m \in Nodes PROVE ~(sent'[m] < sent[m])
    OBVIOUS
  <2>1. sent'[m] = sent[m] \/ sent'[m] = mem[m].epoch
    OBVIOUS
  <2> QED
    BY <1>2, <2>1
<1> QED
  BY <1>1, <1>3 DEF Inv, Ordered

(* What the step of a task leaves alone: other nodes, readings and strikes. *)
Beside(n) ==
    /\ machine' \in [Nodes -> Machines] /\ provider' \in Option(ProviderType)
    /\ mem' \in [Nodes -> ViewType]
    /\ started' \in [Nodes -> {"no", "confirmed", "lost"}] /\ budget' \in BudgetType
    /\ UNCHANGED <<recon, strikes>>
    /\ \A m \in Nodes \ {n} :
          mem'[m] = mem[m] /\ machine'[m] = machine[m] /\ started'[m] = started[m]
    /\ mem'[n].epoch = mem[n].epoch

(* The end of a task as a whole step.                                      *)
LEMMA EndInv ==
    ASSUME Inv, NEW n \in Nodes, NEW e \in Epochs, Ends(n, e), Beside(n), UNCHANGED sent,
           Current(n, e) => ~At(n, e, {"queued"}) /\ mem'[n].direction = "none",
           ~Current(n, e) => mem'[n] = mem[n],
           started'[n] = started[n] \/ started'[n] = "lost",
           Running(n)', Admitted(n)'
    PROVE  Inv' /\ Ordered
<1>1. TypeOK
  BY DEF Inv
<1>2. NodeInv(n)'
  BY EndStep DEF Beside
<1>3. /\ task' \in [Nodes -> [Epochs -> Option(TaskType)]]
      /\ \A m \in Nodes \ {n} : task'[m] = task[m]
  BY <1>1, EndsFacts
<1>4. recon' \in [Nodes -> Option(ReadingType)] /\ strikes' \in 0..SilentStrikes - 1
      /\ sent' \in [Nodes -> 0..MaxRequests]
  BY <1>1, Types DEF Beside
<1>5. TypeOK'
  BY <1>3, <1>4, TypesAfter DEF Beside
<1> QED
  BY <1>2, <1>3, <1>5, OneNode DEF Beside

(* The move of a task as a whole step.                                     *)
LEMMA MoveInv ==
    ASSUME Inv, NEW n \in Nodes, NEW e \in Epochs, NEW pc \in Positions \ {"queued"},
           NEW t \in task[n][e], Goes(n, e, pc), Beside(n),
           pc \in Holding \/ t.pc = "queued" => t.pc \in Holding \/ Unlocked(n),
           pc \in Probing => \/ t.pc \in Probing
                             \/ (t.pc = "queued" /\ Current(n, e)),
           Current(n, e) /\ pc \in GivingUp => mem'[n].direction = "none",
           \/ mem'[n] = mem[n]
           \/ /\ Current(n, e) /\ t.pc # "queued" /\ pc \notin Probing
              /\ mem'[n].direction = "none",
           \/ UNCHANGED sent
           \/ sent' = [sent EXCEPT ![n] = e] /\ Current(n, e),
           \/ started'[n] = started[n] /\ Admitted(n)'
           \/ t.pc = "starting" /\ pc = "watch" /\ mem'[n] = mem[n],
           Running(n)'
    PROVE  Inv' /\ Ordered
<1>1. TypeOK
  BY DEF Inv
<1>2. PICK u \in TaskType : task'[n][e] = {u} /\ u.pc = pc /\ u.prior = t.prior
  BY <1>1, GoesFacts
<1>3. /\ task' \in [Nodes -> [Epochs -> Option(TaskType)]]
      /\ \A m \in Nodes \ {n} : task'[m] = task[m]
      /\ \A f \in Epochs \ {e} : task'[n][f] = task[n][f]
  BY <1>1, GoesFacts
<1>4. recon' \in [Nodes -> Option(ReadingType)] /\ strikes' \in 0..SilentStrikes - 1
  BY <1>1, Types DEF Beside
<1>5. /\ sent' \in [Nodes -> 0..MaxRequests]
      /\ \A m \in Nodes \ {n} : sent'[m] = sent[m]
      /\ sent'[n] = sent[n] \/ (sent'[n] = e /\ e = mem[n].epoch)
  <2>1. sent \in [Nodes -> 0..MaxRequests] /\ e \in 0..MaxRequests
    BY <1>1, Types, NodeBoundsAssumption DEF Epochs
  <2> QED
    BY <2>1 DEF Current
<1>6. TypeOK'
  BY <1>3, <1>4, <1>5, TypesAfter DEF Beside
<1>7. NodeInv(n)'
  <2>1. recon'[n] = recon[n] /\ mem'[n].epoch = mem[n].epoch
    BY DEF Beside
  <2>2. started'[n] = started[n] => started'[n] \in {started[n], "lost"}
    OBVIOUS
  <2>3. sent'[n] = sent[n] \/ sent'[n] = e
    BY <1>5
  <2> QED
    BY <1>2, <1>3, <2>1, <2>2, <2>3, MoveStep
<1> QED
  BY <1>3, <1>5, <1>6, <1>7, OneNode DEF Beside

-----------------------------------------------------------------------------
(* Requests                                                                *)

(* A request raises the epoch, so every older task and reading is past; it  *)
(* finds the power on if anything is under way.                            *)
LEMMA RequestInv ==
    ASSUME Inv, NEW n \in Nodes, NEW d \in {"wake", "sleep"}, Request(n, d)
    PROVE  Inv' /\ Ordered
<1>1. TypeOK /\ NodeInv(n) /\ mem \in [Nodes -> ViewType]
      /\ task \in [Nodes -> [Epochs -> Option(TaskType)]]
  BY Types DEF Inv
<1> DEFINE new == mem[n].epoch + 1
           q == [direction |-> d, pc |-> "queued", attempt |-> 0, prior |-> mem[n].power]
           view == [mem[n] EXCEPT !.epoch = new, !.direction = d, !.power = TRUE,
                       !.state = IF d = "wake" THEN "waking" ELSE "stopping",
                       !.slept = IF d = "wake" THEN FALSE ELSE mem[n].slept]
<1>2. mem[n].epoch \in 0..MaxRequests /\ mem[n].epoch < MaxRequests
      /\ mem[n] \in ViewType /\ mem[n].power \in BOOLEAN
  BY <1>1 DEF Request, ViewType
<1>3. new \in Epochs /\ new \in 0..MaxRequests /\ new > mem[n].epoch
  BY <1>2, NodeBoundsAssumption DEF Epochs
<1>4. q \in TaskType /\ q.pc = "queued" /\ q.prior = mem[n].power
  BY <1>2, LimitsAssumption DEF TaskType, Positions
<1>5. /\ view \in ViewType /\ view.epoch = new /\ view.direction = d /\ view.power
      /\ view.state = IF d = "wake" THEN "waking" ELSE "stopping"
  <2> HIDE DEF new
  <2> QED
    BY <1>2, <1>3 DEF ViewType, ViewStates, Directions
<1>6. /\ mem' = [mem EXCEPT ![n] = view]
      /\ task' = [task EXCEPT ![n][new] = {q}]
      /\ UNCHANGED <<machine, provider, started, recon, strikes, sent, budget>>
  <2>1. mem' = [mem EXCEPT ![n] = view]
    BY <1>1 DEF Request
  <2> QED
    BY <2>1 DEF Request, outside
<1> HIDE DEF new, q, view
<1>7. /\ mem' \in [Nodes -> ViewType] /\ mem'[n] = view
      /\ task' \in [Nodes -> [Epochs -> Option(TaskType)]] /\ task'[n][new] = {q}
      /\ \A m \in Nodes \ {n} : mem'[m] = mem[m] /\ task'[m] = task[m]
      /\ \A f \in Epochs \ {new} : task'[n][f] = task[n][f]
  <2>1. {q} \in Option(TaskType)
    BY <1>4, OptionIntro
  <2> QED
    BY <1>1, <1>3, <1>5, <1>6, <2>1
<1>8. TypeOK'
  BY <1>1, <1>6, <1>7, Types, TypesAfter
<1>9. /\ \A f \in Epochs : \A pcs : At(n, f, pcs)' <=>
             IF f = new THEN "queued" \in pcs ELSE At(n, f, pcs)
      /\ \A f : Current(n, f)' <=> f = new
      /\ \A f \in Epochs : task[n][f] # {} => f # new
  <2>1. \A f \in Epochs : task[n][f] # {} => f <= mem[n].epoch
    BY <1>1 DEF NodeInv, Past
  <2>2. \A f \in Epochs : f <= mem[n].epoch => f # new
    BY <1>2, <1>3 DEF Epochs
  <2>3. \A f : Current(n, f)' <=> f = new
    BY <1>5, <1>7 DEF Current
  <2>4. \A f \in Epochs : \A pcs : At(n, f, pcs)' <=>
             IF f = new THEN "queued" \in pcs ELSE At(n, f, pcs)
    BY <1>4, <1>7 DEF At
  <2> QED
    BY <2>1, <2>2, <2>3, <2>4
<1>10. NodeInv(n)'
  <2>1. Turns(n)'
    <3>1. \A f \in Epochs : At(n, f, Holding)' => At(n, f, Holding)
      BY <1>9 DEF Holding
    <3> QED
      BY <1>1, <3>1 DEF NodeInv, Turns
  <2>2. Past(n)'
    <3>1. \A f \in Epochs : task'[n][f] # {} => f <= view.epoch
      <4> SUFFICES ASSUME NEW f \in Epochs, task'[n][f] # {} PROVE f <= new
        BY <1>5
      <4>1. f = new \/ f <= mem[n].epoch
        BY <1>1, <1>7 DEF NodeInv, Past
      <4> QED
        BY <1>2, <1>3, <4>1 DEF Epochs
    <3>2. \A c \in recon[n] : c.epoch <= view.epoch
      <4> SUFFICES ASSUME NEW c \in recon[n] PROVE c.epoch <= new
        BY <1>5
      <4>1. recon[n] \in Option(ReadingType)
        BY <1>1, Types
      <4>2. c \in ReadingType
        BY <4>1, OptionElim
      <4>3. c.epoch \in 0..MaxRequests /\ c.epoch <= mem[n].epoch
        BY <1>1, <4>2 DEF ReadingType, NodeInv, Past
      <4> QED
        BY <1>2, <1>3, <4>3
    <3>3. sent[n] <= view.epoch
      <4>1. sent[n] \in 0..MaxRequests /\ sent[n] <= mem[n].epoch
        BY <1>1, Types DEF NodeInv, Past
      <4> QED
        BY <1>2, <1>3, <1>5, <4>1
    <3> QED
      BY <1>6, <1>7, <3>1, <3>2, <3>3 DEF Past
  <2>3. Directed(n)'
    BY <1>5, <1>7, <1>9 DEF Directed, GivingUp
  <2>4. Waking(n)'
    <3> SUFFICES ASSUME NEW f \in Epochs, At(n, f, Probing), f # new
                 PROVE  q.prior
      BY <1>4, <1>5, <1>7, <1>9 DEF Waking, Probing
    <3> QED
      BY <1>1, <1>4 DEF NodeInv, Waking, Stands
  <2>5. Prior(n)'
    BY <1>1, <1>4, <1>6, <1>7, <1>9 DEF NodeInv, Prior, Admitted
  <2>6. Reading(n)'
    <3> SUFFICES ASSUME NEW c \in recon[n], c.epoch = new PROVE FALSE
      BY <1>5, <1>6, <1>7 DEF Reading
    <3>1. c.epoch <= mem[n].epoch
      BY <1>1 DEF NodeInv, Past
    <3> QED
      BY <1>2, <1>3, <3>1
  <2>7. Running(n)' /\ Stands(n)' /\ Admitted(n)'
    BY <1>1, <1>5, <1>6, <1>7 DEF NodeInv, Running, Stands, Admitted
  <2> QED
    BY <2>1, <2>2, <2>3, <2>4, <2>5, <2>6, <2>7 DEF NodeInv
<1> QED
  BY <1>6, <1>7, <1>8, <1>10, OneNode

-----------------------------------------------------------------------------
(* Tasks                                                                   *)

(* Nothing changes beside the task.                                        *)
LEMMA Alone ==
    ASSUME Inv, NEW n \in Nodes, UNCHANGED <<outside, mem, recon, strikes, budget>>
    PROVE  Beside(n) /\ Running(n)' /\ Admitted(n)'
<1>1. TypeOK /\ NodeInv(n)
  BY DEF Inv
<1>2. Beside(n)
  BY <1>1, Types DEF Beside, outside
<1> QED
  BY <1>1, <1>2 DEF outside, NodeInv, Running, Admitted

(* A task at some position is one task.                                    *)
LEMMA AtFacts ==
    ASSUME Inv, NEW n \in Nodes, NEW e \in Epochs, NEW t \in task[n][e]
    PROVE  /\ t \in TaskType /\ task[n][e] = {t}
           /\ \A pcs : At(n, e, pcs) <=> t.pc \in pcs
<1>1. task[n][e] \in Option(TaskType)
  BY Types DEF Inv
<1>2. t \in TaskType /\ task[n][e] = {t}
  BY <1>1, OptionElim
<1> QED
  BY <1>2 DEF At

(* A task's turn comes.                                                    *)
LEMMA TurnInv ==
    ASSUME Inv, NEW n \in Nodes, NEW e \in Epochs, Turn(n, e)
    PROVE  Inv' /\ Ordered
<1>1. PICK t \in task[n][e] :
          /\ t.pc = "queued" /\ Unlocked(n)
          /\ \/ ~Current(n, e) /\ Ends(n, e) /\ UNCHANGED sent
             \/ /\ Current(n, e) /\ t.direction = "wake"
                /\ Goes(n, e, "probe") /\ UNCHANGED sent
             \/ Current(n, e) /\ t.direction = "sleep" /\ Sends(n, e, "stopping")
          /\ UNCHANGED <<outside, mem, recon, strikes, budget>>
  BY DEF Turn
<1>2. Beside(n) /\ Running(n)' /\ Admitted(n)' /\ UNCHANGED <<mem, started>>
  BY <1>1, Alone DEF outside
<1>3. CASE ~Current(n, e) /\ Ends(n, e) /\ UNCHANGED sent
  BY <1>2, <1>3, EndInv
<1>4. CASE Current(n, e) /\ Goes(n, e, "probe") /\ UNCHANGED sent
  <2>1. "probe" \in Positions \ {"queued"} /\ "probe" \notin GivingUp
    BY DEF Positions, GivingUp
  <2> QED
    BY <1>1, <1>2, <1>4, <2>1, MoveInv
<1>5. CASE Current(n, e) /\ Sends(n, e, "stopping")
  <2>1. "stopping" \in Positions \ {"queued"} /\ "stopping" \notin GivingUp \cup Probing
    BY DEF Positions, GivingUp, Probing
  <2> QED
    BY <1>1, <1>2, <1>5, <2>1, MoveInv DEF Sends
<1> QED
  BY <1>1, <1>3, <1>4, <1>5

(* The answer of a provider makes the node available.                      *)
LEMMA AvailableInv ==
    ASSUME Inv, NEW n \in Nodes, NEW e \in Epochs, Set(n, e, Available(n)), Ends(n, e),
           ~At(n, e, {"queued"}), UNCHANGED <<outside, recon, strikes, sent, budget>>
    PROVE  Inv' /\ Ordered
<1>1. TypeOK /\ NodeInv(n)
  BY DEF Inv
<1>2. Available(n) \in ViewType /\ Available(n).epoch = mem[n].epoch
      /\ Available(n).power /\ Available(n).direction = "none"
  <2>1. "stopped" \in ViewStates
    BY DEF ViewStates
  <2> QED
    BY <1>1, <2>1, Views
<1>3. /\ mem' \in [Nodes -> ViewType]
      /\ \A m \in Nodes \ {n} : mem'[m] = mem[m]
      /\ mem'[n] = IF Current(n, e) THEN Available(n) ELSE mem[n]
      /\ mem'[n].epoch = mem[n].epoch
  BY <1>1, <1>2, SetFacts
<1>4. Beside(n)
  BY <1>1, <1>3, Types DEF Beside, outside
<1>5. Running(n)' /\ Admitted(n)' /\ UNCHANGED started
  BY <1>1, <1>2, <1>3 DEF outside, NodeInv, Running, Admitted
<1> QED
  BY <1>2, <1>3, <1>4, <1>5, EndInv

(* The provider is read before a start.                                    *)
LEMMA ProbeInv ==
    ASSUME Inv, NEW n \in Nodes, NEW e \in Epochs, Probe(n, e)
    PROVE  Inv' /\ Ordered
<1>1. PICK r \in Readings :
          /\ At(n, e, {"probe"})
          /\ IF r = "answered" /\ Answers(n)
             THEN Set(n, e, Available(n)) /\ Ends(n, e) /\ UNCHANGED provider
             ELSE /\ Goes(n, e, "start")
                  /\ provider' = IF r = "silent" THEN {} ELSE provider
                  /\ UNCHANGED mem
          /\ UNCHANGED <<machine, recon, strikes, started, sent, budget>>
  BY DEF Probe
<1>2. PICK t \in task[n][e] : t.pc = "probe" /\ ~At(n, e, {"queued"})
  <2>1. PICK t \in task[n][e] : t.pc = "probe"
    BY <1>1 DEF At
  <2> QED
    BY <2>1, AtFacts
<1>3. CASE r = "answered" /\ Answers(n)
  BY <1>1, <1>2, <1>3, AvailableInv DEF outside
<1>4. CASE ~(r = "answered" /\ Answers(n))
  <2>1. TypeOK /\ NodeInv(n)
    BY DEF Inv
  <2>2. provider' \in Option(ProviderType)
    BY <1>1, <1>4, <2>1, Types, OptionIntro
  <2>3. Beside(n) /\ Running(n)' /\ Admitted(n)'
    BY <1>1, <1>4, <2>1, <2>2, Types DEF Beside, NodeInv, Running, Admitted
  <2>4. "start" \in Positions \ {"queued"} /\ "start" \notin GivingUp
        /\ "probe" \in Probing /\ "probe" \in Holding
    BY DEF Positions, GivingUp, Probing, Holding
  <2> QED
    BY <1>1, <1>2, <1>4, <2>3, <2>4, MoveInv
<1> QED
  BY <1>3, <1>4

(* The start command is sent, or given up for a newer request.             *)
LEMMA StartInv ==
    ASSUME Inv, NEW n \in Nodes, NEW e \in Epochs, Start(n, e)
    PROVE  Inv' /\ Ordered
<1>1. PICK t \in task[n][e] : t.pc = "start"
  BY DEF Start, At
<1>2. Beside(n) /\ Running(n)' /\ Admitted(n)' /\ UNCHANGED <<mem, started>>
  BY Alone DEF Start, outside
<1>3. CASE ~Current(n, e) /\ Ends(n, e) /\ UNCHANGED sent
  BY <1>2, <1>3, EndInv
<1>4. CASE Current(n, e) /\ Sends(n, e, "starting")
  <2>1. "starting" \in Positions \ {"queued"} /\ "starting" \notin GivingUp
        /\ "start" \in Probing /\ "start" \in Holding
    BY DEF Positions, GivingUp, Probing, Holding
  <2> QED
    BY <1>1, <1>2, <1>4, <2>1, MoveInv DEF Sends
<1> QED
  BY <1>3, <1>4 DEF Start

(* A start is confirmed.                                                   *)
LEMMA StartedInv ==
    ASSUME Inv, NEW n \in Nodes, NEW e \in Epochs, Started(n, e)
    PROVE  Inv' /\ Ordered
<1>1. PICK t \in task[n][e] : t.pc = "starting"
  BY DEF Started, At
<1>2. TypeOK /\ NodeInv(n)
  BY DEF Inv
<1>3. /\ machine' = [machine EXCEPT ![n] = "started"]
      /\ started' = [started EXCEPT ![n] = "confirmed"]
      /\ Goes(n, e, "watch")
      /\ UNCHANGED <<provider, mem, recon, strikes, sent, budget>>
  BY DEF Started
<1>4. Beside(n) /\ Running(n)'
  <2>1. machine' \in [Nodes -> Machines]
    BY <1>2, <1>3, Types DEF Machines
  <2> QED
    BY <1>2, <1>3, <2>1, Types DEF Beside, Running
<1>5. "watch" \in Positions \ {"queued"} /\ "watch" \notin GivingUp \cup Probing \cup Holding
      /\ "starting" # "queued"
  BY DEF Positions, GivingUp, Probing, Holding
<1> QED
  BY <1>1, <1>3, <1>4, <1>5, MoveInv

(* What a start that fails may have done to the machine.                   *)
LEMMA FailureFacts ==
    ASSUME Inv, NEW n \in Nodes, NEW failure, StartFailure(n, failure)
    PROVE  /\ machine' \in [Nodes -> Machines] /\ provider' \in Option(ProviderType)
           /\ started' \in [Nodes -> {"no", "confirmed", "lost"}] /\ budget' \in BudgetType
           /\ \A m \in Nodes \ {n} : machine'[m] = machine[m] /\ started'[m] = started[m]
           /\ started'[n] = started[n] \/ (started'[n] = "lost" /\ failure = "lost")
           /\ failure = "missing" => started'[n] # "confirmed"
           /\ Running(n)'
<1>1. TypeOK /\ NodeInv(n)
  BY DEF Inv
<1>2. budget' \in BudgetType
  BY <1>1, Budgets DEF StartFailure
<1>3. CASE UNCHANGED outside
  <2>1. failure = "missing" => started[n] # "confirmed"
    BY <1>1 DEF StartFailure, NodeInv, Running
  <2> QED
    BY <1>1, <1>2, <1>3, <2>1, Types DEF outside, NodeInv, Running
<1>4. CASE /\ failure = "lost" /\ machine[n] = "stopped"
           /\ machine' = [machine EXCEPT ![n] = "started"]
           /\ started' = [started EXCEPT ![n] = "lost"]
           /\ UNCHANGED provider
  <2>1. /\ machine' \in [Nodes -> Machines] /\ machine'[n] = "started"
        /\ \A m \in Nodes \ {n} : machine'[m] = machine[m]
    BY <1>1, <1>4, Types DEF Machines
  <2>2. /\ started' \in [Nodes -> {"no", "confirmed", "lost"}] /\ started'[n] = "lost"
        /\ \A m \in Nodes \ {n} : started'[m] = started[m]
    BY <1>1, <1>4, Types
  <2> QED
    BY <1>1, <1>2, <1>4, <2>1, <2>2, Types DEF Running
<1> QED
  BY <1>3, <1>4 DEF StartFailure

(* A start that fails is tried again or ends its task.  A wake that falls   *)
(* back on the power it found comes after no confirmed start.              *)
LEMMA StartFailsInv ==
    ASSUME Inv, NEW n \in Nodes, NEW e \in Epochs, StartFails(n, e)
    PROVE  Inv' /\ Ordered
<1>1. PICK t \in task[n][e], failure \in {"lost", "refused", "limited", "missing"} :
          /\ t.pc = "starting"
          /\ StartFailure(n, failure)
          /\ IF failure \in {"lost", "refused"} /\ t.attempt < StartRetries
             THEN /\ task' = [task EXCEPT ![n][e] =
                        {[t EXCEPT !.pc = "start", !.attempt = t.attempt + 1]}]
                  /\ UNCHANGED mem
             ELSE /\ Set(n, e, Failed(Over(View(n, "unreachable",
                                        PowerAfter(n, failure, t.prior)))))
                  /\ Ends(n, e)
          /\ UNCHANGED <<recon, strikes, sent>>
  BY DEF StartFails
<1>2. /\ TypeOK /\ NodeInv(n) /\ t \in TaskType
      /\ \A pcs : At(n, e, pcs) <=> t.pc \in pcs
  BY AtFacts DEF Inv
<1>3. /\ machine' \in [Nodes -> Machines] /\ provider' \in Option(ProviderType)
      /\ started' \in [Nodes -> {"no", "confirmed", "lost"}] /\ budget' \in BudgetType
      /\ \A m \in Nodes \ {n} : machine'[m] = machine[m] /\ started'[m] = started[m]
      /\ started'[n] = started[n] \/ (started'[n] = "lost" /\ failure = "lost")
      /\ failure = "missing" => started'[n] # "confirmed"
      /\ Running(n)'
  BY <1>1, FailureFacts
<1>4. CASE failure \in {"lost", "refused"} /\ t.attempt < StartRetries
  <2> DEFINE u == [t EXCEPT !.pc = "start", !.attempt = t.attempt + 1]
  <2>1. task' = [task EXCEPT ![n][e] = {u}] /\ UNCHANGED mem
    BY <1>1, <1>4
  <2>2. u \in TaskType /\ u.pc = "start" /\ u.prior = t.prior
    <3>1. t.attempt \in 0..StartRetries /\ t.attempt + 1 \in 0..StartRetries
      BY <1>2, <1>4, LimitsAssumption DEF TaskType
    <3>2. "start" \in Positions
      BY DEF Positions
    <3> QED
      BY <1>2, <3>1, <3>2 DEF TaskType
  <2> HIDE DEF u
  <2>3. /\ task' \in [Nodes -> [Epochs -> Option(TaskType)]] /\ task'[n][e] = {u}
        /\ \A m \in Nodes \ {n} : task'[m] = task[m]
        /\ \A f \in Epochs \ {e} : task'[n][f] = task[n][f]
    <3>1. {u} \in Option(TaskType) /\ task \in [Nodes -> [Epochs -> Option(TaskType)]]
      BY <1>2, <2>2, Types, OptionIntro
    <3> QED
      BY <2>1, <3>1
  <2>4. mem' \in [Nodes -> ViewType] /\ recon' \in [Nodes -> Option(ReadingType)]
        /\ strikes' \in 0..SilentStrikes - 1 /\ sent' \in [Nodes -> 0..MaxRequests]
    BY <1>1, <1>2, <2>1, Types
  <2>5. TypeOK'
    BY <1>3, <2>3, <2>4, TypesAfter
  <2>6. "start" \in Positions \ {"queued"} /\ "start" \notin GivingUp
        /\ "starting" \in Probing /\ "starting" \in Holding
    BY DEF Positions, GivingUp, Probing, Holding
  <2>7. started'[n] \in {started[n], "lost"} /\ Admitted(n)'
    BY <1>2, <1>3, <2>1 DEF NodeInv, Admitted
  <2>8. NodeInv(n)'
    BY <1>1, <1>3, <2>1, <2>2, <2>3, <2>6, <2>7, MoveStep
  <2> QED
    BY <1>1, <1>3, <2>1, <2>3, <2>5, <2>8, OneNode
<1>5. CASE ~(failure \in {"lost", "refused"} /\ t.attempt < StartRetries)
  <2> DEFINE pw == PowerAfter(n, failure, t.prior)
             view == Failed(Over(View(n, "unreachable", pw)))
  <2>1. mem[n] \in ViewType /\ "unreachable" \in ViewStates /\ t.prior \in BOOLEAN
        /\ mem[n].power \in BOOLEAN
    <3>1. mem[n] \in ViewType
      BY <1>2, Types
    <3> QED
      BY <1>2, <3>1 DEF ViewStates, TaskType, ViewType
  <2>2. pw \in BOOLEAN
    BY <1>1, <2>1 DEF PowerAfter
  <2>3. Current(n, e) /\ started'[n] = "confirmed" => pw
    <3> SUFFICES ASSUME Current(n, e), started'[n] = "confirmed" PROVE pw
      OBVIOUS
    <3>1. started[n] = "confirmed" /\ failure # "missing"
      BY <1>3
    <3>2. mem[n].power /\ t.prior
      BY <1>1, <1>2, <3>1 DEF NodeInv, Admitted, Prior, Probing
    <3> QED
      BY <1>1, <3>1, <3>2 DEF PowerAfter
  <2>4. Set(n, e, view) /\ Ends(n, e)
    BY <1>1, <1>5
  <2> HIDE DEF pw
  <2>5. view \in ViewType /\ view.epoch = mem[n].epoch /\ view.power = pw
        /\ view.direction = "none"
    <3> HIDE DEF view
    <3>1. Failed(Over(View(n, "unreachable", pw))) \in
              {v \in ViewType : v.epoch = mem[n].epoch /\ v.power = pw
                                /\ v.direction = "none"}
      <4>1. TypeOK /\ "unreachable" \in ViewStates /\ pw \in BOOLEAN
        BY <1>2, <2>1, <2>2
      <4> QED
        BY <4>1, Views
    <3> QED
      BY <3>1 DEF view
  <2> HIDE DEF view
  <2>6. /\ mem' \in [Nodes -> ViewType]
        /\ \A m \in Nodes \ {n} : mem'[m] = mem[m]
        /\ mem'[n] = IF Current(n, e) THEN view ELSE mem[n]
        /\ mem'[n].epoch = mem[n].epoch
    BY <1>2, <2>4, <2>5, SetFacts
  <2>7. Beside(n)
    BY <1>1, <1>3, <2>6 DEF Beside
  <2>8. Admitted(n)'
    BY <1>2, <1>3, <2>3, <2>5, <2>6 DEF NodeInv, Admitted
  <2>9. started'[n] = started[n] \/ started'[n] = "lost"
    BY <1>3
  <2> QED
    BY <1>1, <1>2, <1>3, <2>4, <2>5, <2>6, <2>7, <2>8, <2>9, EndInv
<1> QED
  BY <1>4, <1>5

(* The end of a task with a view that is over and only the machine, if      *)
(* anything, moved.                                                        *)
LEMMA ResultInv ==
    ASSUME Inv, NEW n \in Nodes, NEW e \in Epochs, NEW view \in ViewType,
           view.epoch = mem[n].epoch, Set(n, e, view), Ends(n, e),
           Current(n, e) => ~At(n, e, {"queued"}) /\ view.direction = "none",
           Current(n, e) /\ started[n] = "confirmed" => view.power,
           machine' \in [Nodes -> Machines], \A m \in Nodes \ {n} : machine'[m] = machine[m],
           machine'[n] = machine[n] \/ machine'[n] = "stopping",
           budget' \in BudgetType, UNCHANGED <<provider, started, recon, strikes, sent>>
    PROVE  Inv' /\ Ordered
<1>1. TypeOK /\ NodeInv(n)
  BY DEF Inv
<1>2. /\ mem' \in [Nodes -> ViewType]
      /\ \A m \in Nodes \ {n} : mem'[m] = mem[m]
      /\ mem'[n] = IF Current(n, e) THEN view ELSE mem[n]
      /\ mem'[n].epoch = mem[n].epoch
  BY <1>1, SetFacts
<1>3. Beside(n)
  BY <1>1, <1>2, Types DEF Beside
<1>4. Running(n)' /\ Admitted(n)'
  BY <1>1, <1>2 DEF NodeInv, Running, Admitted
<1> QED
  BY <1>2, <1>3, <1>4, EndInv

(* The provider registers in time.                                         *)
LEMMA RegisteredInv ==
    ASSUME Inv, NEW n \in Nodes, NEW e \in Epochs, Registered(n, e)
    PROVE  Inv' /\ Ordered
<1>1. ~At(n, e, {"queued"})
  <2>1. PICK t \in task[n][e] : t.pc = "watch"
    BY DEF Registered, At
  <2> QED
    BY <2>1, AtFacts
<1> QED
  BY <1>1, AvailableInv DEF Registered

(* The wake's deadline passes.                                             *)
LEMMA DeadlineInv ==
    ASSUME Inv, NEW n \in Nodes, NEW e \in Epochs, Deadline(n, e)
    PROVE  Inv' /\ Ordered
<1> DEFINE view == Failed(Over(View(n, "unreachable", TRUE)))
<1>1. TypeOK /\ NodeInv(n)
  BY DEF Inv
<1>2. view \in ViewType /\ view.epoch = mem[n].epoch /\ view.power /\ view.direction = "none"
  <2> HIDE DEF view
  <2>1. "unreachable" \in ViewStates
    BY DEF ViewStates
  <2>2. Failed(Over(View(n, "unreachable", TRUE))) \in
            {v \in ViewType : v.epoch = mem[n].epoch /\ v.power = TRUE
                              /\ v.direction = "none"}
    BY <1>1, <2>1, Views
  <2> QED
    BY <2>2 DEF view
<1>3. /\ Set(n, e, view) /\ Current(n, e)
      /\ IF KeepFailed THEN Ends(n, e) ELSE Goes(n, e, "giveUp")
      /\ UNCHANGED <<outside, recon, strikes, sent, budget>>
  BY DEF Deadline
<1>4. PICK t \in task[n][e] : t.pc = "watch" /\ ~At(n, e, {"queued"})
  <2>1. PICK t \in task[n][e] : t.pc = "watch"
    BY DEF Deadline, At
  <2> QED
    BY <2>1, AtFacts
<1> HIDE DEF view
<1>5. /\ mem' \in [Nodes -> ViewType] /\ mem'[n] = view
      /\ \A m \in Nodes \ {n} : mem'[m] = mem[m]
      /\ mem'[n].epoch = mem[n].epoch
  BY <1>1, <1>2, <1>3, SetFacts
<1>6. Beside(n) /\ Running(n)' /\ Admitted(n)'
  BY <1>1, <1>2, <1>3, <1>5, Types DEF Beside, outside, NodeInv, Running, Admitted
<1>7. CASE KeepFailed
  BY <1>2, <1>3, <1>4, <1>5, <1>6, <1>7, EndInv DEF outside
<1>8. CASE ~KeepFailed
  <2>1. "giveUp" \in Positions \ {"queued"} /\ "giveUp" \notin Probing
        /\ "giveUp" \notin Holding
    BY DEF Positions, Probing, Holding
  <2>2. Goes(n, e, "giveUp") /\ UNCHANGED sent /\ started'[n] = started[n]
    BY <1>3, <1>8 DEF outside
  <2> QED
    BY <1>2, <1>3, <1>4, <1>5, <1>6, <2>1, <2>2, MoveInv
<1> QED
  BY <1>7, <1>8

(* A failed wake is to be undone.                                          *)
LEMMA GiveUpInv ==
    ASSUME Inv, NEW n \in Nodes, NEW e \in Epochs, GiveUp(n, e)
    PROVE  Inv' /\ Ordered
<1>1. PICK t \in task[n][e] : t.pc = "giveUp"
  BY DEF GiveUp, At
<1>2. Beside(n) /\ Running(n)' /\ Admitted(n)' /\ UNCHANGED <<mem, started, sent>>
      /\ Unlocked(n)
  BY Alone DEF GiveUp, outside
<1>3. CASE ~Current(n, e)
  BY <1>2, <1>3, EndInv DEF GiveUp
<1>4. CASE Current(n, e)
  <2>1. "recheck" \in Positions \ {"queued"} /\ "recheck" \notin Probing
    BY DEF Positions, Probing
  <2>2. mem'[n].direction = "none"
    <3>1. At(n, e, GivingUp)
      BY <1>1 DEF At, GivingUp
    <3> QED
      BY <1>2, <1>4, <3>1 DEF Inv, NodeInv, Directed
  <2>3. Goes(n, e, "recheck")
    BY <1>4 DEF GiveUp
  <2> QED
    BY <1>1, <1>2, <1>4, <2>1, <2>2, <2>3, MoveInv
<1> QED
  BY <1>3, <1>4

(* The provider is read once more before the machine is stopped.           *)
LEMMA RecheckInv ==
    ASSUME Inv, NEW n \in Nodes, NEW e \in Epochs, Recheck(n, e)
    PROVE  Inv' /\ Ordered
<1>1. PICK r \in Readings :
          /\ At(n, e, {"recheck"})
          /\ IF r = "answered" /\ Answers(n)
             THEN Set(n, e, Available(n)) /\ Ends(n, e) /\ UNCHANGED sent
             ELSE /\ IF \/ r = "unavailable" \/ ~Current(n, e)
                        \/ mem[n].state = "available"
                     THEN Ends(n, e) /\ UNCHANGED sent
                     ELSE Sends(n, e, "undoing")
                  /\ UNCHANGED mem
          /\ UNCHANGED <<outside, recon, strikes, budget>>
  BY DEF Recheck
<1>2. PICK t \in task[n][e] : t.pc = "recheck" /\ ~At(n, e, {"queued"}) /\ At(n, e, GivingUp)
  <2>1. PICK t \in task[n][e] : t.pc = "recheck"
    BY <1>1 DEF At
  <2> QED
    BY <2>1, AtFacts DEF GivingUp
<1>3. Current(n, e) => mem[n].direction = "none"
  BY <1>2 DEF Inv, NodeInv, Directed
<1>4. CASE Set(n, e, Available(n)) /\ Ends(n, e) /\ UNCHANGED sent
  BY <1>1, <1>2, <1>4, AvailableInv
<1>5. ASSUME UNCHANGED mem
      PROVE  Beside(n) /\ Running(n)' /\ Admitted(n)' /\ UNCHANGED started
  BY <1>1, <1>5, Alone DEF outside
<1>6. CASE Ends(n, e) /\ UNCHANGED sent /\ UNCHANGED mem
  BY <1>2, <1>3, <1>5, <1>6, EndInv
<1>7. CASE Current(n, e) /\ Sends(n, e, "undoing") /\ UNCHANGED mem
  <2>1. "undoing" \in Positions \ {"queued"} /\ "undoing" \notin Probing
        /\ "recheck" \in Holding
    BY DEF Positions, Probing, Holding
  <2> QED
    BY <1>2, <1>3, <1>5, <1>7, <2>1, MoveInv DEF Sends
<1> QED
  BY <1>1, <1>4, <1>6, <1>7

(* The machine is told to stop.                                            *)
LEMMA StoppedInv ==
    ASSUME Inv, NEW n \in Nodes, NEW e \in Epochs, Stopped(n, e)
    PROVE  Inv' /\ Ordered
<1> DEFINE pc == IF At(n, e, {"stopping"}) THEN "asleep" ELSE "undone"
<1>1. TypeOK /\ NodeInv(n)
  BY DEF Inv
<1>2. PICK t \in task[n][e] : /\ t.pc \in {"stopping", "undoing"}
                              /\ At(n, e, {"stopping"}) <=> t.pc = "stopping"
                              /\ At(n, e, GivingUp) <=> t.pc = "undoing"
  <2>1. PICK t \in task[n][e] : t.pc \in {"stopping", "undoing"}
    BY DEF Stopped, At
  <2> QED
    BY <2>1, AtFacts DEF GivingUp
<1>3. /\ machine' = [machine EXCEPT ![n] = IF machine[n] = "started" THEN "stopping"
                                           ELSE machine[n]]
      /\ Goes(n, e, pc)
      /\ UNCHANGED <<provider, mem, recon, strikes, started, sent, budget>>
  BY DEF Stopped
<1>4. Beside(n) /\ Running(n)' /\ Admitted(n)'
  <2>1. machine' \in [Nodes -> Machines]
        /\ \A m \in Nodes \ {n} : machine'[m] = machine[m]
        /\ machine'[n] \in {machine[n], "stopping"}
    BY <1>1, <1>3, Types DEF Machines
  <2> QED
    BY <1>1, <1>3, <2>1, Types DEF Beside, Running, Admitted, NodeInv
<1>5. /\ pc \in Positions \ {"queued"} /\ pc \notin Probing
      /\ "stopping" \in Holding /\ "undoing" \in Holding
      /\ pc \in GivingUp => t.pc = "undoing"
  BY <1>2 DEF Positions, Probing, Holding, GivingUp
<1>6. Current(n, e) /\ pc \in GivingUp => mem'[n].direction = "none"
  BY <1>1, <1>2, <1>3, <1>5 DEF NodeInv, Directed
<1> HIDE DEF pc
<1> QED
  BY <1>2, <1>3, <1>4, <1>5, <1>6, MoveInv

(* The stop fails, or its answer is lost.                                  *)
LEMMA StopFailsInv ==
    ASSUME Inv, NEW n \in Nodes, NEW e \in Epochs, StopFails(n, e)
    PROVE  Inv' /\ Ordered
<1> DEFINE v == View(n, "unreachable", TRUE)
           view == IF At(n, e, {"stopping"}) THEN Over(v) ELSE v
<1>1. TypeOK /\ NodeInv(n) /\ "unreachable" \in ViewStates
  BY DEF Inv, ViewStates
<1>2. PICK t \in task[n][e] : /\ ~At(n, e, {"queued"})
                              /\ At(n, e, {"stopping"}) \/ At(n, e, GivingUp)
  <2>1. PICK t \in task[n][e] : t.pc \in {"stopping", "undoing"}
    BY DEF StopFails, At
  <2> QED
    BY <2>1, AtFacts DEF GivingUp
<1>3. /\ v \in {u \in ViewType : u.epoch = mem[n].epoch /\ u.power = TRUE
                   /\ u.state = "unreachable" /\ u.direction = mem[n].direction}
      /\ Over(v) \in {u \in ViewType : u.epoch = mem[n].epoch
                          /\ u.power = TRUE /\ u.direction = "none"}
  BY <1>1, Views
<1>4. /\ \/ /\ Faulty
            /\ \/ UNCHANGED machine
               \/ /\ machine[n] = "started"
                  /\ machine' = [machine EXCEPT ![n] = "stopping"]
         \/ machine[n] = "destroyed" /\ UNCHANGED <<machine, budget>>
      /\ Set(n, e, view) /\ Ends(n, e)
      /\ UNCHANGED <<provider, recon, strikes, started, sent>>
  BY DEF StopFails
<1> HIDE DEF v
<1>5. /\ view \in ViewType /\ view.epoch = mem[n].epoch /\ view.power
      /\ Current(n, e) => view.direction = "none"
  <2>1. CASE At(n, e, {"stopping"})
    BY <1>3, <2>1
  <2>2. CASE ~At(n, e, {"stopping"})
    <3>1. Current(n, e) => mem[n].direction = "none"
      BY <1>1, <1>2, <2>2 DEF NodeInv, Directed
    <3> QED
      BY <1>3, <2>2, <3>1
  <2> QED
    BY <2>1, <2>2
<1> HIDE DEF view
<1>6. /\ machine' \in [Nodes -> Machines]
      /\ \A m \in Nodes \ {n} : machine'[m] = machine[m]
      /\ machine'[n] = machine[n] \/ machine'[n] = "stopping"
  BY <1>1, <1>4, Types DEF Machines
<1>7. budget' \in BudgetType
  BY <1>1, <1>4, Budgets
<1> QED
  BY <1>2, <1>4, <1>5, <1>6, <1>7, ResultInv

(* The machine is seen stopped.                                            *)
LEMMA AsleepInv ==
    ASSUME Inv, NEW n \in Nodes, NEW e \in Epochs, Asleep(n, e)
    PROVE  Inv' /\ Ordered
<1>1. TypeOK /\ NodeInv(n) /\ "stopped" \in ViewStates /\ "unreachable" \in ViewStates
  BY DEF Inv, ViewStates
<1>2. started[n] # "confirmed"
  BY <1>1 DEF Asleep, NodeInv, Running
<1>3. ~At(n, e, {"queued"})
  <2>1. PICK t \in task[n][e] : t.pc \in {"asleep", "undone"}
    BY DEF Asleep, At
  <2> QED
    BY <2>1, AtFacts
<1>4. machine' \in [Nodes -> Machines] /\ budget' \in BudgetType
      /\ UNCHANGED <<machine, provider, started, recon, strikes, sent>> /\ Ends(n, e)
  BY <1>1, Types DEF Asleep, outside
<1>5. ASSUME NEW view \in {v \in ViewType : v.epoch = mem[n].epoch /\ v.power = FALSE
                                          /\ v.direction = "none"},
             Set(n, e, view)
      PROVE  Inv' /\ Ordered
  BY <1>2, <1>3, <1>4, <1>5, ResultInv
<1>6. /\ [Over(View(n, "stopped", FALSE)) EXCEPT !.slept = TRUE] \in
             {v \in ViewType : v.epoch = mem[n].epoch /\ v.power = FALSE
                               /\ v.direction = "none"}
      /\ Over(View(n, "unreachable", FALSE)) \in
             {v \in ViewType : v.epoch = mem[n].epoch /\ v.power = FALSE
                               /\ v.direction = "none"}
  BY <1>1, Views, SleptView
<1> QED
  BY <1>5, <1>6 DEF Asleep

(* The machine is seen up, or it could not be seen.                        *)
LEMMA StaysAwakeInv ==
    ASSUME Inv, NEW n \in Nodes, NEW e \in Epochs, StaysAwake(n, e)
    PROVE  Inv' /\ Ordered
<1>1. TypeOK /\ "unreachable" \in ViewStates
  BY DEF Inv, ViewStates
<1>2. ~At(n, e, {"queued"})
  <2>1. PICK t \in task[n][e] : t.pc \in {"asleep", "undone"}
    BY DEF StaysAwake, At
  <2> QED
    BY <2>1, AtFacts
<1>3. machine' \in [Nodes -> Machines] /\ budget' \in BudgetType
      /\ UNCHANGED <<machine, provider, started, recon, strikes, sent>> /\ Ends(n, e)
  BY <1>1, Types, Budgets DEF StaysAwake, outside
<1>4. Over(View(n, "unreachable", TRUE)) \in
          {v \in ViewType : v.epoch = mem[n].epoch /\ v.power = TRUE
                            /\ v.direction = "none"}
  BY <1>1, Views
<1>5. Set(n, e, Over(View(n, "unreachable", TRUE)))
  BY DEF StaysAwake
<1> QED
  BY <1>2, <1>3, <1>4, <1>5, ResultInv

(* A newer request ends a task that only waits.                            *)
LEMMA SupersededInv ==
    ASSUME Inv, NEW n \in Nodes, NEW e \in Epochs, Superseded(n, e)
    PROVE  Inv' /\ Ordered
<1>1. Beside(n) /\ Running(n)' /\ Admitted(n)' /\ UNCHANGED <<mem, started, sent>>
  BY Alone DEF Superseded, outside
<1> QED
  BY <1>1, EndInv DEF Superseded

(* Every step of a task.                                                   *)
LEMMA TaskInv ==
    ASSUME Inv, NEW n \in Nodes, NEW e \in Epochs, Task(n, e)
    PROVE  Inv' /\ Ordered
  BY TurnInv, ProbeInv, StartInv, StartedInv, StartFailsInv, RegisteredInv, DeadlineInv,
     GiveUpInv, RecheckInv, StoppedInv, StopFailsInv, AsleepInv, StaysAwakeInv,
     SupersededInv DEF Task

-----------------------------------------------------------------------------
(* The reconciliation                                                      *)

(* A reading is taken: it says off only of a machine that is off.          *)
LEMMA SampleInv ==
    ASSUME Inv, NEW n \in Nodes, Sample(n)
    PROVE  Inv' /\ Ordered
<1>1. TypeOK /\ NodeInv(n) /\ machine[n] \in Machines
  <2>1. TypeOK /\ NodeInv(n)
    BY DEF Inv
  <2> QED
    BY <2>1, Types
<1>2. PICK c \in recon[n], s \in Samples :
          /\ recon' = [recon EXCEPT ![n] = {[c EXCEPT !.sample = {s}]}]
          /\ s \in {"stopped", "destroyed"} => started[n] = "no"
          /\ UNCHANGED budget \/ Faulty
          /\ UNCHANGED <<outside, mem, task, strikes, sent>>
  <2>1. PICK c \in recon[n] :
            /\ \/ /\ \E s \in SamplesOf(n) :
                         recon' = [recon EXCEPT ![n] = {[c EXCEPT !.sample = {s}]}]
                  /\ UNCHANGED budget
               \/ /\ recon' = [recon EXCEPT ![n] = {[c EXCEPT !.sample = {"failed"}]}]
                  /\ Faulty
            /\ UNCHANGED <<outside, mem, task, strikes, sent>>
    BY DEF Sample
  <2>2. \A s \in SamplesOf(n) : s \in Samples /\ (s \in {"stopped", "destroyed"} => started[n] = "no")
    BY <1>1 DEF SamplesOf, Samples, Machines, NodeInv, Running
  <2>3. "failed" \in Samples /\ "failed" \notin {"stopped", "destroyed"}
    BY DEF Samples
  <2> QED
    BY <2>1, <2>2, <2>3
<1> DEFINE r == [c EXCEPT !.sample = {s}]
<1>3. c \in ReadingType /\ recon[n] = {c} /\ recon \in [Nodes -> Option(ReadingType)]
  <2>1. recon \in [Nodes -> Option(ReadingType)]
    BY <1>1, Types
  <2> QED
    BY <2>1, OptionElim
<1>4. r \in ReadingType /\ r.epoch = c.epoch /\ r.sample = {s}
  <2>1. {s} \in Option(Samples)
    BY OptionIntro
  <2> QED
    BY <1>3, <2>1 DEF ReadingType
<1>5. recon' = [recon EXCEPT ![n] = {r}]
  BY <1>2
<1> HIDE DEF r
<1>6. /\ recon' \in [Nodes -> Option(ReadingType)] /\ recon'[n] = {r}
      /\ \A m \in Nodes \ {n} : recon'[m] = recon[m]
  <2>1. {r} \in Option(ReadingType)
    BY <1>4, OptionIntro
  <2> QED
    BY <1>3, <1>5, <2>1
<1>7. TypeOK'
  BY <1>1, <1>2, <1>6, Types, TypesAfter, Budgets DEF outside
<1>8. NodeInv(n)'
  <2>1. /\ \A f \in Epochs : \A pcs : At(n, f, pcs)' <=> At(n, f, pcs)
        /\ \A f : Current(n, f)' <=> Current(n, f)
    BY <1>2 DEF At, Current
  <2>2. Turns(n)' /\ Directed(n)' /\ Waking(n)' /\ Prior(n)'
    BY <1>1, <1>2, <2>1 DEF NodeInv, Turns, Directed, Waking, Prior, outside
  <2>3. Past(n)'
    BY <1>1, <1>2, <1>4, <1>6 DEF NodeInv, Past
  <2>4. Reading(n)'
    BY <1>1, <1>2, <1>4, <1>6 DEF NodeInv, Reading, outside
  <2>5. Running(n)' /\ Stands(n)' /\ Admitted(n)'
    BY <1>1, <1>2 DEF NodeInv, Running, Stands, Admitted, outside
  <2> QED
    BY <2>2, <2>3, <2>4, <2>5 DEF NodeInv
<1> QED
  BY <1>2, <1>6, <1>7, <1>8, OneNode DEF outside

(* A node at rest gets a new view, with the power it had or one that no     *)
(* confirmed start contradicts, and at most a new reading.                 *)
LEMMA RestStep ==
    ASSUME Inv, NEW n \in Nodes, task'[n] = task[n], sent'[n] = sent[n],
           started'[n] = started[n], machine'[n] = machine[n],
           mem'[n].epoch = mem[n].epoch,
           \/ mem'[n] = mem[n]
           \/ mem[n].direction = "none" /\ mem'[n].direction = "none",
           started[n] = "confirmed" => mem'[n].power,
           \A c \in recon'[n] : \/ c \in recon[n]
                                \/ /\ c.epoch = mem[n].epoch /\ c.sample = {}
                                   /\ mem[n].direction = "none"
    PROVE  NodeInv(n)'
<1>1. TypeOK /\ NodeInv(n) /\ mem[n].epoch \in 0..MaxRequests
  <2>1. TypeOK /\ NodeInv(n)
    BY DEF Inv
  <2>2. mem[n] \in ViewType
    BY <2>1, Types
  <2> QED
    BY <2>1, <2>2 DEF ViewType
<1>2. /\ \A f \in Epochs : \A pcs : At(n, f, pcs)' <=> At(n, f, pcs)
      /\ \A f : Current(n, f)' <=> Current(n, f)
      /\ mem'[n].direction = mem[n].direction
  BY DEF At, Current
<1>3. Turns(n)' /\ Directed(n)' /\ Waking(n)' /\ Prior(n)'
  BY <1>1, <1>2 DEF NodeInv, Turns, Directed, Waking, Prior
<1>4. Past(n)'
  BY <1>1 DEF NodeInv, Past
<1>5. Reading(n)'
  BY <1>1, <1>2 DEF NodeInv, Reading
<1>6. Running(n)' /\ Stands(n)' /\ Admitted(n)'
  BY <1>1, <1>2 DEF NodeInv, Running, Stands, Admitted
<1> QED
  BY <1>3, <1>4, <1>5, <1>6 DEF NodeInv

(* A reading is applied: only to a node at rest that nothing was requested  *)
(* of since, and off only if no start was confirmed.                       *)
LEMMA ApplyInv ==
    ASSUME Inv, NEW n \in Nodes, Apply(n)
    PROVE  Inv' /\ Ordered
<1>1. TypeOK /\ NodeInv(n)
  BY DEF Inv
<1>2. PICK c \in recon[n] : \E s \in c.sample :
          /\ Set(n, c.epoch, Seen(n, s))
          /\ recon' = [recon EXCEPT ![n] = {}]
          /\ UNCHANGED <<outside, task, strikes, sent, budget>>
  BY DEF Apply
<1>3. PICK s \in c.sample :
          /\ Set(n, c.epoch, Seen(n, s))
          /\ recon' = [recon EXCEPT ![n] = {}]
          /\ UNCHANGED <<outside, task, strikes, sent, budget>>
  BY <1>2
<1>4. mem[n] \in ViewType /\ mem[n].power \in BOOLEAN /\ mem[n].failed \in BOOLEAN
  <2>1. mem[n] \in ViewType
    BY <1>1, Types
  <2> QED
    BY <2>1 DEF ViewType
<1>5. ASSUME NEW st \in ViewStates, NEW pw \in BOOLEAN
      PROVE  View(n, st, pw) \in {v \in ViewType : v.epoch = mem[n].epoch /\ v.power = pw
                                      /\ v.state = st /\ v.direction = mem[n].direction}
  BY <1>1, Views
<1> DEFINE st == CASE s = "starting" -> "waking"
                   [] s = "stopped" /\ ~mem[n].failed -> "stopped"
                   [] OTHER -> "unreachable"
           pw == CASE s \in {"started", "starting"} -> TRUE
                   [] s \in {"stopped", "destroyed"} -> FALSE
                   [] OTHER -> mem[n].power
<1>6. Seen(n, s) = View(n, st, pw)
  BY DEF Seen
<1>7. st \in ViewStates /\ pw \in BOOLEAN
      /\ (s \notin {"stopped", "destroyed"} => pw \/ pw = mem[n].power)
  BY <1>4 DEF ViewStates
<1> HIDE DEF st, pw
<1>8. /\ Seen(n, s) \in ViewType /\ Seen(n, s).epoch = mem[n].epoch
      /\ Seen(n, s).direction = mem[n].direction
      /\ s \notin {"stopped", "destroyed"} =>
             Seen(n, s).power \/ Seen(n, s).power = mem[n].power
  BY <1>5, <1>6, <1>7
<1>9. /\ mem' \in [Nodes -> ViewType]
      /\ \A m \in Nodes \ {n} : mem'[m] = mem[m]
      /\ mem'[n] = IF Current(n, c.epoch) THEN Seen(n, s) ELSE mem[n]
      /\ mem'[n].epoch = mem[n].epoch
  BY <1>1, <1>3, <1>8, SetFacts
<1>10. /\ recon' \in [Nodes -> Option(ReadingType)] /\ recon'[n] = {}
       /\ \A m \in Nodes \ {n} : recon'[m] = recon[m]
  <2>1. recon \in [Nodes -> Option(ReadingType)] /\ {} \in Option(ReadingType)
    BY <1>1, Types, OptionIntro
  <2> QED
    BY <1>3, <2>1
<1>11. TypeOK'
  BY <1>1, <1>3, <1>9, <1>10, Types, TypesAfter DEF outside
<1>12. Current(n, c.epoch) =>
           /\ mem[n].direction = "none"
           /\ s \in {"stopped", "destroyed"} => started[n] # "confirmed"
  BY <1>1, <1>3 DEF Current, NodeInv, Reading
<1>13. started[n] = "confirmed" => mem'[n].power
  BY <1>1, <1>8, <1>9, <1>12 DEF NodeInv, Admitted
<1>14. NodeInv(n)'
  BY <1>3, <1>8, <1>9, <1>10, <1>12, <1>13, RestStep DEF outside
<1> QED
  BY <1>3, <1>9, <1>10, <1>11, <1>14, OneNode DEF outside

(* The reconciliation reads the provider and asks for the machines of the   *)
(* nodes at rest that it does not run on.                                  *)
LEMMA ReconcileInv ==
    ASSUME Inv, Reconcile
    PROVE  Inv' /\ Ordered
<1>1. PICK r \in Readings \ {"unavailable"} :
          LET quiet == {n \in Nodes : mem[n].direction = "none"}
              up    == {n \in quiet : r = "answered" /\ Answers(n)}
          IN  /\ mem' = [n \in Nodes |->
                   CASE n \in up                        -> Available(n)
                     [] n \in (quiet \ up) \ Wakeable -> View(n, "unreachable", mem[n].power)
                     [] OTHER                           -> mem[n]]
              /\ recon' = [n \in Nodes |->
                   IF n \in (quiet \cap Wakeable) \ up
                   THEN {[epoch |-> mem[n].epoch, sample |-> {}]} ELSE {}]
              /\ strikes' = NextStrikes(r)
              /\ provider' = IF Evicts(r) THEN {} ELSE provider
  BY DEF Reconcile
<1>2. UNCHANGED <<machine, task, started, sent, budget>>
  BY DEF Reconcile
<1> DEFINE quiet == {n \in Nodes : mem[n].direction = "none"}
           up    == {n \in quiet : r = "answered" /\ Answers(n)}
<1>3. TypeOK /\ \A n \in Nodes : NodeInv(n)
  BY DEF Inv
<1>4. ASSUME NEW n \in Nodes
      PROVE  /\ mem[n] \in ViewType /\ mem[n].power \in BOOLEAN
             /\ mem[n].epoch \in 0..MaxRequests
             /\ Available(n) \in {v \in ViewType : v.epoch = mem[n].epoch /\ v.power
                                                   /\ v.direction = "none"}
             /\ View(n, "unreachable", mem[n].power) \in
                    {v \in ViewType : v.epoch = mem[n].epoch /\ v.power = mem[n].power
                        /\ v.state = "unreachable" /\ v.direction = mem[n].direction}
  <2>1. mem[n] \in ViewType
    BY <1>3, Types
  <2>2. mem[n].power \in BOOLEAN /\ mem[n].epoch \in 0..MaxRequests
        /\ "unreachable" \in ViewStates
    BY <2>1 DEF ViewType, ViewStates
  <2> QED
    BY <1>3, <2>1, <2>2, Views
<1>5. ASSUME NEW n \in Nodes
      PROVE  /\ mem'[n] \in ViewType /\ mem'[n].epoch = mem[n].epoch
             /\ \/ mem'[n] = mem[n]
                \/ mem[n].direction = "none" /\ mem'[n].direction = "none"
             /\ mem'[n].power \/ mem'[n].power = mem[n].power
  <2>1. mem'[n] = CASE n \in up                        -> Available(n)
                    [] n \in (quiet \ up) \ Wakeable -> View(n, "unreachable", mem[n].power)
                    [] OTHER                           -> mem[n]
    BY <1>1
  <2>2. CASE n \in up
    <3>1. mem'[n] = Available(n) /\ mem[n].direction = "none"
      BY <2>1, <2>2
    <3> QED
      BY <1>4, <3>1
  <2>3. CASE n \in (quiet \ up) \ Wakeable
    <3>1. mem'[n] = View(n, "unreachable", mem[n].power) /\ mem[n].direction = "none"
      BY <2>1, <2>3
    <3> QED
      BY <1>4, <3>1
  <2>4. CASE n \notin up /\ n \notin (quiet \ up) \ Wakeable
    <3>1. mem'[n] = mem[n]
      BY <2>1, <2>4
    <3> QED
      BY <1>4, <3>1
  <2> QED
    BY <2>2, <2>3, <2>4
<1>6. ASSUME NEW n \in Nodes
      PROVE  /\ recon'[n] \in Option(ReadingType)
             /\ \A c \in recon'[n] : /\ c.epoch = mem[n].epoch /\ c.sample = {}
                                     /\ mem[n].direction = "none"
  <2> DEFINE c == [epoch |-> mem[n].epoch, sample |-> {}]
  <2>1. c \in ReadingType
    BY <1>4, OptionIntro DEF ReadingType
  <2>2. \/ recon'[n] = {}
        \/ recon'[n] = {c} /\ mem[n].direction = "none"
    BY <1>1
  <2>3. {} \in Option(ReadingType) /\ {c} \in Option(ReadingType)
    BY <2>1, OptionIntro
  <2> QED
    BY <2>2, <2>3
<1>7. mem' \in [Nodes -> ViewType] /\ recon' \in [Nodes -> Option(ReadingType)]
  <2>1. mem' = [n \in Nodes |-> mem'[n]] /\ recon' = [n \in Nodes |-> recon'[n]]
    BY <1>1
  <2> QED
    BY <1>5, <1>6, <2>1
<1>8. strikes' \in 0..SilentStrikes - 1
  <2>1. strikes \in 0..SilentStrikes - 1
    BY <1>3, Types
  <2>2. NextStrikes(r) = 0 \/ (NextStrikes(r) = strikes + 1 /\ ~(strikes + 1 >= SilentStrikes))
    BY DEF NextStrikes, Evicts
  <2> QED
    BY <1>1, <2>1, <2>2, LimitsAssumption
<1>9. provider' \in Option(ProviderType)
  BY <1>1, <1>3, Types, OptionIntro
<1>10. TypeOK'
  BY <1>2, <1>3, <1>7, <1>8, <1>9, Types, TypesAfter
<1>11. ASSUME NEW n \in Nodes PROVE NodeInv(n)'
  <2>1. started[n] = "confirmed" => mem'[n].power
    BY <1>3, <1>5 DEF NodeInv, Admitted
  <2> QED
    BY <1>2, <1>5, <1>6, <2>1, RestStep
<1>12. Ordered
  <2>1. sent \in [Nodes -> 0..MaxRequests]
    BY <1>3, Types
  <2> QED
    BY <1>2, <2>1 DEF Ordered
<1> QED
  BY <1>10, <1>11, <1>12 DEF Inv

-----------------------------------------------------------------------------
(* Machines, their providers, and the hub's own restarts                   *)

(* What happens to a machine or a provider touches nothing the hub keeps of *)
(* the node, and at most ends a start that held.                           *)
LEMMA WorldStep ==
    ASSUME Inv, NEW n \in Nodes, UNCHANGED <<mem, task, recon, sent>>,
           machine' \in [Nodes -> Machines], provider' \in Option(ProviderType),
           started' \in [Nodes -> {"no", "confirmed", "lost"}],
           strikes' \in 0..SilentStrikes - 1, budget' \in BudgetType,
           \A m \in Nodes \ {n} : machine'[m] = machine[m] /\ started'[m] = started[m],
           started'[n] \in {"no", started[n]}, Running(n)'
    PROVE  Inv' /\ Ordered
<1>1. TypeOK /\ NodeInv(n)
  BY DEF Inv
<1>2. TypeOK'
  BY <1>1, Types, TypesAfter
<1>3. /\ \A f \in Epochs : \A pcs : At(n, f, pcs)' <=> At(n, f, pcs)
      /\ \A f : Current(n, f)' <=> Current(n, f)
      /\ started'[n] = "confirmed" => started[n] = "confirmed"
  BY DEF At, Current
<1>4. Turns(n)' /\ Past(n)' /\ Directed(n)' /\ Waking(n)' /\ Prior(n)'
  BY <1>1, <1>3 DEF NodeInv, Turns, Past, Directed, Waking, Prior
<1>5. Reading(n)' /\ Stands(n)' /\ Admitted(n)'
  BY <1>1, <1>3 DEF NodeInv, Reading, Stands, Admitted
<1>6. NodeInv(n)'
  BY <1>4, <1>5 DEF NodeInv
<1> QED
  BY <1>2, <1>6, OneNode

(* A provider that is lost with its machine, or stays and is silent.       *)
LEMMA LosesFacts ==
    ASSUME TypeOK, NEW n \in Nodes, Loses(n)
    PROVE  provider' \in Option(ProviderType)
<1>1. provider \in Option(ProviderType)
  BY Types
<1>2. CASE provider = {}
  BY <1>2, OptionIntro DEF Loses
<1>3. ASSUME NEW p \in provider PROVE provider' \in Option(ProviderType)
  <2>1. p \in ProviderType /\ provider = {p}
    BY <1>1, OptionElim
  <2>2. [p EXCEPT !.silent = TRUE] \in ProviderType
    BY <2>1 DEF ProviderType
  <2>3. \/ provider' = {} \/ provider' = {p}
        \/ provider' = {[p EXCEPT !.silent = TRUE]}
    BY <2>1 DEF Loses
  <2> QED
    BY <2>1, <2>2, <2>3, OptionIntro
<1> QED
  BY <1>2, <1>3

(* A machine stops, crashes or is destroyed.                               *)
LEMMA RestsInv ==
    ASSUME Inv, NEW n \in Nodes, NEW state \in Machines, Rests(n, state),
           Moves \/ UNCHANGED budget
    PROVE  Inv' /\ Ordered
<1>1. TypeOK
  BY DEF Inv
<1>2. /\ machine' \in [Nodes -> Machines]
      /\ started' \in [Nodes -> {"no", "confirmed", "lost"}]
      /\ started'[n] = "no"
      /\ \A m \in Nodes \ {n} : machine'[m] = machine[m] /\ started'[m] = started[m]
      /\ strikes' \in 0..SilentStrikes - 1
  BY <1>1, Types DEF Rests
<1>3. provider' \in Option(ProviderType) /\ budget' \in BudgetType
  BY <1>1, LosesFacts, Budgets DEF Rests
<1>4. Running(n)'
  BY <1>2 DEF Running
<1> QED
  BY <1>2, <1>3, <1>4, WorldStep DEF Rests

(* Every step of a machine or its provider.                                *)
LEMMA WorldInv ==
    ASSUME Inv, NEW n \in Nodes, World(n)
    PROVE  Inv' /\ Ordered
<1>1. /\ TypeOK /\ NodeInv(n) /\ machine \in [Nodes -> Machines]
      /\ provider \in Option(ProviderType) /\ strikes \in 0..SilentStrikes - 1
      /\ started \in [Nodes -> {"no", "confirmed", "lost"}]
  <2>1. TypeOK /\ NodeInv(n)
    BY DEF Inv
  <2> QED
    BY <2>1, Types
<1>2. CASE MachineStops(n) \/ MachineCrashes(n) \/ Destroyed(n)
  <2>1. "stopped" \in Machines /\ "destroyed" \in Machines
    BY DEF Machines
  <2> QED
    BY <1>2, <2>1, RestsInv DEF MachineStops, MachineCrashes, Destroyed
<1>3. CASE StartedElsewhere(n)
  <2>1. /\ machine' \in [Nodes -> Machines] /\ machine'[n] = "started"
        /\ \A m \in Nodes \ {n} : machine'[m] = machine[m]
    BY <1>1, <1>3 DEF StartedElsewhere, Machines
  <2>2. UNCHANGED <<provider, mem, task, recon, strikes, started, sent>>
        /\ budget' \in BudgetType
    BY <1>1, <1>3, Budgets DEF StartedElsewhere
  <2>3. Running(n)'
    BY <2>1 DEF Running
  <2> QED
    BY <1>1, <2>1, <2>2, <2>3, WorldStep
<1>4. CASE Registers(n)
  <2>1. /\ machine' = machine /\ started' = started /\ budget' \in BudgetType
        /\ UNCHANGED <<mem, task, recon, sent>>
    BY <1>1, <1>4, Budgets DEF Registers
  <2>2. strikes' \in 0..SilentStrikes - 1
    BY <1>4, LimitsAssumption DEF Registers
  <2>3. provider' \in Option(ProviderType)
    <3>1. [node |-> n, silent |-> FALSE] \in ProviderType
      BY DEF ProviderType
    <3> QED
      BY <1>4, <3>1, OptionIntro DEF Registers
  <2>4. Running(n)'
    BY <1>1, <2>1 DEF NodeInv, Running
  <2> QED
    BY <1>1, <2>1, <2>2, <2>3, <2>4, WorldStep
<1> QED
  BY <1>2, <1>3, <1>4 DEF World

(* A provider falls silent or is gone.                                     *)
LEMMA FallsSilentInv ==
    ASSUME Inv, FallsSilent
    PROVE  Inv' /\ Ordered
<1>1. /\ TypeOK /\ provider \in Option(ProviderType)
      /\ machine \in [Nodes -> Machines] /\ strikes \in 0..SilentStrikes - 1
      /\ started \in [Nodes -> {"no", "confirmed", "lost"}]
  <2>1. TypeOK
    BY DEF Inv
  <2> QED
    BY <2>1, Types
<1>2. PICK p \in provider :
          /\ Moves
          /\ provider' \in {{}, {[p EXCEPT !.silent = TRUE]}}
          /\ UNCHANGED <<machine, mem, task, recon, strikes, started, sent>>
  BY DEF FallsSilent
<1>3. p \in ProviderType
  BY <1>1, OptionElim
<1>4. p.node \in Nodes /\ [p EXCEPT !.silent = TRUE] \in ProviderType
  BY <1>3 DEF ProviderType
<1>5. provider' \in Option(ProviderType)
  BY <1>2, <1>4, OptionIntro
<1>6. budget' \in BudgetType
  BY <1>1, <1>2, Budgets
<1>7. Running(p.node)'
  BY <1>2, <1>4 DEF Inv, NodeInv, Running
<1> QED
  BY <1>1, <1>2, <1>4, <1>5, <1>6, <1>7, WorldStep

(* A hub that knows nothing, of machines in any state.                     *)
LEMMA FreshInv ==
    ASSUME NEW n \in Nodes, mem[n] = Fresh, task[n] = [e \in Epochs |-> {}],
           recon[n] = {}, started[n] = "no", sent[n] = 0
    PROVE  NodeInv(n)
<1>1. mem[n].epoch = 0 /\ mem[n].direction = "none"
  BY DEF Fresh
<1>2. \A e \in Epochs : \A pcs : ~At(n, e, pcs)
  BY DEF At
<1>3. Turns(n) /\ Directed(n) /\ Waking(n)
  BY <1>2 DEF Turns, Directed, Waking
<1>4. Past(n)
  BY <1>1 DEF Past
<1>5. Prior(n) /\ Reading(n) /\ Running(n) /\ Stands(n) /\ Admitted(n)
  BY <1>1 DEF Prior, Reading, Running, Stands, Admitted
<1> QED
  BY <1>3, <1>4, <1>5 DEF NodeInv

(* Fresh memory and the empty tasks have their types.                      *)
LEMMA FreshTypes ==
    /\ Fresh \in ViewType
    /\ NoTasks \in [Nodes -> [Epochs -> Option(TaskType)]]
    /\ 0 \in 0..SilentStrikes - 1 /\ 0 \in 0..MaxRequests
    /\ {} \in Option(ReadingType) /\ {} \in Option(ProviderType)
<1>1. 0 \in 0..SilentStrikes - 1 /\ 0 \in 0..MaxRequests
  BY LimitsAssumption, NodeBoundsAssumption
<1>2. Fresh \in ViewType
  BY <1>1 DEF Fresh, ViewType, ViewStates, Directions
<1>3. /\ {} \in Option(ReadingType) /\ {} \in Option(ProviderType)
      /\ {} \in Option(TaskType)
  BY OptionIntro
<1> QED
  BY <1>1, <1>2, <1>3 DEF NoTasks

(* Nothing is known at first.                                              *)
LEMMA InitInv == Init => Inv
<1> SUFFICES ASSUME Init PROVE Inv
  OBVIOUS
<1>1. budget \in BudgetType
  BY NodeBoundsAssumption DEF Init, BudgetType
<1>2. /\ machine \in [Nodes -> Machines]
      /\ mem \in [Nodes -> ViewType] /\ recon \in [Nodes -> Option(ReadingType)]
      /\ started \in [Nodes -> {"no", "confirmed", "lost"}]
      /\ sent \in [Nodes -> 0..MaxRequests]
      /\ provider \in Option(ProviderType) /\ strikes \in 0..SilentStrikes - 1
      /\ task \in [Nodes -> [Epochs -> Option(TaskType)]]
  BY FreshTypes DEF Init, Machines
<1>3. TypeOK
  BY <1>1, <1>2, Types
<1>4. ASSUME NEW n \in Nodes PROVE NodeInv(n)
  <2>1. /\ mem[n] = Fresh /\ task[n] = [e \in Epochs |-> {}]
        /\ recon[n] = {} /\ started[n] = "no" /\ sent[n] = 0
    BY DEF Init, NoTasks
  <2> QED
    BY <2>1, FreshInv
<1> QED
  BY <1>3, <1>4 DEF Inv

(* The hub restarts: its memory is gone, and it is the one step after which *)
(* commands are numbered anew.                                             *)
LEMMA RestartInv ==
    ASSUME Inv, Restart
    PROVE  Inv' /\ Ordered
<1>1. TypeOK /\ budget \in BudgetType
  <2>1. TypeOK
    BY DEF Inv
  <2> QED
    BY <2>1, Types
<1>2. budget' \in BudgetType /\ budget'.restarts < budget.restarts
  <2>1. budget.restarts \in 0..MaxRestarts /\ budget.restarts > 0
    BY <1>1 DEF BudgetType, Restart
  <2>2. budget.restarts - 1 \in 0..MaxRestarts /\ budget.restarts - 1 < budget.restarts
    BY <2>1, NodeBoundsAssumption
  <2>3. budget' = [budget EXCEPT !.restarts = budget.restarts - 1]
    BY DEF Restart
  <2> QED
    BY <1>1, <2>2, <2>3 DEF BudgetType
<1>3. /\ machine' \in [Nodes -> Machines]
      /\ mem' \in [Nodes -> ViewType] /\ recon' \in [Nodes -> Option(ReadingType)]
      /\ started' \in [Nodes -> {"no", "confirmed", "lost"}]
      /\ sent' \in [Nodes -> 0..MaxRequests]
      /\ provider' \in Option(ProviderType) /\ strikes' \in 0..SilentStrikes - 1
      /\ task' \in [Nodes -> [Epochs -> Option(TaskType)]]
  BY FreshTypes DEF Restart, Machines
<1>4. TypeOK'
  BY <1>2, <1>3, TypesAfter
<1>5. ASSUME NEW n \in Nodes PROVE NodeInv(n)'
  <2>1. /\ mem'[n] = Fresh' /\ task'[n] = [e \in Epochs |-> {}]
        /\ recon'[n] = {} /\ started'[n] = "no" /\ sent'[n] = 0
    BY DEF Restart, NoTasks, Fresh
  <2>2. mem'[n].epoch = 0 /\ mem'[n].direction = "none"
    BY <2>1 DEF Fresh
  <2>3. \A e \in Epochs : \A pcs : ~At(n, e, pcs)'
    BY <2>1 DEF At
  <2>4. Turns(n)' /\ Directed(n)' /\ Waking(n)'
    BY <2>3 DEF Turns, Directed, Waking
  <2>5. Past(n)'
    BY <2>1, <2>2 DEF Past
  <2>6. Prior(n)' /\ Reading(n)' /\ Running(n)' /\ Stands(n)' /\ Admitted(n)'
    BY <2>1, <2>2 DEF Prior, Reading, Running, Stands, Admitted
  <2> QED
    BY <2>4, <2>5, <2>6 DEF NodeInv
<1> QED
  BY <1>2, <1>4, <1>5 DEF Inv, Ordered

-----------------------------------------------------------------------------
(* The theorems                                                            *)

(* Every step keeps the invariant, and no command goes out of order.       *)
LEMMA StepInv ==
    ASSUME Inv, [Next]_vars
    PROVE  Inv' /\ (Ordered \/ UNCHANGED vars)
<1>1. CASE Next
  BY <1>1, RequestInv, TaskInv, SampleInv, ApplyInv, WorldInv, ReconcileInv,
     FallsSilentInv, RestartInv DEF Next
<1>2. CASE UNCHANGED vars
  <2>1. TypeOK'
    BY <1>2 DEF Inv, TypeOK, vars
  <2>2. \A n \in Nodes : NodeInv(n)'
    BY <1>2, Untouched DEF Inv, vars
  <2> QED
    BY <1>2, <2>1, <2>2 DEF Inv
<1> QED
  BY <1>1, <1>2

(* The invariant holds of every behaviour of the supervisor.               *)
THEOREM Invariance == Spec => []Inv
<1>1. Inv /\ [Next]_vars => Inv'
  BY StepInv
<1> QED
  BY InitInv, <1>1, PTL DEF Spec

(* OneCommand: the action lock, held by one task of a node at a time, keeps *)
(* a second power command from going out.                                  *)
THEOREM OneCommandAtATime == Spec => []OneCommand
<1>1. Inv => OneCommand
  <2> SUFFICES ASSUME Inv, NEW n \in Nodes
               PROVE  Cardinality({e \in Epochs : At(n, e, Commanding)}) <= 1
    BY DEF OneCommand
  <2> DEFINE S == {e \in Epochs : At(n, e, Commanding)}
  <2>1. \A e, f \in S : e = f
    <3>1. S \subseteq Epochs /\ \A e \in S : At(n, e, Holding)
      BY DEF At, Commanding, Holding
    <3>2. Turns(n)
      BY DEF Inv, NodeInv
    <3> QED
      BY <3>1, <3>2 DEF Turns
  <2>2. S = {} \/ \E e \in S : S = {e}
    BY <2>1
  <2> HIDE DEF S
  <2>3. Cardinality(S) <= 1
    <3>1. CASE S = {}
      BY <3>1, FS_EmptySet
    <3>2. ASSUME NEW e, S = {e} PROVE Cardinality(S) <= 1
      <4>1. Cardinality({e}) = 1
        BY FS_Singleton
      <4> QED
        BY <3>2, <4>1
    <3> QED
      BY <2>2, <3>1, <3>2
  <2> QED
    BY <2>3 DEF S
<1> QED
  BY <1>1, Invariance, PTL

(* ViewIsCurrent: a request under way shows, and a machine that a confirmed *)
(* start keeps running is never shown as off.                              *)
THEOREM ViewsAreCurrent == Spec => []ViewIsCurrent
<1>1. Inv => ViewIsCurrent
  BY DEF Inv, NodeInv, Stands, Admitted, ViewIsCurrent, RequestStands, PowerIsAdmitted
<1> QED
  BY <1>1, Invariance, PTL

(* CommandsInOrder: the commands of a hub run reach the cloud in the order  *)
(* of the requests they serve.                                             *)
THEOREM CommandsGoInOrder == Spec => CommandsInOrder
<1>1. Inv /\ [Next]_vars =>
          [\A n \in Nodes : sent'[n] < sent[n] => budget'.restarts < budget.restarts]_vars
  BY StepInv DEF Ordered
<1> QED
  BY <1>1, Invariance, PTL DEF Spec, CommandsInOrder

=============================================================================

------------------------- MODULE AgentLifecycleProofs -------------------------
(***************************************************************************)
(* Proofs about AgentLifecycle, for any set of sessions and all bounds.    *)
(***************************************************************************)
EXTENDS AgentLifecycle, TLAPS

-----------------------------------------------------------------------------
(* The inductive invariant                                                 *)

\* A launch that has its record: what the record says at each step, and that
\* neither the engine nor the history knows its generation too early.
Launching ==
    \A o \in op : o.kind = "launch" =>
        /\ o.rejected => o.pc = "revoke"
        /\ o.pc # "inventory" => \E r \in row[o.s] :
            /\ r.pending /\ ~r.rejected
            /\ o.pc \in {"spawn", "stop", "message"} => r.attempted
            /\ o.pc = "spawn" => r.gen \in token[o.s]
            /\ o.pc \in {"prepare", "spawn"} \/ o.rejected =>
                   r.gen \notin live[o.s] \cup late[o.s]
            /\ o.pc # "message" => /\ acked[o.s] < r.gen
                                   /\ acked[o.s] \notin live[o.s]

\* What a reconciliation revoked is gone and stays gone while it has the lock;
\* answered launches that live were in its inventory.
Reconciling ==
    \A o \in op : o.kind = "reconcile" =>
        /\ \A s \in o.revoked : token[s] = {} /\ o.pc # "inventory"
        /\ (o.owed \cup o.revoked) \cap o.active = {}
        /\ o.pc # "inventory" =>
               \A s \in Sessions : acked[s] \in live[s] => s \in o.active

\* Every process, and every command still under way, is of a launch on record
\* or of an earlier one; that of the record was attempted and not refused.
Ran ==
    \A s \in Sessions :
        /\ acked[s] \notin late[s]
        /\ acked[s] = 0 \/ \E r \in row[s] : acked[s] <= r.gen
        /\ \A g \in live[s] \cup late[s] : \E r \in row[s] :
               g <= r.gen /\ (g = r.gen => r.attempted /\ ~r.rejected)

Inv == CredentialIsRecorded /\ AnsweredIsKept /\ Launching /\ Reconciling /\ Ran

-----------------------------------------------------------------------------
(* Options and operations                                                  *)

(* The empty option and the option of one element.                         *)
LEMMA OptionIntro ==
    ASSUME NEW S
    PROVE  {} \in Option(S) /\ \A x \in S : {x} \in Option(S)
  BY DEF Option

(* An option has no element but one of its set, and no second one.         *)
LEMMA OptionElim ==
    ASSUME NEW S, NEW X \in Option(S), NEW x \in X
    PROVE  x \in S /\ X = {x}
  BY DEF Option

(* The operation that holds the lock is the only one.                      *)
LEMMA Held ==
    ASSUME TypeOK, NEW o \in op
    PROVE  o \in Operations /\ op = {o}
<1>1. op \in Option(Operations)
  BY DEF TypeOK
<1> QED
  BY <1>1, OptionElim

(* A record of a session is the only one and has the session's generation. *)
LEMMA Recorded ==
    ASSUME TypeOK, NEW s \in Sessions, NEW r \in row[s]
    PROVE  /\ r \in Records /\ row[s] = {r}
           /\ Gen(s) = r.gen /\ Gen(s) \in Generations
<1>1. row[s] \in Option(Records)
  BY DEF TypeOK
<1>2. r \in Records /\ row[s] = {r}
  BY <1>1, OptionElim
<1>3. (CHOOSE x \in row[s] : TRUE) = r
  BY <1>2
<1> QED
  BY <1>2, <1>3 DEF Gen, Records

(* A generation is a natural number within the bound.                      *)
LEMMA GenType ==
    ASSUME TypeOK, NEW s \in Sessions
    PROVE  Gen(s) \in 0..MaxLaunches
<1>1. CASE row[s] = {}
  BY <1>1, BoundsAssumption DEF Gen
<1>2. CASE row[s] # {}
  <2>1. PICK r \in row[s] : TRUE
    BY <1>2
  <2> QED
    BY <2>1, Recorded, BoundsAssumption DEF Generations
<1> QED
  BY <1>1, <1>2

(* The operations, by kind.                                                *)
LEMMA Kinds ==
    ASSUME NEW o \in Operations
    PROVE  /\ o.kind = "launch" =>
               o \in [kind : {"launch"}, s : Sessions, rejected : BOOLEAN,
                      stopped : BOOLEAN, pc : {"inventory", "prepare", "spawn",
                                               "message", "stop", "revoke"}]
           /\ o.kind = "close" =>
               o \in [kind : {"close"}, s : Sessions, pc : {"get", "signal", "tokens"}]
           /\ o.kind = "reconcile" =>
               o \in [kind : {"reconcile"}, pc : {"inventory", "revoke", "sweep"},
                      active : SUBSET Sessions, owed : SUBSET Sessions,
                      revoked : SUBSET Sessions]
  BY DEF Operations

(* Taking, moving and releasing the lock keeps it well typed.              *)
LEMMA LockType ==
    ASSUME TypeOK
    PROVE  /\ \A o \in Operations : Takes(o) => op' = {o} /\ op' \in Option(Operations)
           /\ \A o \in op, next \in Operations :
                  Moves(o, next) => op' = {next} /\ op' \in Option(Operations)
           /\ \A o \in op : Releases(o) => op' = {} /\ op' \in Option(Operations)
<1>1. ASSUME NEW o \in Operations, Takes(o)
      PROVE  op' = {o} /\ op' \in Option(Operations)
  BY <1>1, OptionIntro DEF Takes, Free
<1>2. ASSUME NEW o \in op, NEW next \in Operations, Moves(o, next)
      PROVE  op' = {next} /\ op' \in Option(Operations)
  BY <1>2, Held, OptionIntro DEF Moves
<1>3. ASSUME NEW o \in op, Releases(o)
      PROVE  op' = {} /\ op' \in Option(Operations)
  BY <1>3, Held, OptionIntro DEF Releases
<1> QED
  BY <1>1, <1>2, <1>3

(* A failure uses up a bound or none.                                      *)
LEMMA BudgetType ==
    ASSUME TypeOK, Fault \/ Fails
    PROVE  budget' \in [faults : 0..MaxFaults, exits : 0..MaxExits,
                        restarts : 0..MaxRestarts]
  BY BoundsAssumption DEF TypeOK, Fault, Fails

(* The changes of a record keep the journal well typed.                    *)
LEMMA RowType ==
    ASSUME TypeOK, NEW s \in Sessions
    PROVE  /\ {Attempted(r) : r \in row[s]} \in Option(Records)
           /\ {Acknowledged(r) : r \in row[s]} \in Option(Records)
           /\ {Settled(r) : r \in row[s]} \in Option(Records)
           /\ \A A \in SUBSET Sessions : {Reconciled(s, A, r) : r \in row[s]} \in Option(Records)
           /\ \A o \in Operations, b \in BOOLEAN : o.kind = "launch" =>
                  {Cleaned(o, b, r) : r \in row[s]} \in Option(Records)
<1>1. CASE row[s] = {}
  BY <1>1, OptionIntro
<1>2. CASE row[s] # {}
  <2>1. PICK r \in row[s] : TRUE
    BY <1>2
  <2>2. r \in Records /\ row[s] = {r}
    BY <2>1, Recorded
  <2>3. Attempted(r) \in Records /\ Acknowledged(r) \in Records /\ Settled(r) \in Records
    BY <2>2 DEF Records, Phases, Attempted, Acknowledged, Settled
  <2>4. \A A \in SUBSET Sessions : Reconciled(s, A, r) \in Records
    BY <2>2 DEF Records, Phases, Reconciled
  <2>5. ASSUME NEW o \in Operations, NEW b \in BOOLEAN, o.kind = "launch"
        PROVE  Cleaned(o, b, r) \in Records
    <3>1. o.rejected \in BOOLEAN /\ o.stopped \in BOOLEAN
      BY <2>5, Kinds
    <3> QED
      BY <2>2, <3>1 DEF Records, Phases, Cleaned
  <2> QED
    BY <2>2, <2>3, <2>4, <2>5, OptionIntro
<1> QED
  BY <1>1, <1>2

(* A signal marks processes of its session as dying.                       *)
LEMMA SignalType ==
    ASSUME TypeOK, NEW s \in Sessions, NEW ok \in BOOLEAN, Signal(s, ok)
    PROVE  /\ dying' \in [Sessions -> SUBSET Generations]
           /\ budget' \in [faults : 0..MaxFaults, exits : 0..MaxExits,
                           restarts : 0..MaxRestarts]
<1>1. dying' \in [Sessions -> SUBSET Generations]
  BY DEF TypeOK, Signal
<1>2. CASE UNCHANGED budget
  BY <1>1, <1>2 DEF TypeOK
<1>3. CASE Fault
  BY <1>1, <1>3, BudgetType
<1> QED
  BY <1>1, <1>2, <1>3 DEF Signal

-----------------------------------------------------------------------------
(* Type correctness                                                        *)

LaunchStep(o) ==
    \/ Admit(o) \/ Prepare(o) \/ Spawned(o) \/ Rejected(o) \/ SpawnLost(o)
    \/ Message(o) \/ StopEngine(o) \/ CleanUp(o)

(* The steps of a launch keep the state well typed.                        *)
LEMMA LaunchType ==
    ASSUME TypeOK, Launching, NEW o \in op, LaunchStep(o)
    PROVE  TypeOK'
<1> DEFINE Budgets == [faults : 0..MaxFaults, exits : 0..MaxExits,
                       restarts : 0..MaxRestarts]
           LaunchOps == [kind : {"launch"}, s : Sessions, rejected : BOOLEAN,
                         stopped : BOOLEAN, pc : {"inventory", "prepare", "spawn",
                                                  "message", "stop", "revoke"}]
<1>1. o.kind = "launch"
  BY DEF LaunchStep, Admit, Prepare, Spawned, Rejected, SpawnLost, Message, StopEngine,
         CleanUp, At
<1>2. o \in LaunchOps
  BY <1>1, Held, Kinds
<1>3. /\ \A x \in {"inventory", "prepare", "spawn", "message", "stop", "revoke"} :
            [o EXCEPT !.pc = x] \in Operations
      /\ [o EXCEPT !.pc = "revoke", !.rejected = TRUE] \in Operations
      /\ \A b \in BOOLEAN : [o EXCEPT !.pc = "revoke", !.stopped = b] \in Operations
  <2>1. LaunchOps \subseteq Operations
    BY DEF Operations
  <2>2. ASSUME NEW x \in {"inventory", "prepare", "spawn", "message", "stop", "revoke"}
        PROVE  [o EXCEPT !.pc = x] \in LaunchOps
    BY <1>2
  <2>3. ASSUME NEW b \in BOOLEAN
        PROVE  [o EXCEPT !.pc = "revoke", !.stopped = b] \in LaunchOps
    BY <1>2
  <2>4. [o EXCEPT !.pc = "revoke", !.rejected = TRUE] \in LaunchOps
    BY <1>2
  <2> HIDE DEF LaunchOps
  <2> QED
    BY <2>1, <2>2, <2>3, <2>4, Zenon
<1>4. o.s \in Sessions /\ o.rejected \in BOOLEAN /\ o.stopped \in BOOLEAN
  BY <1>2
<1> HIDE DEF LaunchOps
<1>5. op' \in Option(Operations)
  BY <1>3, <1>4, LockType DEF LaunchStep, Admit, Prepare, Spawned, Rejected, SpawnLost, Message,
     StopEngine, CleanUp
<1>6. budget' \in Budgets
  <2>1. CASE UNCHANGED budget
    BY <2>1 DEF TypeOK
  <2>2. CASE Fault \/ Fails
    BY <2>2, BudgetType
  <2>3. ASSUME NEW ok \in BOOLEAN, Signal(o.s, ok) PROVE budget' \in Budgets
    BY <2>3, <1>4, SignalType
  <2> QED
    BY <2>1, <2>2, <2>3 DEF LaunchStep, Admit, Prepare, Spawned, Rejected, SpawnLost, Message,
       StopEngine, CleanUp
<1>7. Gen(o.s) \in 0..MaxLaunches
  BY <1>4, GenType
<1>8. dying' \in [Sessions -> SUBSET Generations]
  <2>1. CASE UNCHANGED dying
    BY <2>1 DEF TypeOK
  <2>2. ASSUME NEW ok \in BOOLEAN, Signal(o.s, ok)
        PROVE  dying' \in [Sessions -> SUBSET Generations]
    BY <2>2, <1>4, SignalType
  <2> QED
    BY <2>1, <2>2 DEF LaunchStep, Admit, Prepare, Spawned, Rejected, SpawnLost, Message,
       StopEngine, CleanUp, engine
<1>9. o.pc # "inventory" => Gen(o.s) \in Generations
  BY <1>1, <1>4, Recorded DEF Launching
<1>10. /\ live' \in [Sessions -> SUBSET Generations]
       /\ late' \in [Sessions -> SUBSET Generations]
  <2>1. CASE UNCHANGED <<live, late>>
    BY <2>1 DEF TypeOK
  <2>2. CASE Spawned(o) \/ SpawnLost(o)
    <3>1. Gen(o.s) \in Generations
      BY <2>2, <1>9 DEF Spawned, SpawnLost, At
    <3> QED
      BY <2>2, <3>1 DEF Spawned, SpawnLost, Lives, TypeOK
  <2> QED
    BY <2>1, <2>2 DEF LaunchStep, Admit, Prepare, Rejected, Message, StopEngine,
       CleanUp, engine
<1>11. token' \in [Sessions -> Option(Generations)]
  <2>1. ASSUME NEW g \in Generations PROVE {g} \in Option(Generations)
    BY OptionIntro
  <2>2. CASE UNCHANGED token
    BY <2>2 DEF TypeOK
  <2>3. CASE Prepare(o) /\ Mint(o.s)
    <3>1. Gen(o.s) \in Generations
      BY <2>3, <1>9 DEF Prepare, At
    <3> QED
      BY <2>3, <3>1, <2>1 DEF Mint, TypeOK
  <2>4. CASE Revokes(o.s)
    <3>1. token[o.s] \ {Gen(o.s)} \in Option(Generations)
      BY <1>4 DEF TypeOK, Option
    <3> QED
      BY <2>4, <3>1 DEF Revokes, TypeOK
  <2> QED
    BY <2>2, <2>3, <2>4 DEF LaunchStep, Admit, Prepare, Spawned, Rejected, SpawnLost,
       Message, StopEngine, CleanUp
<1>12. row' \in [Sessions -> Option(Records)]
  <2>1. row \in [Sessions -> Option(Records)]
    BY DEF TypeOK
  <2>2. CASE UNCHANGED row
    BY <2>2, <2>1
  <2>3. CASE Insert(o.s)
    <3> DEFINE r == [gen |-> Gen(o.s) + 1, phase |-> "Preparing", pending |-> TRUE,
                     receipt |-> FALSE, attempted |-> FALSE, rejected |-> FALSE]
    <3>1. Gen(o.s) + 1 \in Generations
      BY <2>3, <1>7, BoundsAssumption DEF Insert, Generations
    <3>2. r \in Records
      BY <3>1 DEF Records, Phases
    <3>3. {r} \in Option(Records)
      BY <3>2, OptionIntro
    <3> QED
      BY <2>3, <3>3, <2>1 DEF Insert, Writes
  <2>4. CASE \/ Writes(o.s, {Attempted(r) : r \in row[o.s]})
             \/ Writes(o.s, {Acknowledged(r) : r \in row[o.s]})
    BY <2>4, <2>1, <1>4, RowType DEF Writes
  <2>5. ASSUME NEW b \in BOOLEAN, Closes(o, b)
        PROVE  row' \in [Sessions -> Option(Records)]
    <3>1. row' = [row EXCEPT ![o.s] = {Cleaned(o, b, r) : r \in row[o.s]}]
      BY <2>5 DEF Closes, Writes
    <3>2. {Cleaned(o, b, r) : r \in row[o.s]} \in Option(Records)
      BY <1>1, <1>4, Held, RowType
    <3> QED
      BY <2>1, <3>1, <3>2
  <2>6. CASE CleanUp(o)
    <3>1. UNCHANGED row \/ Closes(o, TRUE) \/ Closes(o, FALSE)
      BY <2>6 DEF CleanUp
    <3> QED
      BY <3>1, <2>2, <2>5
  <2> QED
    BY <2>2, <2>3, <2>4, <2>6 DEF LaunchStep, Admit, Prepare, Spawned, Rejected,
       SpawnLost, Message, StopEngine
<1>13. acked' \in [Sessions -> 0..MaxLaunches]
  BY <1>4, <1>7 DEF LaunchStep, Admit, Prepare, Spawned, Rejected, SpawnLost,
     Message, StopEngine, CleanUp, TypeOK
<1>14. closing' \in BOOLEAN
  BY DEF LaunchStep, Admit, Prepare, Spawned, Rejected, SpawnLost, Message,
     StopEngine, CleanUp, TypeOK
<1> QED
  BY <1>5, <1>6, <1>8, <1>10, <1>11, <1>12, <1>13, <1>14 DEF TypeOK

ReconcileStep(o) == Inventory(o) \/ RevokeOwed(o) \/ Settle(o) \/ Sweep(o)

(* What a reconciliation or a closing removes leaves a well-typed store.   *)
LEMMA StoreType ==
    ASSUME TypeOK
    PROVE  /\ \A s \in Sessions : Revokes(s) => token' \in [Sessions -> Option(Generations)]
           /\ \A active : token' = Swept(active) => token' \in [Sessions -> Option(Generations)]
<1>1. ASSUME NEW s \in Sessions, Revokes(s)
      PROVE  token' \in [Sessions -> Option(Generations)]
  <2>1. token[s] \ {Gen(s)} \in Option(Generations)
    BY DEF TypeOK, Option
  <2> QED
    BY <1>1, <2>1 DEF Revokes, TypeOK
<1>2. ASSUME NEW active, token' = Swept(active)
      PROVE  token' \in [Sessions -> Option(Generations)]
  BY <1>2, OptionIntro DEF Swept, TypeOK
<1> QED
  BY <1>1, <1>2

(* The steps of a reconciliation keep the state well typed.                *)
LEMMA ReconcileType ==
    ASSUME TypeOK, NEW o \in op, ReconcileStep(o)
    PROVE  TypeOK'
<1> DEFINE Budgets == [faults : 0..MaxFaults, exits : 0..MaxExits,
                       restarts : 0..MaxRestarts]
           ReconcileOps == [kind : {"reconcile"}, pc : {"inventory", "revoke", "sweep"},
                            active : SUBSET Sessions, owed : SUBSET Sessions,
                            revoked : SUBSET Sessions]
           Found == {s \in Sessions : Active(s)}
<1>1. o \in ReconcileOps
  <2>1. o.kind = "reconcile"
    BY DEF ReconcileStep, Inventory, RevokeOwed, Settle, Sweep, At
  <2> QED
    BY <2>1, Held, Kinds
<1>2. ReconcileOps \subseteq Operations
  BY DEF Operations
<1>3. op' \in Option(Operations)
  <2>1. ASSUME NEW next \in ReconcileOps, Moves(o, next) PROVE op' \in Option(Operations)
    <3>1. next \in Operations
      BY <1>2
    <3> QED
      BY <2>1, <3>1, LockType
  <2>2. CASE Releases(o)
    BY <2>2, LockType
  <2>3. CASE Moves(o, [o EXCEPT !.pc = "revoke", !.active = Found, !.owed = Owed(Found)])
    <3>1. Owed(Found) \subseteq Sessions /\ Found \subseteq Sessions
      BY DEF Owed
    <3>2. ASSUME NEW A \in SUBSET Sessions, NEW B \in SUBSET Sessions
          PROVE  [o EXCEPT !.pc = "revoke", !.active = A, !.owed = B] \in ReconcileOps
      BY <1>1
    <3>3. [o EXCEPT !.pc = "revoke", !.active = Found, !.owed = Owed(Found)] \in ReconcileOps
      <4> HIDE DEF Found, ReconcileOps
      <4> QED
        BY <3>1, <3>2
    <3> HIDE DEF ReconcileOps
    <3> QED
      BY <2>3, <3>3, <2>1
  <2>4. ASSUME NEW s \in Sessions,
               \/ Moves(o, [o EXCEPT !.owed = @ \ {s}, !.revoked = @ \cup {s}])
               \/ Moves(o, [o EXCEPT !.owed = @ \ {s}])
        PROVE  op' \in Option(Operations)
    <3>1. /\ [o EXCEPT !.owed = @ \ {s}, !.revoked = @ \cup {s}] \in ReconcileOps
          /\ [o EXCEPT !.owed = @ \ {s}] \in ReconcileOps
      BY <1>1
    <3> HIDE DEF ReconcileOps
    <3> QED
      BY <2>4, <3>1, <2>1
  <2>5. CASE Moves(o, [o EXCEPT !.pc = "sweep"])
    <3>1. [o EXCEPT !.pc = "sweep"] \in ReconcileOps
      BY <1>1
    <3> HIDE DEF ReconcileOps
    <3> QED
      BY <2>5, <3>1, <2>1
  <2> QED
    BY <2>2, <2>3, <2>4, <2>5 DEF ReconcileStep, Inventory, RevokeOwed, Settle, Sweep
<1>4. budget' \in Budgets
  <2>1. CASE UNCHANGED budget
    BY <2>1 DEF TypeOK
  <2>2. CASE Fault \/ Fails
    BY <2>2, BudgetType
  <2> QED
    BY <2>1, <2>2 DEF ReconcileStep, Inventory, RevokeOwed, Settle, Sweep
<1>5. token' \in [Sessions -> Option(Generations)]
  <2>1. CASE UNCHANGED token
    BY <2>1 DEF TypeOK
  <2> QED
    BY <2>1, StoreType DEF ReconcileStep, Inventory, RevokeOwed, Settle, Sweep
<1>6. row' \in [Sessions -> Option(Records)]
  <2>1. CASE UNCHANGED row
    BY <2>1 DEF TypeOK
  <2>2. CASE row' = [s \in Sessions |-> {Reconciled(s, Found, r) : r \in row[s]}]
    <3> Found \in SUBSET Sessions
      OBVIOUS
    <3> HIDE DEF Found
    <3>1. ASSUME NEW s \in Sessions
          PROVE  {Reconciled(s, Found, r) : r \in row[s]} \in Option(Records)
      BY RowType
    <3> QED
      BY <2>2, <3>1
  <2>3. CASE row' = [s \in Sessions |->
                       IF s \in o.revoked THEN {Settled(r) : r \in row[s]} ELSE row[s]]
    <3>1. ASSUME NEW s \in Sessions
          PROVE  {Settled(r) : r \in row[s]} \in Option(Records) /\ row[s] \in Option(Records)
      BY RowType DEF TypeOK
    <3> QED
      BY <2>3, <3>1
  <2> QED
    BY <2>1, <2>2, <2>3 DEF ReconcileStep, Inventory, RevokeOwed, Settle, Sweep
<1>7. /\ live' \in [Sessions -> SUBSET Generations]
      /\ dying' \in [Sessions -> SUBSET Generations]
      /\ late' \in [Sessions -> SUBSET Generations]
      /\ closing' \in BOOLEAN /\ acked' \in [Sessions -> 0..MaxLaunches]
  BY DEF ReconcileStep, Inventory, RevokeOwed, Settle, Sweep, engine, TypeOK
<1> QED
  BY <1>3, <1>4, <1>5, <1>6, <1>7 DEF TypeOK

CloseStep(o) == CloseGet(o) \/ CloseSignal(o) \/ CloseTokens(o)

(* The steps of close_agent keep the state well typed.                     *)
LEMMA CloseType ==
    ASSUME TypeOK, NEW o \in op, CloseStep(o)
    PROVE  TypeOK'
<1> DEFINE Budgets == [faults : 0..MaxFaults, exits : 0..MaxExits,
                       restarts : 0..MaxRestarts]
           CloseOps == [kind : {"close"}, s : Sessions, pc : {"get", "signal", "tokens"}]
<1>1. o \in CloseOps
  <2>1. o.kind = "close"
    BY DEF CloseStep, CloseGet, CloseSignal, CloseTokens, At
  <2> QED
    BY <2>1, Held, Kinds
<1>2. op' \in Option(Operations)
  <2>1. CloseOps \subseteq Operations
    BY DEF Operations
  <2>2. [o EXCEPT !.pc = "signal"] \in CloseOps /\ [o EXCEPT !.pc = "tokens"] \in CloseOps
    BY <1>1
  <2> HIDE DEF CloseOps
  <2> QED
    BY <2>1, <2>2, LockType DEF CloseStep, CloseGet, CloseSignal, CloseTokens
<1>3. o.s \in Sessions
  BY <1>1
<1>4. budget' \in Budgets
  <2>1. CASE UNCHANGED budget
    BY <2>1 DEF TypeOK
  <2>2. CASE Fault
    BY <2>2, BudgetType
  <2>3. ASSUME NEW ok \in BOOLEAN, Signal(o.s, ok) PROVE budget' \in Budgets
    BY <2>3, <1>3, SignalType
  <2> QED
    BY <2>1, <2>2, <2>3 DEF CloseStep, CloseGet, CloseSignal, CloseTokens
<1>5. dying' \in [Sessions -> SUBSET Generations]
  <2>1. CASE UNCHANGED dying
    BY <2>1 DEF TypeOK
  <2> QED
    BY <2>1, <1>3, SignalType DEF CloseStep, CloseGet, CloseSignal, CloseTokens, engine
<1>6. token' \in [Sessions -> Option(Generations)]
  <2>1. CASE UNCHANGED token
    BY <2>1 DEF TypeOK
  <2> QED
    BY <2>1, <1>3, StoreType DEF CloseStep, CloseGet, CloseSignal, CloseTokens
<1>7. /\ live' \in [Sessions -> SUBSET Generations]
      /\ late' \in [Sessions -> SUBSET Generations]
      /\ row' \in [Sessions -> Option(Records)] /\ closing' \in BOOLEAN
  BY DEF CloseStep, CloseGet, CloseSignal, CloseTokens, engine, TypeOK
<1>8. acked' \in [Sessions -> 0..MaxLaunches]
  BY BoundsAssumption DEF CloseStep, CloseGet, CloseSignal, CloseTokens, TypeOK
<1> QED
  BY <1>2, <1>4, <1>5, <1>6, <1>7, <1>8 DEF TypeOK

(* Every step keeps the state well typed.                                  *)
LEMMA NextType ==
    ASSUME TypeOK, Launching, [Next]_vars
    PROVE  TypeOK'
<1>1. ASSUME NEW o \in op, Step(o) PROVE TypeOK'
  BY <1>1, LaunchType, ReconcileType, CloseType
     DEF Step, LaunchStep, ReconcileStep, CloseStep
<1>2. ASSUME NEW s \in Sessions, Launch(s) \/ Close(s) PROVE TypeOK'
  <2>1. op' \in Option(Operations)
    <3>1. /\ [kind |-> "launch", s |-> s, pc |-> "inventory",
              rejected |-> FALSE, stopped |-> TRUE] \in Operations
          /\ [kind |-> "close", s |-> s, pc |-> "get"] \in Operations
      BY DEF Operations
    <3> QED
      BY <1>2, <3>1, LockType DEF Launch, Close
  <2> QED
    BY <1>2, <2>1 DEF Launch, Close, TypeOK, engine
<1>3. CASE Reconcile
  <2>1. op' \in Option(Operations)
    <3>1. [kind |-> "reconcile", pc |-> "inventory",
           active |-> {}, owed |-> {}, revoked |-> {}] \in Operations
      BY DEF Operations
    <3> QED
      BY <1>3, <3>1, LockType DEF Reconcile
  <2> QED
    BY <1>3, <2>1 DEF Reconcile, TypeOK, engine
<1>4. ASSUME NEW s \in Sessions, NEW g \in Generations,
             Lands(s, g) \/ Ends(s, g) \/ Exits(s, g)
      PROVE  TypeOK'
  <2>1. live' \in [Sessions -> SUBSET Generations]
    BY <1>4 DEF Lands, Ends, Exits, Dies, TypeOK
  <2>2. dying' \in [Sessions -> SUBSET Generations] /\ late' \in [Sessions -> SUBSET Generations]
    BY <1>4 DEF Lands, Ends, Exits, Dies, TypeOK
  <2>3. budget' \in [faults : 0..MaxFaults, exits : 0..MaxExits, restarts : 0..MaxRestarts]
    BY <1>4, BoundsAssumption DEF Lands, Ends, Exits, Dies, TypeOK
  <2> QED
    BY <1>4, <2>1, <2>2, <2>3 DEF Lands, Ends, Exits, Dies, TypeOK
<1>5. CASE RequestClose
  BY <1>5 DEF RequestClose, TypeOK, engine
<1>6. CASE Restart
  <2>1. {} \in Option(Operations)
    BY OptionIntro
  <2>2. budget' \in [faults : 0..MaxFaults, exits : 0..MaxExits, restarts : 0..MaxRestarts]
    BY <1>6, BoundsAssumption DEF Restart, TypeOK
  <2>3. acked' \in [Sessions -> 0..MaxLaunches]
    BY <1>6, BoundsAssumption DEF Restart
  <2> QED
    BY <1>6, <2>1, <2>2, <2>3 DEF Restart, TypeOK
<1>7. CASE UNCHANGED vars
  BY <1>7 DEF vars, TypeOK
<1> QED
  BY <1>1, <1>2, <1>3, <1>4, <1>5, <1>6, <1>7 DEF Next, Steps

-----------------------------------------------------------------------------
(* The invariant                                                           *)

(* The functions of the state, and what the launch under way has on record.*)
LEMMA StateFacts ==
    ASSUME TypeOK
    PROVE  /\ live \in [Sessions -> SUBSET Generations]
           /\ late \in [Sessions -> SUBSET Generations]
           /\ row \in [Sessions -> Option(Records)]
           /\ token \in [Sessions -> Option(Generations)]
           /\ acked \in [Sessions -> Nat]
           /\ Generations \subseteq Nat /\ 0 \notin Generations
  BY BoundsAssumption DEF TypeOK, Generations

(* The record that a launch under way has.                                 *)
LEMMA LaunchRecord ==
    ASSUME TypeOK, Launching, NEW o \in op, o.kind = "launch", o.pc # "inventory"
    PROVE  \E r \in row[o.s] :
              /\ r \in Records /\ row[o.s] = {r} /\ Gen(o.s) = r.gen
              /\ r.pending /\ ~r.rejected
              /\ o.pc \in {"spawn", "stop", "message"} => r.attempted
              /\ o.pc = "spawn" => r.gen \in token[o.s]
              /\ o.pc \in {"prepare", "spawn"} \/ o.rejected =>
                     r.gen \notin live[o.s] \cup late[o.s]
              /\ o.pc # "message" => /\ acked[o.s] < r.gen
                                     /\ acked[o.s] \notin live[o.s]
<1>1. o.s \in Sessions
  BY Held, Kinds
<1> QED
  BY <1>1, Recorded DEF Launching

(* A step that admits a launch.                                            *)
LEMMA AdmitInv ==
    ASSUME TypeOK, Inv, NEW o \in op, Admit(o)
    PROVE  Inv'
<1> DEFINE s == o.s
           new == [gen |-> Gen(s) + 1, phase |-> "Preparing", pending |-> TRUE,
                   receipt |-> FALSE, attempted |-> FALSE, rejected |-> FALSE]
<1>1. o.kind = "launch" /\ s \in Sessions /\ op = {o}
      /\ UNCHANGED <<live, late, token, acked>>
  BY Held, Kinds DEF Admit, At, engine
<1>a. ~o.rejected
  BY <1>1 DEF Admit, At, Inv, Launching
<1>2. CASE Releases(o) /\ UNCHANGED row
  <2>1. op' = {}
    BY <1>2, LockType
  <2> QED
    BY <1>1, <1>2, <2>1 DEF Inv, CredentialIsRecorded, AnsweredIsKept, Launching,
       Reconciling, Ran
<1>3. CASE /\ ~Active(s) /\ ~Occupied(s)
           /\ Insert(s) /\ Moves(o, [o EXCEPT !.pc = "prepare"])
  <2> DEFINE n == [o EXCEPT !.pc = "prepare"]
  <2>1. op' = {n} /\ n.kind = "launch" /\ n.pc = "prepare" /\ n.s = s
        /\ n.rejected = o.rejected
    <3>1. o \in [kind : {"launch"}, s : Sessions, rejected : BOOLEAN, stopped : BOOLEAN,
                 pc : {"inventory", "prepare", "spawn", "message", "stop", "revoke"}]
      BY <1>1, Held, Kinds
    <3> QED
      BY <1>1, <1>3, <3>1 DEF Moves
  <2>2. row' = [row EXCEPT ![s] = {new}] /\ row'[s] = {new}
    BY <1>1, <1>3, StateFacts DEF Insert, Writes
  <2>3. live[s] = {} /\ token[s] = {}
    BY <1>1, <1>3 DEF Active, Occupied, Inv, CredentialIsRecorded
  <2>4. Gen(s) \in Nat /\ (\A r \in row[s] : r.gen = Gen(s)) /\ (row[s] = {} => Gen(s) = 0)
    BY <1>1, GenType, Recorded, BoundsAssumption DEF Gen
  <2>5. /\ \A g \in late[s] : g \in Nat /\ g <= Gen(s)
        /\ acked[s] \in Nat /\ acked[s] <= Gen(s)
    BY <1>1, <2>4, StateFacts DEF Inv, Ran
  <2>6. new.gen = Gen(s) + 1 /\ new.pending /\ ~new.rejected
    OBVIOUS
  <2> HIDE DEF new, n
  <2>7. CredentialIsRecorded'
    BY <1>1, <2>2, <2>3, StateFacts DEF Inv, CredentialIsRecorded
  <2>8. AnsweredIsKept'
    BY <1>1, <2>2, <2>3, StateFacts DEF Inv, AnsweredIsKept
  <2>9. Launching'
    BY <1>1, <1>a, <2>1, <2>2, <2>3, <2>4, <2>5, <2>6 DEF Launching
  <2>10. Reconciling'
    BY <2>1 DEF Reconciling
  <2>11. Ran'
    BY <1>1, <2>2, <2>3, <2>4, <2>5, <2>6, StateFacts DEF Inv, Ran
  <2> QED
    BY <2>7, <2>8, <2>9, <2>10, <2>11 DEF Inv
<1> QED
  BY <1>2, <1>3 DEF Admit

(* What a step of a launch that keeps the lock leaves: its next form.      *)
LEMMA LaunchMoves ==
    ASSUME TypeOK, NEW o \in op, o.kind = "launch",
           NEW n, n.kind = "launch", n.s = o.s, n.pc # "inventory",
           op' = {n}, n.rejected => n.pc = "revoke",
           \E r \in row'[o.s] :
               /\ r.pending /\ ~r.rejected
               /\ n.pc \in {"spawn", "stop", "message"} => r.attempted
               /\ n.pc = "spawn" => r.gen \in token'[o.s]
               /\ n.pc \in {"prepare", "spawn"} \/ n.rejected =>
                      r.gen \notin live'[o.s] \cup late'[o.s]
               /\ n.pc # "message" => /\ acked'[o.s] < r.gen
                                      /\ acked'[o.s] \notin live'[o.s]
    PROVE  Launching' /\ Reconciling'
  BY DEF Launching, Reconciling

(* The fields of the next form of a launch.                                *)
LEMMA LaunchNext ==
    ASSUME TypeOK, NEW o \in op, o.kind = "launch"
    PROVE  /\ \A x \in {"prepare", "spawn", "message", "stop", "revoke"} :
                LET n == [o EXCEPT !.pc = x]
                IN  n.kind = "launch" /\ n.s = o.s /\ n.pc = x /\ n.rejected = o.rejected
           /\ LET n == [o EXCEPT !.pc = "revoke", !.rejected = TRUE]
              IN  n.kind = "launch" /\ n.s = o.s /\ n.pc = "revoke" /\ n.rejected
           /\ \A b \in BOOLEAN :
                LET n == [o EXCEPT !.pc = "revoke", !.stopped = b]
                IN  n.kind = "launch" /\ n.s = o.s /\ n.pc = "revoke"
                    /\ n.rejected = o.rejected
<1>1. o \in [kind : {"launch"}, s : Sessions, rejected : BOOLEAN, stopped : BOOLEAN,
             pc : {"inventory", "prepare", "spawn", "message", "stop", "revoke"}]
  BY Held, Kinds
<1> QED
  BY <1>1

(* The attempt is recorded and the credential minted, or neither.          *)
LEMMA PrepareInv ==
    ASSUME TypeOK, Inv, NEW o \in op, Prepare(o)
    PROVE  Inv'
<1> DEFINE s == o.s
<1>1. o.kind = "launch" /\ o.pc = "prepare" /\ s \in Sessions /\ op = {o}
      /\ UNCHANGED <<live, late, acked>>
  BY Held, Kinds DEF Prepare, At, engine
<1>2. PICK r \in row[s] :
        /\ r \in Records /\ row[s] = {r} /\ Gen(s) = r.gen
        /\ r.pending /\ ~r.rejected
        /\ r.gen \notin live[s] \cup late[s]
        /\ acked[s] < r.gen /\ acked[s] \notin live[s]
  BY <1>1, LaunchRecord DEF Inv
<1>3. token' = token \/ token' = [token EXCEPT ![s] = {r.gen}]
  BY <1>1, <1>2 DEF Prepare, Mint
<1>4. \E q \in row'[s] :
        /\ row' = [row EXCEPT ![s] = {q}] /\ q.gen = r.gen /\ q.pending /\ ~q.rejected
        /\ (r.attempted => q.attempted) /\ q.phase = r.phase /\ q.receipt = r.receipt
        /\ \/ /\ op' = {[o EXCEPT !.pc = "spawn"]} /\ q.attempted
              /\ token' = [token EXCEPT ![s] = {r.gen}]
           \/ op' = {[o EXCEPT !.pc = "revoke"]}
  <2>1. CASE /\ Writes(s, {Attempted(x) : x \in row[s]})
             /\ Moves(o, [o EXCEPT !.pc = "spawn"]) /\ Mint(s)
    <3>1. row' = [row EXCEPT ![s] = {Attempted(r)}] /\ Attempted(r) \in row'[s]
      BY <1>1, <1>2, <2>1, StateFacts DEF Writes
    <3>2. /\ Attempted(r).gen = r.gen /\ Attempted(r).pending /\ ~Attempted(r).rejected
          /\ Attempted(r).attempted /\ Attempted(r).phase = r.phase
          /\ Attempted(r).receipt = r.receipt
      BY <1>2 DEF Attempted, Records
    <3>3. op' = {[o EXCEPT !.pc = "spawn"]}
      BY <1>1, <2>1 DEF Moves
    <3>4. token' = [token EXCEPT ![s] = {r.gen}]
      BY <1>2, <2>1 DEF Mint
    <3> QED
      BY <3>1, <3>2, <3>3, <3>4
  <2>2. CASE UNCHANGED row /\ Moves(o, [o EXCEPT !.pc = "revoke"])
    <3>1. row' = [row EXCEPT ![s] = {r}] /\ r \in row'[s]
      BY <1>1, <1>2, <2>2, StateFacts
    <3>2. op' = {[o EXCEPT !.pc = "revoke"]}
      BY <1>1, <2>2 DEF Moves
    <3> QED
      BY <1>2, <3>1, <3>2
  <2> QED
    BY <2>1, <2>2 DEF Prepare
<1>5. PICK q \in row'[s] :
        /\ row' = [row EXCEPT ![s] = {q}] /\ q.gen = r.gen /\ q.pending /\ ~q.rejected
        /\ (r.attempted => q.attempted) /\ q.phase = r.phase /\ q.receipt = r.receipt
        /\ \/ /\ op' = {[o EXCEPT !.pc = "spawn"]} /\ q.attempted
              /\ token' = [token EXCEPT ![s] = {r.gen}]
           \/ op' = {[o EXCEPT !.pc = "revoke"]}
  BY <1>4
<1>6. \A t \in Sessions : row'[t] = IF t = s THEN {q} ELSE row[t]
  BY <1>1, <1>5, StateFacts
<1>7. CredentialIsRecorded'
  BY <1>1, <1>2, <1>3, <1>5, <1>6, StateFacts DEF Inv, CredentialIsRecorded
<1>8. AnsweredIsKept'
  BY <1>1, <1>2, <1>3, <1>5, <1>6, StateFacts DEF Inv, AnsweredIsKept
<1>a. ~o.rejected
  BY <1>1 DEF Inv, Launching
<1>9. Launching' /\ Reconciling'
  <2> DEFINE a == [o EXCEPT !.pc = "spawn"]
             b == [o EXCEPT !.pc = "revoke"]
  <2>1. /\ a.kind = "launch" /\ a.s = s /\ a.pc = "spawn" /\ a.rejected = o.rejected
        /\ b.kind = "launch" /\ b.s = s /\ b.pc = "revoke" /\ b.rejected = o.rejected
    BY <1>1, LaunchNext
  <2>2. /\ q.gen \notin live'[s] \cup late'[s]
        /\ acked'[s] < q.gen /\ acked'[s] \notin live'[s]
    BY <1>1, <1>2, <1>5
  <2>3. (op' = {a} /\ q.attempted /\ q.gen \in token'[s]) \/ op' = {b}
    BY <1>1, <1>5, StateFacts
  <2> HIDE DEF a, b
  <2> QED
    BY <1>1, <1>a, <1>5, <2>1, <2>2, <2>3, LaunchMoves
<1>10. Ran'
  BY <1>1, <1>2, <1>5, <1>6, StateFacts DEF Inv, Ran
<1> QED
  BY <1>7, <1>8, <1>9, <1>10 DEF Inv

(* A spawn starts the process of the record, whether its receipt is        *)
(* written or not.                                                         *)
LEMMA SpawnedInv ==
    ASSUME TypeOK, Inv, NEW o \in op, Spawned(o)
    PROVE  Inv'
<1> DEFINE s == o.s
           a == [o EXCEPT !.pc = "message"]
           b == [o EXCEPT !.pc = "stop"]
<1>1. o.kind = "launch" /\ o.pc = "spawn" /\ s \in Sessions /\ op = {o}
      /\ UNCHANGED <<late, token>>
  BY Held, Kinds DEF Spawned, At
<1>2. PICK r \in row[s] :
        /\ r \in Records /\ row[s] = {r} /\ Gen(s) = r.gen
        /\ r.pending /\ ~r.rejected /\ r.attempted /\ r.gen \in token[s]
        /\ r.gen \notin live[s] \cup late[s]
        /\ acked[s] < r.gen /\ acked[s] \notin live[s]
  BY <1>1, LaunchRecord DEF Inv
<1>3. live' = [live EXCEPT ![s] = live[s] \cup {r.gen}]
  BY <1>2 DEF Spawned, Lives
<1>4. \E q \in row'[s] :
        /\ row' = [row EXCEPT ![s] = {q}] /\ q.gen = r.gen /\ q.pending /\ ~q.rejected
        /\ q.attempted
        /\ \/ /\ op' = {a} /\ acked' = [acked EXCEPT ![s] = r.gen]
              /\ q.phase = "Running" /\ q.receipt
           \/ op' = {b} /\ acked' = acked
  <2>1. CASE /\ Writes(s, {Acknowledged(x) : x \in row[s]}) /\ Moves(o, a)
             /\ acked' = [acked EXCEPT ![s] = Gen(s)]
    <3>1. row' = [row EXCEPT ![s] = {Acknowledged(r)}] /\ Acknowledged(r) \in row'[s]
      BY <1>1, <1>2, <2>1, StateFacts DEF Writes
    <3>2. /\ Acknowledged(r).gen = r.gen /\ Acknowledged(r).pending
          /\ ~Acknowledged(r).rejected /\ Acknowledged(r).attempted
          /\ Acknowledged(r).phase = "Running" /\ Acknowledged(r).receipt
      BY <1>2 DEF Acknowledged, Records
    <3>3. op' = {a}
      BY <1>1, <2>1 DEF Moves
    <3> QED
      BY <1>2, <2>1, <3>1, <3>2, <3>3
  <2>2. CASE UNCHANGED <<row, acked>> /\ Moves(o, b)
    <3>1. row' = [row EXCEPT ![s] = {r}] /\ r \in row'[s]
      BY <1>1, <1>2, <2>2, StateFacts
    <3>2. op' = {b}
      BY <1>1, <2>2 DEF Moves
    <3> QED
      BY <1>2, <2>2, <3>1, <3>2
  <2> QED
    BY <2>1, <2>2 DEF Spawned
<1>5. PICK q \in row'[s] :
        /\ row' = [row EXCEPT ![s] = {q}] /\ q.gen = r.gen /\ q.pending /\ ~q.rejected
        /\ q.attempted
        /\ \/ /\ op' = {a} /\ acked' = [acked EXCEPT ![s] = r.gen]
              /\ q.phase = "Running" /\ q.receipt
           \/ op' = {b} /\ acked' = acked
  BY <1>4
<1>6. /\ a.kind = "launch" /\ a.s = s /\ a.pc = "message" /\ a.rejected = o.rejected
      /\ b.kind = "launch" /\ b.s = s /\ b.pc = "stop" /\ b.rejected = o.rejected
      /\ ~o.rejected
  BY <1>1, LaunchNext DEF Inv, Launching
<1> HIDE DEF a, b
<1>7. /\ \A t \in Sessions : row'[t] = IF t = s THEN {q} ELSE row[t]
      /\ \A t \in Sessions : live'[t] = IF t = s THEN live[s] \cup {r.gen} ELSE live[t]
      /\ \A t \in Sessions : t # s => acked'[t] = acked[t]
      /\ r.gen \in Nat
  BY <1>1, <1>2, <1>3, <1>5, StateFacts DEF Records
<1>8. (acked'[s] = r.gen /\ q.phase = "Running" /\ q.receipt) \/ acked'[s] = acked[s]
  BY <1>1, <1>5, StateFacts
<1>9. CredentialIsRecorded'
  BY <1>1, <1>2, <1>5, <1>7, StateFacts DEF Inv, CredentialIsRecorded
<1>10. AnsweredIsKept'
  BY <1>1, <1>2, <1>5, <1>7, <1>8, StateFacts DEF Inv, AnsweredIsKept
<1>11. Launching' /\ Reconciling'
  <2>1. CASE op' = {a}
    BY <1>1, <1>5, <1>6, <2>1, LaunchMoves
  <2>2. CASE op' = {b} /\ acked' = acked
    <3>1. acked'[s] < q.gen /\ acked'[s] \notin live'[s]
      BY <1>1, <1>2, <1>5, <1>7, <2>2, StateFacts
    <3> QED
      BY <1>1, <1>5, <1>6, <2>2, <3>1, LaunchMoves
  <2> QED
    BY <1>5, <2>1, <2>2
<1>12. Ran'
  <2>1. ASSUME NEW t \in Sessions, t # s
        PROVE  /\ acked'[t] \notin late'[t]
               /\ acked'[t] = 0 \/ \E x \in row'[t] : acked'[t] <= x.gen
               /\ \A g \in live'[t] \cup late'[t] : \E x \in row'[t] :
                      g <= x.gen /\ (g = x.gen => x.attempted /\ ~x.rejected)
    BY <1>1, <1>7, <2>1 DEF Inv, Ran
  <2>2. /\ acked'[s] \notin late'[s] /\ acked'[s] <= q.gen
        /\ \A g \in live'[s] \cup late'[s] : g <= q.gen
    BY <1>1, <1>2, <1>5, <1>7, <1>8, StateFacts DEF Inv, Ran
  <2> QED
    BY <1>5, <2>1, <2>2 DEF Ran
<1> QED
  BY <1>9, <1>10, <1>11, <1>12 DEF Inv

(* A launch that was refused, or whose answer is lost, is cleaned up.      *)
LEMMA LostInv ==
    ASSUME TypeOK, Inv, NEW o \in op, Rejected(o) \/ SpawnLost(o)
    PROVE  Inv'
<1> DEFINE s == o.s
           a == [o EXCEPT !.pc = "revoke", !.rejected = TRUE]
           b == [o EXCEPT !.pc = "stop"]
<1>1. o.kind = "launch" /\ o.pc = "spawn" /\ s \in Sessions /\ op = {o}
      /\ UNCHANGED <<row, token, acked>>
  BY Held, Kinds DEF Rejected, SpawnLost, At
<1>2. PICK r \in row[s] :
        /\ r \in Records /\ row[s] = {r} /\ Gen(s) = r.gen
        /\ r.pending /\ ~r.rejected /\ r.attempted
        /\ r.gen \notin live[s] \cup late[s]
        /\ acked[s] < r.gen /\ acked[s] \notin live[s]
  BY <1>1, LaunchRecord DEF Inv
<1>3. \/ op' = {a} /\ UNCHANGED <<live, late>>
      \/ /\ op' = {b}
         /\ live' = live \/ live' = [live EXCEPT ![s] = live[s] \cup {r.gen}]
         /\ late' = late \/ late' = [late EXCEPT ![s] = late[s] \cup {r.gen}]
  BY <1>1, <1>2 DEF Rejected, SpawnLost, Moves, Lives, engine
<1>4. /\ a.kind = "launch" /\ a.s = s /\ a.pc = "revoke" /\ a.rejected
      /\ b.kind = "launch" /\ b.s = s /\ b.pc = "stop" /\ b.rejected = o.rejected
      /\ ~o.rejected
  BY <1>1, LaunchNext DEF Inv, Launching
<1> HIDE DEF a, b
<1>5. /\ \A t \in Sessions : t # s => live'[t] = live[t] /\ late'[t] = late[t]
      /\ live[s] \subseteq live'[s] /\ live'[s] \subseteq live[s] \cup {r.gen}
      /\ late[s] \subseteq late'[s] /\ late'[s] \subseteq late[s] \cup {r.gen}
      /\ r.gen \in Nat
  BY <1>1, <1>2, <1>3, StateFacts DEF Records
<1>6. CredentialIsRecorded'
  BY <1>1 DEF Inv, CredentialIsRecorded
<1>7. acked'[s] \notin live'[s] /\ acked'[s] \notin late'[s] /\ acked'[s] < r.gen
  BY <1>1, <1>2, <1>5, StateFacts DEF Inv, Ran
<1>8. AnsweredIsKept'
  BY <1>1, <1>5, <1>7 DEF Inv, AnsweredIsKept
<1>9. Launching' /\ Reconciling'
  BY <1>1, <1>2, <1>3, <1>4, <1>7, LaunchMoves
<1>10. Ran'
  <2>1. ASSUME NEW t \in Sessions, t # s
        PROVE  /\ acked'[t] \notin late'[t]
               /\ acked'[t] = 0 \/ \E x \in row'[t] : acked'[t] <= x.gen
               /\ \A g \in live'[t] \cup late'[t] : \E x \in row'[t] :
                      g <= x.gen /\ (g = x.gen => x.attempted /\ ~x.rejected)
    BY <1>1, <1>5, <2>1 DEF Inv, Ran
  <2>2. \A g \in live'[s] \cup late'[s] : g <= r.gen
    BY <1>1, <1>2, <1>5, StateFacts DEF Inv, Ran
  <2>3. /\ r \in row'[s] /\ r.attempted /\ ~r.rejected
        /\ acked'[s] \notin late'[s] /\ acked'[s] <= r.gen
    BY <1>1, <1>2, <1>5, <1>7, StateFacts
  <2> QED
    BY <2>1, <2>2, <2>3 DEF Ran
<1> QED
  BY <1>6, <1>8, <1>9, <1>10 DEF Inv

(* The steps of a launch that change neither record nor credential.        *)
LEMMA QuietInv ==
    ASSUME TypeOK, Inv, NEW o \in op, Message(o) \/ StopEngine(o)
    PROVE  Inv'
<1> DEFINE s == o.s
<1>1. o.kind = "launch" /\ s \in Sessions /\ op = {o}
      /\ UNCHANGED <<live, late, row, token, acked>>
  BY Held, Kinds DEF Message, StopEngine, At, engine
<1>2. CredentialIsRecorded' /\ AnsweredIsKept' /\ Ran'
  BY <1>1 DEF Inv, CredentialIsRecorded, AnsweredIsKept, Ran
<1>3. Launching' /\ Reconciling'
  <2>1. CASE Message(o)
    <3>1. op' = {}
      BY <1>1, <2>1 DEF Message, Releases
    <3> QED
      BY <3>1 DEF Launching, Reconciling
  <2>2. CASE StopEngine(o)
    <3>1. PICK ok \in BOOLEAN : Moves(o, [o EXCEPT !.pc = "revoke", !.stopped = ok])
      BY <2>2 DEF StopEngine
    <3> DEFINE n == [o EXCEPT !.pc = "revoke", !.stopped = ok]
    <3>2. op' = {n}
      BY <1>1, <3>1 DEF Moves
    <3>3. n.kind = "launch" /\ n.s = s /\ n.pc = "revoke" /\ n.rejected = o.rejected
      BY <1>1, LaunchNext
    <3>4. o.pc = "stop" /\ ~o.rejected
      BY <1>1, <2>2 DEF StopEngine, At, Inv, Launching
    <3> HIDE DEF n
    <3>5. PICK r \in row[s] :
            /\ r.pending /\ ~r.rejected /\ acked[s] < r.gen /\ acked[s] \notin live[s]
      BY <1>1, <3>4, LaunchRecord DEF Inv
    <3> QED
      BY <1>1, <3>2, <3>3, <3>4, <3>5, LaunchMoves
  <2> QED
    BY <2>1, <2>2
<1> QED
  BY <1>2, <1>3 DEF Inv

(* A cleanup revokes before it closes the record.                          *)
LEMMA CleanUpInv ==
    ASSUME TypeOK, Inv, NEW o \in op, CleanUp(o)
    PROVE  Inv'
<1> DEFINE s == o.s
<1>1. o.kind = "launch" /\ o.pc = "revoke" /\ s \in Sessions /\ op = {o} /\ op' = {}
      /\ UNCHANGED <<live, late, acked>>
  BY Held, Kinds, LockType DEF CleanUp, At, engine
<1>2. PICK r \in row[s] :
        /\ r \in Records /\ row[s] = {r} /\ Gen(s) = r.gen
        /\ r.pending /\ ~r.rejected
        /\ o.rejected => r.gen \notin live[s] \cup late[s]
        /\ acked[s] < r.gen /\ acked[s] \notin live[s]
  BY <1>1, LaunchRecord DEF Inv
<1>3. token[s] \subseteq {r.gen}
  BY <1>1, <1>2 DEF Inv, CredentialIsRecorded
<1>4. /\ \A t \in Sessions : t # s => token'[t] = token[t]
      /\ token'[s] \subseteq token[s]
      /\ Revokes(s) => token'[s] = {}
  <2>1. token \in [Sessions -> Option(Generations)]
    BY StateFacts
  <2>2. CASE Revokes(s)
    <3>1. token' = [token EXCEPT ![s] = token[s] \ {r.gen}]
      BY <1>2, <2>2 DEF Revokes
    <3> QED
      BY <1>1, <1>3, <2>1, <3>1
  <2>3. CASE UNCHANGED token /\ ~Revokes(s)
    BY <2>3
  <2>4. Revokes(s) \/ UNCHANGED token
    BY DEF CleanUp
  <2> QED
    BY <2>2, <2>3, <2>4
<1>5. \E q \in row'[s] :
        /\ row' = [row EXCEPT ![s] = {q}] /\ q.gen = r.gen
        /\ q.attempted = r.attempted /\ (q.rejected => o.rejected)
        /\ q.pending \/ Revokes(s)
  <2>1. ASSUME NEW b \in BOOLEAN, Closes(o, b), b => Revokes(s)
        PROVE  \E q \in row'[s] :
                 /\ row' = [row EXCEPT ![s] = {q}] /\ q.gen = r.gen
                 /\ q.attempted = r.attempted /\ (q.rejected => o.rejected)
                 /\ q.pending \/ Revokes(s)
    <3> DEFINE q == Cleaned(o, b, r)
    <3>1. row' = [row EXCEPT ![s] = {q}] /\ q \in row'[s]
      BY <1>1, <1>2, <2>1, StateFacts DEF Closes, Writes
    <3>2. /\ q.gen = r.gen /\ q.attempted = r.attempted /\ q.pending = ~b
          /\ q.rejected = o.rejected
      BY <1>2 DEF Cleaned, Records
    <3> QED
      BY <2>1, <3>1, <3>2
  <2>2. CASE UNCHANGED row
    <3>1. row' = [row EXCEPT ![s] = {r}] /\ r \in row'[s]
      BY <1>1, <1>2, <2>2, StateFacts
    <3> QED
      BY <1>2, <3>1
  <2> QED
    BY <2>1, <2>2 DEF CleanUp
<1>6. PICK q \in row'[s] :
        /\ row' = [row EXCEPT ![s] = {q}] /\ q.gen = r.gen
        /\ q.attempted = r.attempted /\ (q.rejected => o.rejected)
        /\ q.pending \/ Revokes(s)
  BY <1>5
<1>7. \A t \in Sessions : row'[t] = IF t = s THEN {q} ELSE row[t]
  BY <1>1, <1>6, StateFacts
<1>8. CredentialIsRecorded'
  BY <1>1, <1>3, <1>4, <1>6, <1>7 DEF Inv, CredentialIsRecorded
<1>9. AnsweredIsKept'
  BY <1>1, <1>2, <1>4, <1>7 DEF Inv, AnsweredIsKept
<1>10. Launching' /\ Reconciling'
  BY <1>1 DEF Launching, Reconciling
<1>11. Ran'
  BY <1>1, <1>2, <1>6, <1>7, StateFacts DEF Inv, Ran
<1> QED
  BY <1>8, <1>9, <1>10, <1>11 DEF Inv

(* The fields of the next form of a reconciliation.                        *)
LEMMA ReconcileNext ==
    ASSUME TypeOK, NEW o \in op, o.kind = "reconcile"
    PROVE  /\ \A A \in SUBSET Sessions, B \in SUBSET Sessions :
                LET n == [o EXCEPT !.pc = "revoke", !.active = A, !.owed = B]
                IN  /\ n.kind = "reconcile" /\ n.pc = "revoke" /\ n.active = A
                    /\ n.owed = B /\ n.revoked = o.revoked
           /\ \A s \in Sessions :
                LET n == [o EXCEPT !.owed = @ \ {s}, !.revoked = @ \cup {s}]
                IN  /\ n.kind = "reconcile" /\ n.pc = o.pc /\ n.active = o.active
                    /\ n.owed = o.owed \ {s} /\ n.revoked = o.revoked \cup {s}
           /\ \A s \in Sessions :
                LET n == [o EXCEPT !.owed = @ \ {s}]
                IN  /\ n.kind = "reconcile" /\ n.pc = o.pc /\ n.active = o.active
                    /\ n.owed = o.owed \ {s} /\ n.revoked = o.revoked
           /\ LET n == [o EXCEPT !.pc = "sweep"]
              IN  /\ n.kind = "reconcile" /\ n.pc = "sweep" /\ n.active = o.active
                  /\ n.owed = o.owed /\ n.revoked = o.revoked
<1>1. o \in [kind : {"reconcile"}, pc : {"inventory", "revoke", "sweep"},
             active : SUBSET Sessions, owed : SUBSET Sessions, revoked : SUBSET Sessions]
  BY Held, Kinds
<1> QED
  BY <1>1

(* A reconciliation that keeps the lock: its next form.                    *)
LEMMA ReconcileMoves ==
    ASSUME NEW n, n.kind = "reconcile", op' = {n},
           \A s \in n.revoked : token'[s] = {} /\ n.pc # "inventory",
           (n.owed \cup n.revoked) \cap n.active = {},
           \A s \in Sessions : acked'[s] \in live'[s] => s \in n.active
    PROVE  Launching' /\ Reconciling'
  BY DEF Launching, Reconciling

(* What reconciling the journal with an inventory does to a record.        *)
LEMMA ReconciledRecord ==
    ASSUME TypeOK, NEW s \in Sessions, NEW A \in SUBSET Sessions, NEW r \in row[s]
    PROVE  LET q == Reconciled(s, A, r)
           IN  /\ {Reconciled(s, A, x) : x \in row[s]} = {q}
               /\ q.gen = r.gen /\ q.pending = r.pending /\ q.receipt = r.receipt
               /\ q.attempted = r.attempted /\ q.rejected = r.rejected
               /\ s \in A /\ r.phase = "Running" => q.phase = "Running"
<1>1. r \in Records /\ row[s] = {r}
  BY Recorded
<1> QED
  BY <1>1 DEF Reconciled, Records, Phases

(* Reconciling changes phases only.                                        *)
LEMMA InventoryInv ==
    ASSUME TypeOK, Inv, NEW o \in op, Inventory(o)
    PROVE  Inv'
<1> DEFINE A == {s \in Sessions : Active(s)}
           n == [o EXCEPT !.pc = "revoke", !.active = A, !.owed = Owed(A)]
<1>1. o.kind = "reconcile" /\ o.pc = "inventory" /\ op = {o}
      /\ UNCHANGED <<live, late, token, acked>>
  BY Held DEF Inventory, At, engine
<1>2. CASE Releases(o) /\ UNCHANGED row
  <2>1. op' = {}
    BY <1>2, LockType
  <2> QED
    BY <1>1, <1>2, <2>1 DEF Inv, CredentialIsRecorded, AnsweredIsKept, Launching,
       Reconciling, Ran
<1>3. CASE /\ row' = [s \in Sessions |-> {Reconciled(s, A, r) : r \in row[s]}]
           /\ Moves(o, n)
  <2>1. op' = {n}
    BY <1>1, <1>3 DEF Moves
  <2>2. A \in SUBSET Sessions /\ Owed(A) \in SUBSET Sessions /\ Owed(A) \cap A = {}
    BY DEF Owed
  <2>3. \A s \in Sessions : acked[s] \in live[s] => s \in A
    BY DEF Active
  <2>4. o.revoked = {}
    BY <1>1 DEF Inv, Reconciling
  <2>5. /\ n.kind = "reconcile" /\ n.pc = "revoke" /\ n.active = A
        /\ n.owed = Owed(A) /\ n.revoked = o.revoked
    BY <1>1, <2>2, ReconcileNext
  <2> HIDE DEF A, n
  <2>6. ASSUME NEW s \in Sessions, NEW r \in row[s]
        PROVE  \E q \in row'[s] :
                 /\ q.gen = r.gen /\ q.pending = r.pending /\ q.receipt = r.receipt
                 /\ q.attempted = r.attempted /\ q.rejected = r.rejected
                 /\ s \in A /\ r.phase = "Running" => q.phase = "Running"
    <3>1. row'[s] = {Reconciled(s, A, x) : x \in row[s]}
      BY <1>3
    <3>2. row'[s] = {Reconciled(s, A, r)}
      BY <2>2, <3>1, ReconciledRecord
    <3> QED
      BY <2>2, <3>2, ReconciledRecord
  <2>7. CredentialIsRecorded'
    <3>1. ASSUME NEW s \in Sessions, NEW g \in token[s]
          PROVE  \E q \in row'[s] : q.gen = g /\ q.pending
      <4>1. PICK r \in row[s] : r.gen = g /\ r.pending
        BY DEF Inv, CredentialIsRecorded
      <4> QED
        BY <4>1, <2>6
    <3> QED
      BY <1>1, <3>1 DEF CredentialIsRecorded
  <2>8. AnsweredIsKept'
    <3>1. ASSUME NEW s \in Sessions, acked[s] \in live[s]
          PROVE  /\ acked[s] \in token[s]
                 /\ \E q \in row'[s] : q.gen = acked[s] /\ q.phase = "Running" /\ q.receipt
      <4>1. acked[s] \in token[s]
        BY <3>1 DEF Inv, AnsweredIsKept
      <4>2. PICK r \in row[s] : r.gen = acked[s] /\ r.phase = "Running" /\ r.receipt
        BY <3>1 DEF Inv, AnsweredIsKept
      <4> QED
        BY <2>3, <2>6, <3>1, <4>1, <4>2
    <3> QED
      BY <1>1, <3>1 DEF AnsweredIsKept
  <2>9. Launching' /\ Reconciling'
    BY <1>1, <2>1, <2>2, <2>3, <2>4, <2>5, ReconcileMoves
  <2>10. Ran'
    <3>1. ASSUME NEW s \in Sessions
          PROVE  acked[s] = 0 \/ \E q \in row'[s] : acked[s] <= q.gen
      <4>1. CASE acked[s] # 0
        <5>1. PICK r \in row[s] : acked[s] <= r.gen
          BY <4>1 DEF Inv, Ran
        <5> QED
          BY <2>6, <5>1
      <4> QED
        BY <4>1
    <3>2. ASSUME NEW s \in Sessions, NEW g \in live[s] \cup late[s]
          PROVE  \E q \in row'[s] :
                    g <= q.gen /\ (g = q.gen => q.attempted /\ ~q.rejected)
      <4>1. PICK r \in row[s] : g <= r.gen /\ (g = r.gen => r.attempted /\ ~r.rejected)
        BY DEF Inv, Ran
      <4> QED
        BY <2>6, <4>1
    <3>3. \A s \in Sessions : acked[s] \notin late[s]
      BY DEF Inv, Ran
    <3> QED
      BY <1>1, <3>1, <3>2, <3>3 DEF Ran
  <2> QED
    BY <2>7, <2>8, <2>9, <2>10 DEF Inv
<1> QED
  BY <1>2, <1>3 DEF Inventory

(* Only the credential of a session that is not active is revoked.         *)
LEMMA RevokeOwedInv ==
    ASSUME TypeOK, Inv, NEW o \in op, RevokeOwed(o)
    PROVE  Inv'
<1>1. PICK s \in Sessions :
        /\ s \in o.owed
        /\ \/ /\ Revokes(s)
              /\ Moves(o, [o EXCEPT !.owed = @ \ {s}, !.revoked = @ \cup {s}])
           \/ Moves(o, [o EXCEPT !.owed = @ \ {s}]) /\ UNCHANGED token
  BY DEF RevokeOwed
<1>2. o.kind = "reconcile" /\ o.pc = "revoke" /\ op = {o}
      /\ UNCHANGED <<live, late, row, acked>>
  BY Held DEF RevokeOwed, At, engine
<1> DEFINE a == [o EXCEPT !.owed = @ \ {s}, !.revoked = @ \cup {s}]
           b == [o EXCEPT !.owed = @ \ {s}]
<1>3. /\ a.kind = "reconcile" /\ a.pc = o.pc /\ a.active = o.active
      /\ a.owed = o.owed \ {s} /\ a.revoked = o.revoked \cup {s}
      /\ b.kind = "reconcile" /\ b.pc = o.pc /\ b.active = o.active
      /\ b.owed = o.owed \ {s} /\ b.revoked = o.revoked
  BY <1>2, ReconcileNext
<1>4. (op' = {a} /\ Revokes(s)) \/ (op' = {b} /\ UNCHANGED token)
  BY <1>1, <1>2 DEF Moves
<1> HIDE DEF a, b
<1>5. /\ \A t \in o.revoked : token[t] = {}
      /\ (o.owed \cup o.revoked) \cap o.active = {}
      /\ \A t \in Sessions : acked[t] \in live[t] => t \in o.active
  BY <1>2 DEF Inv, Reconciling
<1>6. /\ Revokes(s) => token'[s] = {}
      /\ \A t \in Sessions : t # s => token'[t] = token[t]
      /\ token'[s] \subseteq token[s]
  <2>1. token[s] \subseteq {Gen(s)}
    BY Recorded DEF Inv, CredentialIsRecorded
  <2> QED
    BY <1>1, <2>1, StateFacts DEF Revokes
<1>7. o.revoked \subseteq Sessions
  BY <1>2, Held, Kinds
<1>8. CredentialIsRecorded'
  BY <1>2, <1>6 DEF Inv, CredentialIsRecorded
<1>9. AnsweredIsKept'
  BY <1>1, <1>2, <1>5, <1>6 DEF Inv, AnsweredIsKept
<1>10. Launching' /\ Reconciling'
  <2>1. CASE op' = {a} /\ Revokes(s)
    <3>1. \A t \in a.revoked : token'[t] = {} /\ a.pc # "inventory"
      BY <1>2, <1>3, <1>5, <1>6, <1>7, <2>1
    <3>2. (a.owed \cup a.revoked) \cap a.active = {}
      BY <1>1, <1>3, <1>5
    <3> QED
      BY <1>2, <1>3, <1>5, <2>1, <3>1, <3>2, ReconcileMoves
  <2>2. CASE op' = {b} /\ UNCHANGED token
    <3>1. \A t \in b.revoked : token'[t] = {} /\ b.pc # "inventory"
      BY <1>2, <1>3, <1>5, <2>2
    <3>2. (b.owed \cup b.revoked) \cap b.active = {}
      BY <1>3, <1>5
    <3> QED
      BY <1>2, <1>3, <1>5, <2>2, <3>1, <3>2, ReconcileMoves
  <2> QED
    BY <1>4, <2>1, <2>2
<1>11. Ran'
  BY <1>2 DEF Inv, Ran
<1> QED
  BY <1>8, <1>9, <1>10, <1>11 DEF Inv

(* A record is settled when its credential is gone.                        *)
LEMMA SettleInv ==
    ASSUME TypeOK, Inv, NEW o \in op, Settle(o)
    PROVE  Inv'
<1>1. o.kind = "reconcile" /\ o.pc = "revoke" /\ op = {o}
      /\ UNCHANGED <<live, late, token, acked>>
  BY Held DEF Settle, At, engine
<1>2. /\ \A t \in o.revoked : token[t] = {}
      /\ (o.owed \cup o.revoked) \cap o.active = {}
      /\ \A t \in Sessions : acked[t] \in live[t] => t \in o.active
  BY <1>1 DEF Inv, Reconciling
<1>3. CASE Releases(o) /\ UNCHANGED row
  <2>1. op' = {}
    BY <1>3, LockType
  <2> QED
    BY <1>1, <1>3, <2>1 DEF Inv, CredentialIsRecorded, AnsweredIsKept, Launching,
       Reconciling, Ran
<1>4. CASE /\ row' = [s \in Sessions |->
                        IF s \in o.revoked THEN {Settled(r) : r \in row[s]} ELSE row[s]]
           /\ Moves(o, [o EXCEPT !.pc = "sweep"])
  <2> DEFINE n == [o EXCEPT !.pc = "sweep"]
  <2>1. op' = {n}
    BY <1>1, <1>4 DEF Moves
  <2>2. /\ n.kind = "reconcile" /\ n.pc = "sweep" /\ n.active = o.active
        /\ n.owed = o.owed /\ n.revoked = o.revoked
    BY <1>1, ReconcileNext
  <2> HIDE DEF n
  <2>3. ASSUME NEW s \in Sessions, NEW r \in row[s]
        PROVE  \E q \in row'[s] :
                 /\ q.gen = r.gen /\ q.receipt = r.receipt /\ q.phase = r.phase
                 /\ q.attempted = r.attempted /\ q.rejected = r.rejected
                 /\ s \notin o.revoked => q.pending = r.pending
    <3>1. r \in Records /\ row[s] = {r}
      BY Recorded
    <3>2. CASE s \in o.revoked
      <4>1. Settled(r) \in row'[s]
        BY <1>4, <3>1, <3>2
      <4>2. /\ Settled(r).gen = r.gen /\ Settled(r).receipt = r.receipt
            /\ Settled(r).phase = r.phase
            /\ Settled(r).attempted = r.attempted /\ Settled(r).rejected = r.rejected
        BY <3>1 DEF Settled, Records
      <4> QED
        BY <3>2, <4>1, <4>2
    <3>3. CASE s \notin o.revoked
      <4>1. r \in row'[s]
        BY <1>4, <3>3
      <4> QED
        BY <4>1
    <3> QED
      BY <3>2, <3>3
  <2>4. CredentialIsRecorded'
    <3>1. ASSUME NEW s \in Sessions, NEW g \in token[s]
          PROVE  \E q \in row'[s] : q.gen = g /\ q.pending
      <4>1. PICK r \in row[s] : r.gen = g /\ r.pending
        BY DEF Inv, CredentialIsRecorded
      <4>2. s \notin o.revoked
        BY <1>2
      <4> QED
        BY <4>1, <4>2, <2>3
    <3> QED
      BY <1>1, <3>1 DEF CredentialIsRecorded
  <2>5. AnsweredIsKept'
    <3>1. ASSUME NEW s \in Sessions, acked[s] \in live[s]
          PROVE  /\ acked[s] \in token[s]
                 /\ \E q \in row'[s] : q.gen = acked[s] /\ q.phase = "Running" /\ q.receipt
      <4>1. acked[s] \in token[s]
        BY <3>1 DEF Inv, AnsweredIsKept
      <4>2. PICK r \in row[s] : r.gen = acked[s] /\ r.phase = "Running" /\ r.receipt
        BY <3>1 DEF Inv, AnsweredIsKept
      <4> QED
        BY <2>3, <4>1, <4>2
    <3> QED
      BY <1>1, <3>1 DEF AnsweredIsKept
  <2>6. Launching' /\ Reconciling'
    BY <1>1, <1>2, <2>1, <2>2, ReconcileMoves
  <2>7. Ran'
    <3>1. ASSUME NEW s \in Sessions
          PROVE  acked[s] = 0 \/ \E q \in row'[s] : acked[s] <= q.gen
      <4>1. CASE acked[s] # 0
        <5>1. PICK r \in row[s] : acked[s] <= r.gen
          BY <4>1 DEF Inv, Ran
        <5> QED
          BY <2>3, <5>1
      <4> QED
        BY <4>1
    <3>2. ASSUME NEW s \in Sessions, NEW g \in live[s] \cup late[s]
          PROVE  \E q \in row'[s] :
                    g <= q.gen /\ (g = q.gen => q.attempted /\ ~q.rejected)
      <4>1. PICK r \in row[s] : g <= r.gen /\ (g = r.gen => r.attempted /\ ~r.rejected)
        BY DEF Inv, Ran
      <4> QED
        BY <2>3, <4>1
    <3>3. \A s \in Sessions : acked[s] \notin late[s]
      BY DEF Inv, Ran
    <3> QED
      BY <1>1, <3>1, <3>2, <3>3 DEF Ran
  <2> QED
    BY <2>4, <2>5, <2>6, <2>7 DEF Inv
<1> QED
  BY <1>3, <1>4 DEF Settle

(* A sweep keeps the credentials of the sessions found active.             *)
LEMMA SweepInv ==
    ASSUME TypeOK, Inv, NEW o \in op, Sweep(o)
    PROVE  Inv'
<1>1. o.kind = "reconcile" /\ o.pc = "sweep" /\ op' = {}
      /\ UNCHANGED <<live, late, row, acked>>
  BY LockType DEF Sweep, At, engine
<1>2. /\ \A t \in Sessions : acked[t] \in live[t] => t \in o.active
      /\ \A t \in Sessions : token'[t] \subseteq token[t]
      /\ \A t \in Sessions : t \in o.active => token'[t] = token[t]
  BY <1>1 DEF Sweep, Swept, Inv, Reconciling
<1>3. CredentialIsRecorded'
  BY <1>1, <1>2 DEF Inv, CredentialIsRecorded
<1>4. AnsweredIsKept'
  BY <1>1, <1>2 DEF Inv, AnsweredIsKept
<1>5. Launching' /\ Reconciling' /\ Ran'
  BY <1>1 DEF Inv, Launching, Reconciling, Ran
<1> QED
  BY <1>3, <1>4, <1>5 DEF Inv

(* Closing a session takes its credential and what was promised for it.    *)
LEMMA CloseInv ==
    ASSUME TypeOK, Inv, NEW o \in op, CloseStep(o)
    PROVE  Inv'
<1>1. o.kind = "close" /\ o.s \in Sessions /\ op = {o}
      /\ UNCHANGED <<live, late, row>>
  BY Held, Kinds DEF CloseStep, CloseGet, CloseSignal, CloseTokens, At, engine
<1>2. Launching' /\ Reconciling'
  <2>1. CASE op' = {}
    BY <2>1 DEF Launching, Reconciling
  <2>2. ASSUME NEW x \in {"signal", "tokens"}, op' = {[o EXCEPT !.pc = x]}
        PROVE  Launching' /\ Reconciling'
    <3>1. [o EXCEPT !.pc = x].kind = "close"
      BY <1>1, Held, Kinds
    <3> QED
      BY <2>2, <3>1 DEF Launching, Reconciling
  <2> QED
    BY <1>1, <2>1, <2>2 DEF CloseStep, CloseGet, CloseSignal, CloseTokens, Moves, Releases
<1>3. /\ \A t \in Sessions : token'[t] \subseteq token[t]
      /\ \A t \in Sessions : \/ acked'[t] = acked[t] /\ token'[t] = token[t]
                             \/ acked'[t] = 0
  BY <1>1, StateFacts DEF CloseStep, CloseGet, CloseSignal, CloseTokens, Revokes
<1>4. \A t \in Sessions : 0 \notin live[t] \cup late[t]
  BY StateFacts
<1>5. CredentialIsRecorded'
  BY <1>1, <1>3 DEF Inv, CredentialIsRecorded
<1>6. AnsweredIsKept'
  BY <1>1, <1>3, <1>4 DEF Inv, AnsweredIsKept
<1>7. Ran'
  BY <1>1, <1>3, <1>4 DEF Inv, Ran
<1> QED
  BY <1>2, <1>5, <1>6, <1>7 DEF Inv

(* An operation that begins has done nothing yet.                          *)
LEMMA BeginInv ==
    ASSUME TypeOK, Inv,
           Reconcile \/ \E s \in Sessions : Launch(s) \/ Close(s)
    PROVE  Inv'
<1>1. UNCHANGED <<live, late, row, token, acked>>
  BY DEF Reconcile, Launch, Close, engine
<1>2. CredentialIsRecorded' /\ AnsweredIsKept' /\ Ran'
  BY <1>1 DEF Inv, CredentialIsRecorded, AnsweredIsKept, Ran
<1>3. Launching' /\ Reconciling'
  <2>1. ASSUME NEW s \in Sessions, Launch(s) PROVE Launching' /\ Reconciling'
    <3> DEFINE n == [kind |-> "launch", s |-> s, pc |-> "inventory",
                     rejected |-> FALSE, stopped |-> TRUE]
    <3>1. op' = {n}
      BY <2>1 DEF Launch, Takes, Free
    <3>2. n.kind = "launch" /\ n.pc = "inventory" /\ ~n.rejected
      OBVIOUS
    <3> HIDE DEF n
    <3> QED
      BY <3>1, <3>2 DEF Launching, Reconciling
  <2>2. ASSUME NEW s \in Sessions, Close(s) PROVE Launching' /\ Reconciling'
    <3> DEFINE n == [kind |-> "close", s |-> s, pc |-> "get"]
    <3>1. op' = {n}
      BY <2>2 DEF Close, Takes, Free
    <3>2. n.kind = "close"
      OBVIOUS
    <3> HIDE DEF n
    <3> QED
      BY <3>1, <3>2 DEF Launching, Reconciling
  <2>3. CASE Reconcile
    <3> DEFINE n == [kind |-> "reconcile", pc |-> "inventory",
                     active |-> {}, owed |-> {}, revoked |-> {}]
    <3>1. op' = {n}
      BY <2>3 DEF Reconcile, Takes, Free
    <3>2. n.kind = "reconcile" /\ n.pc = "inventory" /\ n.owed = {} /\ n.revoked = {}
      OBVIOUS
    <3> HIDE DEF n
    <3> QED
      BY <3>1, <3>2 DEF Launching, Reconciling
  <2> QED
    BY <2>1, <2>2, <2>3
<1> QED
  BY <1>2, <1>3 DEF Inv

(* The engine only carries out what was attempted, and processes end.      *)
LEMMA EngineInv ==
    ASSUME TypeOK, Inv, NEW s \in Sessions, NEW g \in Generations,
           Lands(s, g) \/ Ends(s, g) \/ Exits(s, g)
    PROVE  Inv'
<1>1. UNCHANGED <<row, token, op, acked>>
  BY DEF Lands, Ends, Exits, Dies
<1>2. \A t \in Sessions : /\ live'[t] \cup late'[t] \subseteq live[t] \cup late[t]
                          /\ late'[t] \subseteq late[t]
  BY StateFacts DEF Lands, Ends, Exits, Dies
<1>3. \A t \in Sessions : /\ acked[t] \notin late[t]
                          /\ acked'[t] \in live'[t] => acked[t] \in live[t]
  BY <1>1, <1>2 DEF Inv, Ran
<1>4. CredentialIsRecorded'
  BY <1>1 DEF Inv, CredentialIsRecorded
<1>5. AnsweredIsKept'
  BY <1>1, <1>3 DEF Inv, AnsweredIsKept
<1>6. Launching'
  <2>1. \A o \in op : o.kind = "launch" => o.s \in Sessions
    BY Held, Kinds
  <2> QED
    BY <1>1, <1>2, <1>3, <2>1 DEF Inv, Launching
<1>7. Reconciling'
  BY <1>1, <1>3 DEF Inv, Reconciling
<1>8. Ran'
  BY <1>1, <1>2 DEF Inv, Ran
<1> QED
  BY <1>4, <1>5, <1>6, <1>7, <1>8 DEF Inv

(* The invariant is inductive.                                             *)
LEMMA NextInv ==
    ASSUME TypeOK, Inv, [Next]_vars
    PROVE  Inv'
<1>1. ASSUME NEW o \in op, Step(o) PROVE Inv'
  BY <1>1, AdmitInv, PrepareInv, SpawnedInv, LostInv, QuietInv, CleanUpInv, InventoryInv,
     RevokeOwedInv, SettleInv, SweepInv, CloseInv DEF Step, CloseStep
<1>2. CASE Reconcile \/ \E s \in Sessions : Launch(s) \/ Close(s)
  BY <1>2, BeginInv
<1>3. ASSUME NEW s \in Sessions, NEW g \in Generations,
             Lands(s, g) \/ Ends(s, g) \/ Exits(s, g)
      PROVE  Inv'
  BY <1>3, EngineInv
<1>4. CASE RequestClose \/ UNCHANGED vars
  BY <1>4 DEF RequestClose, vars, engine, Inv, CredentialIsRecorded, AnsweredIsKept,
     Launching, Reconciling, Ran
<1>5. CASE Restart
  <2>1. \A t \in Sessions : live'[t] = {} /\ late'[t] = {} /\ acked'[t] = 0
    BY <1>5 DEF Restart
  <2> QED
    BY <1>5, <2>1 DEF Restart, Inv, CredentialIsRecorded, AnsweredIsKept, Launching,
       Reconciling, Ran
<1> QED
  BY <1>1, <1>2, <1>3, <1>4, <1>5 DEF Next, Steps

(* The initial state satisfies the invariant.                              *)
LEMMA InitInv ==
    ASSUME Init
    PROVE  TypeOK /\ Inv
<1>1. {} \in Option(Records) /\ {} \in Option(Generations) /\ {} \in Option(Operations)
  BY OptionIntro
<1>2. budget \in [faults : 0..MaxFaults, exits : 0..MaxExits, restarts : 0..MaxRestarts]
  BY BoundsAssumption DEF Init
<1>3. TypeOK
  <2>1. /\ live \in [Sessions -> SUBSET Generations]
        /\ dying \in [Sessions -> SUBSET Generations]
        /\ late \in [Sessions -> SUBSET Generations]
    BY DEF Init
  <2>2. row \in [Sessions -> Option(Records)] /\ token \in [Sessions -> Option(Generations)]
    BY <1>1 DEF Init
  <2>3. op \in Option(Operations) /\ closing \in BOOLEAN
    BY <1>1 DEF Init
  <2>4. acked \in [Sessions -> 0..MaxLaunches]
    BY BoundsAssumption DEF Init
  <2> QED
    BY <1>2, <2>1, <2>2, <2>3, <2>4 DEF TypeOK
<1>4. Inv
  BY DEF Init, Inv, CredentialIsRecorded, AnsweredIsKept, Launching, Reconciling, Ran
<1> QED
  BY <1>3, <1>4

(* A released reservation has no process: a consequence of the invariant.  *)
LEMMA ReleaseFacts ==
    ASSUME TypeOK, Inv
    PROVE  ReleaseIsSafe
<1>1. ASSUME NEW s \in Sessions, NEW r \in row[s], r.gen \in live[s] \cup late[s]
      PROVE  r.attempted /\ ~r.rejected
  <2>1. PICK q \in row[s] : r.gen <= q.gen /\ (r.gen = q.gen => q.attempted /\ ~q.rejected)
    BY <1>1 DEF Inv, Ran
  <2>2. q = r
    BY <2>1, Recorded
  <2> QED
    BY <2>1, <2>2
<1> QED
  BY <1>1 DEF ReleaseIsSafe

-----------------------------------------------------------------------------
(* Theorems                                                                *)

(* The invariant holds in every behaviour.                                 *)
THEOREM Invariance == Spec => [](TypeOK /\ Inv)
<1>1. Init => TypeOK /\ Inv
  BY InitInv
<1>2. TypeOK /\ Inv /\ [Next]_vars => TypeOK' /\ Inv'
  BY NextType, NextInv DEF Inv
<1> QED
  BY <1>1, <1>2, PTL DEF Spec

(* The state stays well typed; in particular one operation at most holds   *)
(* the operations lock.                                                    *)
THEOREM TypeCorrect == Spec => []TypeOK
  BY Invariance, PTL

(* No credential outlives the record that makes the hub revoke it.         *)
THEOREM CredentialsRecorded == Spec => []CredentialIsRecorded
<1>1. TypeOK /\ Inv => CredentialIsRecorded
  BY DEF Inv
<1> QED
  BY <1>1, Invariance, PTL

(* A launch answered as running keeps record and credential while it lives.*)
THEOREM AnsweredKept == Spec => []AnsweredIsKept
<1>1. TypeOK /\ Inv => AnsweredIsKept
  BY DEF Inv
<1> QED
  BY <1>1, Invariance, PTL

(* A launch whose reservation may be given away has no process, and no     *)
(* command of it is under way.                                             *)
THEOREM ReleaseSafe == Spec => []ReleaseIsSafe
<1>1. TypeOK /\ Inv => ReleaseIsSafe
  BY ReleaseFacts
<1> QED
  BY <1>1, Invariance, PTL
=============================================================================

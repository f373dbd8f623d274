---------------------------- MODULE AgentLifecycle ----------------------------
(***************************************************************************)
(* Launches of agent sessions and their credentials                        *)
(* (services/agent_lifecycle.rs, session_facade.rs, close_agent of          *)
(* sessions.rs): a journal of launches, a store of per-session credentials  *)
(* and an engine that runs in the hub's process, kept in step although     *)
(* answers are lost, writes are refused and the hub may stop anywhere.      *)
(*                                                                         *)
(* One operation at a time holds the operations lock; an await is a step    *)
(* boundary.  A journal write persists first and then commits, so a row     *)
(* stands for both the memory and the file.  The generations of a session   *)
(* are numbered in order.                                                  *)
(***************************************************************************)
EXTENDS Naturals

CONSTANTS
    Sessions,     \* session identities
    MaxLaunches,  \* bound: launches recorded per session
    MaxFaults,    \* bound: calls that fail and writes that are refused
    MaxExits,     \* bound: processes that exit by themselves
    MaxRestarts   \* bound: shutdowns and crashes of the hub

ASSUME BoundsAssumption ==
    /\ MaxLaunches \in Nat /\ MaxFaults \in Nat
    /\ MaxExits \in Nat /\ MaxRestarts \in Nat

Option(S) == {X \in SUBSET S : \A x, y \in X : x = y}
Generations == 1..MaxLaunches

VARIABLES
    live,    \* the engine: processes of each session, by generation
    dying,   \* those that were told to stop
    late,    \* spawn commands nobody waits for any more
    row,     \* the launch record of each session
    token,   \* the credential store: generations with a credential
    op,      \* the operation that holds the lock
    closing, \* whether the service is closing
    acked,   \* history: the launch answered as running, until it is closed
    budget   \* bounds left

engine == <<live, dying, late>>
vars == <<live, dying, late, row, token, op, closing, acked, budget>>

Phases == {"Preparing", "Running", "Stopped", "Failed"}
Records == [gen : Generations, phase : Phases, pending : BOOLEAN,
            receipt : BOOLEAN, attempted : BOOLEAN, rejected : BOOLEAN]
Operations ==
    [kind : {"launch"}, s : Sessions, rejected : BOOLEAN, stopped : BOOLEAN,
     pc : {"inventory", "prepare", "spawn", "message", "stop", "revoke"}]
    \cup [kind : {"close"}, s : Sessions, pc : {"get", "signal", "tokens"}]
    \cup [kind : {"reconcile"}, pc : {"inventory", "revoke", "sweep"},
          active : SUBSET Sessions, owed : SUBSET Sessions, revoked : SUBSET Sessions]

TypeOK ==
    /\ live \in [Sessions -> SUBSET Generations]
    /\ dying \in [Sessions -> SUBSET Generations]
    /\ late \in [Sessions -> SUBSET Generations]
    /\ row \in [Sessions -> Option(Records)]
    /\ token \in [Sessions -> Option(Generations)]
    /\ op \in Option(Operations)
    /\ closing \in BOOLEAN
    /\ acked \in [Sessions -> 0..MaxLaunches]
    /\ budget \in [faults : 0..MaxFaults, exits : 0..MaxExits,
                   restarts : 0..MaxRestarts]

-----------------------------------------------------------------------------
\* Mutant: reconciliation does not exclude the other operations.
FreeOfCalls == \A o \in op : o.kind = "reconcile"
Free == op = {}

Takes(o) == Free /\ op' = op \cup {o}
Moves(o, next) == op' = (op \ {o}) \cup {next}
Releases(o) == op' = op \ {o}

At(o, kind, pc) == o \in op /\ o.kind = kind /\ o.pc = pc

Fault == budget.faults > 0 /\ budget' = [budget EXCEPT !.faults = @ - 1]
\* phase: a closing service cancels what it waits for.
Fails == Fault \/ (closing /\ UNCHANGED budget)

Active(s) == live[s] # {}
Gen(s) == IF row[s] = {} THEN 0 ELSE (CHOOSE r \in row[s] : TRUE).gen

\* SIGTERM: a session without a process is not found.
Signal(s, ok) ==
    \/ /\ ok /\ Active(s)
       /\ dying' = [dying EXCEPT ![s] = live[s]]
       /\ UNCHANGED budget
    \/ ~ok /\ ~Active(s) /\ UNCHANGED <<dying, budget>>
    \/ /\ ~ok /\ Fault
       /\ dying' \in {dying, [dying EXCEPT ![s] = live[s]]}

-----------------------------------------------------------------------------
Init ==
    /\ live = [s \in Sessions |-> {}]
    /\ dying = [s \in Sessions |-> {}]
    /\ late = [s \in Sessions |-> {}]
    /\ row = [s \in Sessions |-> {}]
    /\ token = [s \in Sessions |-> {}]
    /\ op = {}
    /\ closing = FALSE
    /\ acked = [s \in Sessions |-> 0]
    /\ budget = [faults |-> MaxFaults, exits |-> MaxExits, restarts |-> MaxRestarts]

-----------------------------------------------------------------------------
(* launch_owned                                                            *)

Launch(s) ==
    /\ ~closing /\ Gen(s) < MaxLaunches
    /\ Takes([kind |-> "launch", s |-> s, pc |-> "inventory",
              rejected |-> FALSE, stopped |-> TRUE])
    /\ UNCHANGED <<engine, row, token, closing, acked, budget>>

Occupied(s) == \E r \in row[s] : r.phase \in {"Preparing", "Running"} \/ r.pending

\* update: the journal is written before the memory.
Writes(s, records) == row' = [row EXCEPT ![s] = records]

Insert(s) ==
    /\ Gen(s) < MaxLaunches
    /\ Writes(s,
        {[gen |-> Gen(s) + 1, phase |-> "Preparing", pending |-> TRUE,
          receipt |-> FALSE, attempted |-> FALSE, rejected |-> FALSE]})

Admit(o) ==
    /\ At(o, "launch", "inventory")
    /\ \/ /\ ~Active(o.s) /\ ~Occupied(o.s) /\ ~closing
          /\ Insert(o.s) /\ Moves(o, [o EXCEPT !.pc = "prepare"])
          /\ UNCHANGED budget
       \/ /\ \/ (Active(o.s) \/ Occupied(o.s)) /\ UNCHANGED budget
             \/ Fails
          /\ Releases(o) /\ UNCHANGED row
    /\ UNCHANGED <<engine, token, closing, acked>>

\* SessionFacade::mint: one credential per session.
Mint(s) == token' = [token EXCEPT ![s] = {Gen(s)}]

Attempted(r) == [r EXCEPT !.attempted = TRUE]

(* The attempt is on record before the engine hears of it.                 *)
Prepare(o) ==
    /\ At(o, "launch", "prepare")
    /\ \/ /\ ~closing
          /\ Mint(o.s) /\ Writes(o.s, {Attempted(r) : r \in row[o.s]})
          /\ Moves(o, [o EXCEPT !.pc = "spawn"]) /\ UNCHANGED budget
       \/ /\ Fails
          /\ Mint(o.s) \/ UNCHANGED token
          /\ Moves(o, [o EXCEPT !.pc = "revoke"]) /\ UNCHANGED row
    /\ UNCHANGED <<engine, closing, acked>>

Lives(s) == live' = [live EXCEPT ![s] = @ \cup {Gen(s)}]

Acknowledged(r) == [r EXCEPT !.phase = "Running", !.receipt = TRUE]

Spawned(o) ==
    /\ At(o, "launch", "spawn") /\ ~closing
    /\ Lives(o.s)
    /\ \/ /\ Writes(o.s, {Acknowledged(r) : r \in row[o.s]})
          /\ Moves(o, [o EXCEPT !.pc = "message"])
          /\ acked' = [acked EXCEPT ![o.s] = Gen(o.s)]
          /\ UNCHANGED budget
       \/ /\ Fault
          /\ Moves(o, [o EXCEPT !.pc = "stop"]) /\ UNCHANGED <<row, acked>>
    /\ UNCHANGED <<dying, late, token, closing>>

(* CommandRejected: the engine answered that it did not run.               *)
Rejected(o) ==
    /\ At(o, "launch", "spawn") /\ ~closing
    /\ Fault
    /\ Moves(o, [o EXCEPT !.pc = "revoke", !.rejected = TRUE])
    /\ UNCHANGED <<engine, row, token, closing, acked>>

\* Mutant: a launch without an answer counts as rejected.
SpawnLostRejected(o) ==
    /\ At(o, "launch", "spawn")
    /\ Fails
    /\ \/ UNCHANGED <<live, late>>
       \/ Lives(o.s) /\ UNCHANGED late
       \/ late' = [late EXCEPT ![o.s] = @ \cup {Gen(o.s)}] /\ UNCHANGED live
    /\ Moves(o, [o EXCEPT !.pc = "revoke", !.rejected = TRUE])
    /\ UNCHANGED <<dying, row, token, closing, acked>>

(* No answer: the command was never taken, or ran, or still runs.          *)
SpawnLost(o) ==
    /\ At(o, "launch", "spawn")
    /\ Fails
    /\ \/ UNCHANGED <<live, late>>
       \/ Lives(o.s) /\ UNCHANGED late
       \/ late' = [late EXCEPT ![o.s] = @ \cup {Gen(o.s)}] /\ UNCHANGED live
    /\ Moves(o, [o EXCEPT !.pc = "stop"])
    /\ UNCHANGED <<dying, row, token, closing, acked>>

(* The first message and its receipt change no launch state.               *)
Message(o) ==
    /\ At(o, "launch", "message")
    /\ Releases(o)
    /\ UNCHANGED <<engine, row, token, closing, acked, budget>>

StopEngine(o) == \E ok \in BOOLEAN :
    /\ At(o, "launch", "stop")
    /\ Signal(o.s, ok)
    /\ Moves(o, [o EXCEPT !.pc = "revoke", !.stopped = ok])
    /\ UNCHANGED <<live, late, row, token, closing, acked>>

Revokes(s) == token' = [token EXCEPT ![s] = @ \ {Gen(s)}]

\* Mutant: the record is closed whatever became of the credential.
CleanedAlways(o, revoked, r) ==
    [r EXCEPT !.phase = IF o.stopped THEN "Failed" ELSE "Running",
              !.pending = FALSE, !.rejected = o.rejected]

Cleaned(o, revoked, r) ==
    [r EXCEPT !.phase = IF o.stopped THEN "Failed" ELSE "Running",
              !.pending = ~revoked, !.rejected = o.rejected]

Closes(o, revoked) == Writes(o.s, {Cleaned(o, revoked, r) : r \in row[o.s]})

CleanUp(o) ==
    /\ At(o, "launch", "revoke")
    /\ \/ Revokes(o.s) /\ Closes(o, TRUE) /\ UNCHANGED budget
       \/ Fault /\ Revokes(o.s) /\ UNCHANGED row
       \/ Fault /\ UNCHANGED token /\ (Closes(o, FALSE) \/ UNCHANGED row)
    /\ Releases(o)
    /\ UNCHANGED <<engine, closing, acked>>

-----------------------------------------------------------------------------
(* reconcile: every five seconds, at start, and when a session stopped      *)

Reconcile ==
    /\ ~closing
    /\ Takes([kind |-> "reconcile", pc |-> "inventory",
              active |-> {}, owed |-> {}, revoked |-> {}])
    /\ UNCHANGED <<engine, row, token, closing, acked, budget>>

Reconciled(s, active, r) ==
    CASE s \in active /\ r.phase = "Preparing" -> [r EXCEPT !.phase = "Running"]
      [] s \notin active                       -> [r EXCEPT !.phase = "Stopped"]
      [] OTHER                                 -> r

\* Mutant: sessions that are active are not skipped.
OwedByAll(active) == {s \in Sessions : \E r \in row[s] : r.pending}
Owed(active) == {s \in Sessions \ active : \E r \in row[s] : r.pending}

\* Mutant: without anything to change in the journal, it ends.
InventoryUnchanged(o) ==
    /\ At(o, "reconcile", "inventory")
    /\ LET active == {s \in Sessions : Active(s)}
           next   == [s \in Sessions |-> {Reconciled(s, active, r) : r \in row[s]}]
       IN \/ /\ ~closing /\ next # row
             /\ row' = next
             /\ Moves(o, [o EXCEPT !.pc = "revoke", !.active = active,
                                   !.owed = Owed(active)])
             /\ UNCHANGED budget
          \/ /\ Fails \/ (next = row /\ UNCHANGED budget)
             /\ Releases(o) /\ UNCHANGED row
    /\ UNCHANGED <<engine, token, closing, acked>>

Inventory(o) ==
    /\ At(o, "reconcile", "inventory")
    /\ LET active == {s \in Sessions : Active(s)}
           next   == [s \in Sessions |-> {Reconciled(s, active, r) : r \in row[s]}]
       IN \/ /\ ~closing
             /\ row' = next
             /\ Moves(o, [o EXCEPT !.pc = "revoke", !.active = active,
                                   !.owed = Owed(active)])
             /\ UNCHANGED budget
          \/ Fails /\ Releases(o) /\ UNCHANGED row
    /\ UNCHANGED <<engine, token, closing, acked>>

RevokeOwed(o) == \E s \in Sessions :
    /\ At(o, "reconcile", "revoke") /\ s \in o.owed /\ ~closing
    /\ \/ /\ Revokes(s)
          /\ Moves(o, [o EXCEPT !.owed = @ \ {s}, !.revoked = @ \cup {s}])
          /\ UNCHANGED budget
       \/ Fault /\ Moves(o, [o EXCEPT !.owed = @ \ {s}]) /\ UNCHANGED token
    /\ UNCHANGED <<engine, row, closing, acked>>

Settled(r) == [r EXCEPT !.pending = FALSE]

Settle(o) ==
    /\ At(o, "reconcile", "revoke") /\ (o.owed = {} \/ closing)
    /\ \/ /\ row' = [s \in Sessions |->
                        IF s \in o.revoked THEN {Settled(r) : r \in row[s]} ELSE row[s]]
          /\ Moves(o, [o EXCEPT !.pc = "sweep"])
          /\ UNCHANGED budget
       \/ o.revoked # {} /\ Fault /\ Releases(o) /\ UNCHANGED row
    /\ UNCHANGED <<engine, token, closing, acked>>

Swept(active) == [s \in Sessions |-> IF s \in active THEN token[s] ELSE {}]

Sweep(o) ==
    /\ At(o, "reconcile", "sweep")
    /\ \/ ~closing /\ token' = Swept(o.active) /\ UNCHANGED budget
       \/ Fails /\ UNCHANGED token
    /\ Releases(o)
    /\ UNCHANGED <<engine, row, closing, acked>>

-----------------------------------------------------------------------------
(* close_agent: a session may be unknown, or refused                       *)

Close(s) ==
    /\ Takes([kind |-> "close", s |-> s, pc |-> "get"])
    /\ UNCHANGED <<engine, row, token, closing, acked, budget>>

CloseGet(o) ==
    /\ At(o, "close", "get")
    /\ \/ Releases(o)
       \/ Active(o.s) /\ Moves(o, [o EXCEPT !.pc = "signal"])
       \/ Moves(o, [o EXCEPT !.pc = "tokens"])
    /\ UNCHANGED <<engine, row, token, closing, acked, budget>>

CloseSignal(o) == \E ok \in BOOLEAN :
    /\ At(o, "close", "signal")
    /\ Signal(o.s, ok)
    /\ Moves(o, [o EXCEPT !.pc = "tokens"])
    /\ UNCHANGED <<live, late, row, token, closing, acked>>

CloseTokens(o) ==
    /\ At(o, "close", "tokens")
    /\ \/ /\ Revokes(o.s) /\ acked' = [acked EXCEPT ![o.s] = 0] /\ UNCHANGED budget
       \/ Fault /\ UNCHANGED <<token, acked>>
    /\ Releases(o)
    /\ UNCHANGED <<engine, row, closing>>

-----------------------------------------------------------------------------
(* The engine, and the hub's own end                                       *)

\* A spawn command nobody waits for still runs, or never does.
Lands(s, g) ==
    /\ g \in late[s]
    /\ live' \in {live, [live EXCEPT ![s] = @ \cup {g}]}
    /\ late' = [late EXCEPT ![s] = @ \ {g}]
    /\ UNCHANGED <<dying, row, token, op, closing, acked, budget>>

Dies(s, g) ==
    /\ g \in live[s]
    /\ live' = [live EXCEPT ![s] = @ \ {g}]
    /\ dying' = [dying EXCEPT ![s] = @ \ {g}]
    /\ UNCHANGED <<late, row, token, op, closing, acked>>

Ends(s, g) == g \in dying[s] /\ Dies(s, g) /\ UNCHANGED budget

Exits(s, g) ==
    /\ budget.exits > 0 /\ budget' = [budget EXCEPT !.exits = @ - 1]
    /\ Dies(s, g)

RequestClose ==
    /\ budget.restarts > 0 /\ ~closing
    /\ closing' = TRUE
    /\ UNCHANGED <<engine, row, token, op, acked, budget>>

(* The engine's processes end with the hub; journal and store remain.      *)
Restart ==
    /\ budget.restarts > 0 /\ budget' = [budget EXCEPT !.restarts = @ - 1]
    /\ live' = [s \in Sessions |-> {}]
    /\ dying' = [s \in Sessions |-> {}]
    /\ late' = [s \in Sessions |-> {}]
    /\ op' = {}
    /\ closing' = FALSE
    /\ acked' = [s \in Sessions |-> 0]
    /\ UNCHANGED <<row, token>>

-----------------------------------------------------------------------------
Step(o) ==
    \/ Admit(o) \/ Prepare(o) \/ Spawned(o) \/ Rejected(o) \/ SpawnLost(o)
    \/ Message(o) \/ StopEngine(o) \/ CleanUp(o)
    \/ Inventory(o) \/ RevokeOwed(o) \/ Settle(o) \/ Sweep(o)
    \/ CloseGet(o) \/ CloseSignal(o) \/ CloseTokens(o)

Steps == \E o \in op : Step(o)

Next ==
    \/ \E s \in Sessions :
         \/ Launch(s) \/ Close(s)
         \/ \E g \in Generations : Lands(s, g) \/ Ends(s, g) \/ Exits(s, g)
    \/ Reconcile \/ Steps \/ RequestClose \/ Restart

Spec == Init /\ [][Next]_vars

(* Every await of an operation has a timeout; the lock is handed on in the  *)
(* order of the requests, so the reconciliation gets its turn; a process    *)
(* told to stop ends, and a command is carried out or given up.             *)
FairSpec ==
    /\ Spec
    /\ WF_vars(Steps) /\ SF_vars(Reconcile)
    /\ \A s \in Sessions, g \in Generations :
         WF_vars(Lands(s, g)) /\ WF_vars(Ends(s, g))

-----------------------------------------------------------------------------
(* Properties                                                              *)

(* Every credential in the store belongs to the launch on record, and the   *)
(* record says that it has to be revoked: no crash, refused write or failed *)
(* cleanup leaves one that nobody will revoke (agent_lifecycle.rs           *)
(* launch_owned, reconcile).                                               *)
CredentialIsRecorded ==
    \A s \in Sessions : \A g \in token[s] :
        \E r \in row[s] : r.gen = g /\ r.pending

(* A launch that was answered as running keeps its record and its           *)
(* credential while its process lives and nobody closes it: no              *)
(* reconciliation and no other launch takes them away (reconcile).          *)
AnsweredIsKept ==
    \A s \in Sessions : acked[s] \in live[s] =>
        /\ acked[s] \in token[s]
        /\ \E r \in row[s] : r.gen = acked[s] /\ r.phase = "Running" /\ r.receipt

(* A launch that is over, without a receipt, and was not attempted or was   *)
(* refused has no process and never will: recover_tracking gives its        *)
(* workflow reservation to another launch (agent_spawn.rs recover_tracking).*)
ReleaseIsSafe ==
    \A s \in Sessions : \A r \in row[s] :
        /\ r.phase \in {"Stopped", "Failed"} /\ ~r.receipt
        /\ ~r.attempted \/ r.rejected
        => r.gen \notin live[s] \cup late[s]

(* A session without a process does not keep a credential: what a failure   *)
(* left is revoked by a later reconciliation (reconcile).                   *)
CredentialEnds ==
    \A s \in Sessions : []<>(token[s] = {} \/ Active(s) \/ closing)

(* A session without a process can be launched again: no failure blocks it  *)
(* for ever (reconcile, launch_owned).                                     *)
CanRelaunch ==
    \A s \in Sessions : []<>(~Occupied(s) \/ Active(s) \/ closing)

(* Whatever failed, reconciliation puts a session without a process right   *)
(* again: nothing of the launch that is over stays behind.                 *)
Recovers == CredentialEnds /\ CanRelaunch

=============================================================================

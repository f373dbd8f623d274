------------------------------ MODULE WorkQueue ------------------------------
(***************************************************************************)
(* The host work queue (services/work_queue.rs): agent prompts and shell   *)
(* scripts admitted when a slot of their kind is free and the resource     *)
(* gate is open.                                                           *)
(*                                                                         *)
(* Every change of the queue holds the state lock for one rewrite of the   *)
(* queue file and is one step.  The run loop reads limits and gate before  *)
(* it takes the lock, starts a task per admitted item, and handles one     *)
(* timer or event at a time; the tasks, the calls of clients, the agents   *)
(* and a crash come in between.                                            *)
(***************************************************************************)
EXTENDS Integers, FiniteSets, Sequences

CONSTANTS
    Items,            \* item ids; the id is the last key of every order
    Priorities,       \* priorities a submitter may give
    Callers,          \* the owner and federation peers
    Owner,            \* the server owner
    HostCallers,      \* callers that may run host code (shell items)
    LimitChoices,     \* slot limits the owner may configure
    InitialLimits,    \* the limits at the start
    GateStates,       \* gate states the machine shows (TRUE is open)
    Retain,           \* RETAIN_TERMINAL
    RecheckLimit,     \* RECHECK_LIMIT
    MaxClock,         \* bound: milliseconds that pass
    MaxCrashes,       \* bound: hub restarts
    MaxWriteFailures, \* bound: rewrites of the file the disk refuses
    MaxCallFailures,  \* bound: snapshot calls of the re-check that fail
    MaxRows,          \* bound: rows of a session under way to the run loop
    MaxLags           \* bound: times the loop's subscription lags

Kinds == {"spawn", "shell"}

ASSUME ItemsAssumption == Items \subseteq Nat /\ IsFiniteSet(Items)
ASSUME PrioritiesAssumption == Priorities \subseteq Int
ASSUME CallersAssumption == Owner \in Callers /\ HostCallers \subseteq Callers
ASSUME LimitsAssumption ==
    /\ LimitChoices \subseteq [Kinds -> Nat]
    /\ InitialLimits \in [Kinds -> Nat]
ASSUME GateAssumption == GateStates \subseteq BOOLEAN
ASSUME QueueBoundsAssumption ==
    /\ Retain \in Nat /\ RecheckLimit \in Nat \ {0} /\ MaxClock \in Nat
    /\ MaxCrashes \in Nat /\ MaxWriteFailures \in Nat /\ MaxCallFailures \in Nat
    /\ MaxRows \in Nat /\ MaxLags \in Nat

VARIABLES
    items,    \* State::items
    disk,     \* the items of the queue file
    watches,  \* State::watches, the running spawn items with a known session
    limits,   \* the slots of QueueConfig
    gate,     \* whether the monitor's latest sample keeps the gate open
    pass,     \* limits and gate an admission pass has read
    task,     \* where the task of a started item is
    agent,    \* external: the session a spawn item started
    rows,     \* its rows the run loop has not handled yet
    clock,    \* now()
    launches, \* history: how often an item's work was started
    accepted, \* history: items whose submission was answered
    revoked,  \* history: items whose cancellation was answered
    settled,  \* history: items that became terminal
    peak,     \* history: the highest limit of each kind so far
    spent     \* what is used up of the Max* bounds

file == <<items, disk>>
world == <<limits, gate, agent, rows, clock>>
history == <<launches, accepted, revoked, settled, peak>>
vars == <<items, disk, watches, limits, gate, pass, task, agent, rows, clock,
          launches, accepted, revoked, settled, peak, spent>>

-----------------------------------------------------------------------------
(* State.  "done" stands for done and failed, which no rule tells apart.   *)
(* A wait reason is empty, the gate, or the used and available slots.      *)

Terminal == {"done", "cancelled", "unknown"}
Option(S) == {X \in SUBSET S : \A x, y \in X : x = y}
NoWait == <<>>
GateWait == <<"gate">>

Item == [kind : Kinds, priority : Priorities, submitter : Callers,
         state : {"queued", "running"} \cup Terminal, attached : BOOLEAN,
         enqueued : Nat, finished : Nat, updated : Nat,
         wait : {NoWait, GateWait} \cup (Nat \X Nat)]

Watch == [seen : BOOLEAN, strikes : Nat]

\* What the queue reads from a session row: "starting" is a row without an
\* ambient state, "busy" streaming, thinking or background, "asking" waiting
\* for approval or input; "gone" is a session that is not reported.
AgentState == {"none", "starting", "idle", "busy", "asking", "ended", "gone"}
AtRest == {"idle", "asking", "ended", "gone"}

TypeOK ==
    /\ items \in [Items -> Option(Item)]
    /\ disk \in [Items -> Option(Item)]
    /\ watches \in [Items -> Option(Watch)]
    /\ limits \in [Kinds -> Nat]
    /\ gate \in BOOLEAN
    /\ pass \in Option([limits : [Kinds -> Nat], gate : BOOLEAN])
    /\ task \in [Items -> {"none", "starting", "executing", "arming"}]
    /\ agent \in [Items -> AgentState]
    /\ rows \in [Items -> Seq(AgentState)]
    /\ clock \in Nat
    /\ launches \in [Items -> Nat]
    /\ accepted \subseteq Items /\ revoked \subseteq Items
    /\ settled \subseteq Items
    /\ peak \in [Kinds -> Nat]
    /\ spent \in [crash : Nat, write : Nat, call : Nat, lag : Nat]

In(its, i, states) == \E x \in its[i] : x.state \in states
Having(its, states) == {i \in Items : In(its, i, states)}
OfKind(its, states, k) == {i \in Having(its, states) : \A x \in its[i] : x.kind = k}
Running(k) == Cardinality(OfKind(items, {"running"}, k))

-----------------------------------------------------------------------------
(* The pure rules of work_queue/model.rs                                   *)

(* order: higher priority first, then enqueue time, then id.               *)
Precedes(its, i, j) ==
    \E a \in its[i], b \in its[j] :
        \/ a.priority > b.priority
        \/ a.priority = b.priority /\ a.enqueued < b.enqueued
        \/ a.priority = b.priority /\ a.enqueued = b.enqueued /\ i < j

\* Mutant: a waiting item of one kind holds back every later one.
StartsHeadOnly(its, p, k) ==
    LET waiting == Having(its, {"queued"})
        ahead(i) == {j \in waiting : Precedes(its, j, i)}
    IN  {i \in OfKind(its, {"queued"}, k) :
            /\ p.gate
            /\ Cardinality(OfKind(its, {"running"}, k)) + Cardinality(ahead(i))
                   < p.limits[k]}

\* Mutant: the newest submission goes first.
StartsNewest(its, p, k) ==
    LET queue == OfKind(its, {"queued"}, k)
        behind(i) == {j \in queue : Precedes(its, i, j)}
    IN  {i \in queue :
            /\ p.gate
            /\ Cardinality(OfKind(its, {"running"}, k)) + Cardinality(behind(i))
                   < p.limits[k]}

(* plan: the queued items of a kind that start.  The loop of the code gives *)
(* the free slots of the kind to the first items in queue order.            *)
Starts(its, p, k) ==
    LET queue == OfKind(its, {"queued"}, k)
        ahead(i) == {j \in queue : Precedes(its, j, i)}
    IN  {i \in queue :
            /\ p.gate
            /\ Cardinality(OfKind(its, {"running"}, k)) + Cardinality(ahead(i))
                   < p.limits[k]}

Started(its, p) == UNION {Starts(its, p, k) : k \in Kinds}

(* The wait reason of an item that does not start.                         *)
WaitReason(its, p, k) ==
    IF ~p.gate THEN GateWait
    ELSE LET used == Cardinality(OfKind(its, {"running"}, k)
                                 \cup Starts(its, p, k))
         IN  <<used, p.limits[k]>>

(* A change bumps updated_at beyond the last one.                          *)
Bumped(x) == IF clock > x.updated THEN clock ELSE x.updated + 1

\* Mutant: the oldest items are evicted whatever their state.
RetainedAny(its) ==
    LET held == {i \in Items : its[i] # {}}
    IN  [i \in Items |->
            IF i \in held /\ Cardinality({j \in held : j > i}) >= Retain
            THEN {} ELSE its[i]]

(* retain: the newest Retain terminal items by finish time.                *)
Retained(its) ==
    LET ended == Having(its, Terminal)
        newer(i, j) == \E a \in its[i], b \in its[j] :
            \/ a.finished > b.finished
            \/ a.finished = b.finished /\ a.enqueued > b.enqueued
            \/ a.finished = b.finished /\ a.enqueued = b.enqueued /\ i > j
    IN  [i \in Items |->
            IF i \in ended /\ Cardinality({j \in ended : newer(j, i)}) >= Retain
            THEN {} ELSE its[i]]

\* Mutant: items that ran when the hub stopped are queued again.
RecoveredAgain(its) ==
    [i \in Items |->
        {IF x.state = "running" THEN [x EXCEPT !.state = "queued"] ELSE x :
            x \in its[i]}]

(* recover: a persisted running item has an unknown outcome.               *)
Recovered(its) ==
    [i \in Items |->
        {IF x.state = "running"
         THEN [x EXCEPT !.state = "unknown", !.finished = clock,
                        !.updated = clock, !.wait = NoWait]
         ELSE x : x \in its[i]}]

-----------------------------------------------------------------------------
(* spawn_watch                                                             *)

(* classify: what a row says of the session watched by `w`.                *)
Classify(row, w) ==
    IF row \in {"ended", "asking"} \/ (row = "idle" /\ w.seen) THEN "release"
    ELSE IF row = "busy" THEN "working" ELSE "wait"

\* Mutant: only a missing session counts as an inconclusive re-check.
StruckWhenGone(row, w) ==
    IF row \in {"gone", "none"} THEN w.strikes + 1 ELSE 0

(* recheck: consecutive inconclusive re-checks.                            *)
Struck(row, w) ==
    IF row \in {"gone", "none"} \/ (row = "idle" /\ Classify(row, w) = "wait")
    THEN w.strikes + 1 ELSE 0

-----------------------------------------------------------------------------
Init ==
    /\ items = [i \in Items |-> {}] /\ disk = items
    /\ watches = [i \in Items |-> {}]
    /\ limits = InitialLimits /\ peak = InitialLimits
    /\ gate \in GateStates
    /\ pass = {} /\ clock = 0
    /\ task = [i \in Items |-> "none"]
    /\ agent = [i \in Items |-> "none"]
    /\ rows = [i \in Items |-> <<>>]
    /\ launches = [i \in Items |-> 0]
    /\ accepted = {} /\ revoked = {} /\ settled = {}
    /\ spent = [crash |-> 0, write |-> 0, call |-> 0, lag |-> 0]

(* persist: the file is replaced, or the disk refuses.                     *)
Write(its) == disk' = its /\ UNCHANGED spent
WriteFails ==
    /\ spent.write < MaxWriteFailures
    /\ spent' = [spent EXCEPT !.write = @ + 1]
    /\ UNCHANGED disk

Submission(i, kind, priority, caller) ==
    [kind |-> kind, priority |-> priority, submitter |-> caller,
     state |-> "queued", attached |-> FALSE, enqueued |-> clock,
     finished |-> 0, updated |-> clock, wait |-> NoWait]

(* submit_local: the id is new and the caller has the authority for the    *)
(* kind.  An item that could not be saved is taken back.                   *)
SubmitLocal(i, kind, priority, caller) ==
    /\ i \notin accepted /\ items[i] = {}
    /\ kind = "shell" => caller \in HostCallers
    /\ LET all == Retained([items EXCEPT
                      ![i] = {Submission(i, kind, priority, caller)}])
       IN  \/ Write(all) /\ items' = all /\ accepted' = accepted \cup {i}
           \/ WriteFails /\ items' = [all EXCEPT ![i] = {}] /\ UNCHANGED accepted
    /\ UNCHANGED <<watches, pass, task, launches, revoked, settled, peak, world>>

(* cancel: the item is put back when the file could not be written.  Note  *)
(* that updated_at becomes now() and is not bumped.                        *)
Cancel(i, caller) ==
    /\ In(items, i, {"queued"})
    /\ \A x \in items[i] : caller \in {Owner, x.submitter}
    /\ LET x == CHOOSE x \in items[i] : TRUE
           all == [items EXCEPT ![i] = {[x EXCEPT !.state = "cancelled",
                       !.finished = clock, !.updated = clock, !.wait = NoWait]}]
       IN  \/ /\ Write(all) /\ items' = all
              /\ revoked' = revoked \cup {i} /\ settled' = settled \cup {i}
           \/ WriteFails /\ UNCHANGED <<items, revoked, settled>>
    /\ UNCHANGED <<watches, pass, task, launches, accepted, peak, world>>

(* set_config.                                                             *)
SetConfig(choice) ==
    /\ choice # limits
    /\ limits' = choice
    /\ peak' = [k \in Kinds |-> IF choice[k] > peak[k] THEN choice[k] ELSE peak[k]]
    /\ UNCHANGED <<file, watches, pass, task, gate, agent, rows, clock, launches,
                   accepted, revoked, settled, spent>>

-----------------------------------------------------------------------------
(* The run loop                                                            *)

(* Monitor::sample and gate_reasons: the next sample opens or closes.      *)
Sample(open) ==
    /\ open # gate
    /\ gate' = open
    /\ UNCHANGED <<file, watches, pass, task, limits, agent, rows, clock, history, spent>>

(* admit, before the lock: limits and gate are read.                       *)
PassBegins ==
    /\ pass = {}
    /\ pass' = {[limits |-> limits, gate |-> gate]}
    /\ UNCHANGED <<file, watches, task, world, history, spent>>

(* admit: the queued items after a pass.                                   *)
Admitted(its, p) ==
    [i \in Items |->
        {IF x.state # "queued" THEN x
         ELSE IF i \in Starts(its, p, x.kind)
         THEN [x EXCEPT !.state = "running", !.updated = Bumped(x), !.wait = NoWait]
         ELSE IF x.wait # WaitReason(its, p, x.kind)
         THEN [x EXCEPT !.wait = WaitReason(its, p, x.kind), !.updated = Bumped(x)]
         ELSE x : x \in its[i]}]

\* Mutant: what could not be saved as running stays running in memory.
RolledBackNot(all, started) == all

(* admit, when the file could not be written: what was to start is queued  *)
(* ("Not durable: do not start anything this pass").                       *)
RolledBack(all, started) ==
    [i \in Items |->
        IF i \in started THEN {[x EXCEPT !.state = "queued"] : x \in all[i]}
        ELSE all[i]]

(* admit, and the start of a task for every admitted item.                 *)
Admit ==
    \E p \in pass :
        LET started == Started(items, p)
            all == Admitted(items, p)
        IN  /\ pass' = {}
            /\ \/ all = items /\ UNCHANGED <<file, task, spent>>
               \/ /\ all # items
                  /\ Write(all) /\ items' = all
                  /\ task' = [i \in Items |->
                         IF i \in started THEN "starting" ELSE task[i]]
               \/ /\ all # items
                  /\ WriteFails /\ items' = RolledBack(all, started)
                  /\ UNCHANGED task
            /\ UNCHANGED <<watches, world, history>>

(* update with a terminal state, as finish does: a failed write is only    *)
(* logged.                                                                 *)
Finish(i) ==
    /\ LET x == CHOOSE x \in items[i] : TRUE
           all == Retained([items EXCEPT ![i] =
                     {[x EXCEPT !.state = "done", !.finished = clock,
                                !.updated = Bumped(x), !.wait = NoWait]}])
       IN  /\ items' = all
           /\ Write(all) \/ WriteFails
    /\ watches' = [watches EXCEPT ![i] = {}]
    /\ settled' = settled \cup {i}
    /\ UNCHANGED <<launches, accepted, revoked, peak>>

(* The task of an item runs its script or calls agents.spawn.              *)
Launch(i) ==
    /\ task[i] = "starting"
    /\ task' = [task EXCEPT ![i] = "executing"]
    /\ launches' = [launches EXCEPT ![i] = @ + 1]
    /\ UNCHANGED <<file, watches, pass, world, accepted, revoked, settled,
                   peak, spent>>

(* run_shell ended, or start_spawn failed or was not answered in time.     *)
TaskEnds(i) ==
    /\ task[i] = "executing"
    /\ In(items, i, {"running"})
    /\ Finish(i)
    /\ task' = [task EXCEPT ![i] = "none"]
    /\ UNCHANGED <<pass, world>>

(* start_spawn returned the session: the item learns it.                   *)
Attach(i) ==
    /\ task[i] = "executing" /\ agent[i] # "none"
    /\ In(items, i, {"running"})
    /\ LET all == [items EXCEPT ![i] =
                     {[x EXCEPT !.attached = TRUE, !.updated = Bumped(x)] : x \in @}]
       IN  items' = all /\ (Write(all) \/ WriteFails)
    /\ task' = [task EXCEPT ![i] = "arming"]
    /\ UNCHANGED <<watches, pass, world, history>>

NewWatch == [seen |-> FALSE, strikes |-> 0]

(* A second lock section arms the watch; rows in between are missed.       *)
Arm(i) ==
    /\ task[i] = "arming"
    /\ task' = [task EXCEPT ![i] = "none"]
    /\ watches' = [watches EXCEPT ![i] = {NewWatch}]
    /\ UNCHANGED <<file, pass, world, history, spent>>

(* observe: the run loop handles a row of a session.                       *)
Observe(i) ==
    /\ rows[i] # <<>>
    /\ rows' = [rows EXCEPT ![i] = Tail(@)]
    /\ LET row == Head(rows[i])
       IN  \/ watches[i] = {} /\ UNCHANGED <<file, watches, history, spent>>
           \/ \E w \in watches[i] :
                 /\ Classify(row, w) # "release"
                 /\ watches' = [watches EXCEPT ![i] =
                        IF Classify(row, w) = "working"
                        THEN {[seen |-> TRUE, strikes |-> 0]} ELSE @]
                 /\ UNCHANGED <<file, history, spent>>
           \/ \E w \in watches[i] : Classify(row, w) = "release" /\ Finish(i)
    /\ UNCHANGED <<pass, task, limits, gate, agent, clock>>

(* recheck: once a minute, and when events were lost, the session is asked *)
(* for.  A failed call reads as a missing session.                         *)
RecheckWith(i, row) ==
    /\ \E w \in watches[i] :
          \/ /\ Classify(row, w) = "release" \/ Struck(row, w) >= RecheckLimit
             /\ Finish(i)
          \/ /\ Classify(row, w) # "release" /\ Struck(row, w) < RecheckLimit
             /\ watches' = [watches EXCEPT ![i] =
                    {[seen |-> w.seen \/ Classify(row, w) = "working",
                      strikes |-> Struck(row, w)]}]
             /\ UNCHANGED <<file, history, spent>>
    /\ UNCHANGED <<pass, task, world>>

Recheck(i) == RecheckWith(i, agent[i])

(* recheck with `.ok()`: the call failed.                                  *)
RecheckUnanswered(i) ==
    /\ spent.call < MaxCallFailures
    /\ \E w \in watches[i] :
          /\ w.strikes + 1 < RecheckLimit
          /\ watches' = [watches EXCEPT ![i] = {[w EXCEPT !.strikes = @ + 1]}]
          /\ spent' = [spent EXCEPT !.call = @ + 1]
    /\ UNCHANGED <<file, pass, task, world, history>>

(* recheck: one failed call too many releases the slot.                    *)
RecheckGivesUp(i) ==
    /\ spent.call < MaxCallFailures
    /\ \E w \in watches[i] : w.strikes + 1 >= RecheckLimit
    /\ Finish(i)
    /\ UNCHANGED <<pass, task, world>>

(* The subscription lagged: rows are lost (the re-check follows).          *)
LoseRows ==
    /\ spent.lag < MaxLags
    /\ \E i \in Items : rows[i] # <<>>
    /\ rows' = [i \in Items |-> <<>>]
    /\ spent' = [spent EXCEPT !.lag = @ + 1]
    /\ UNCHANGED <<file, watches, pass, task, limits, gate, agent, clock, history>>

-----------------------------------------------------------------------------
(* External: agents, time and crashes                                      *)

(* What a session may do next.                                             *)
Moves(a) ==
    CASE a = "starting" -> {"idle", "busy", "ended"}
      [] a = "idle"     -> {"busy", "ended"}
      [] a = "busy"     -> {"idle", "asking", "ended"}
      [] a = "asking"   -> {"busy", "ended"}
      [] a = "ended"    -> {"gone"}
      [] OTHER          -> {}

(* agents.spawn creates the session while its call is under way.           *)
AgentStarts(i) ==
    /\ task[i] = "executing" /\ agent[i] = "none"
    /\ \A x \in items[i] : x.kind = "spawn"
    /\ agent' = [agent EXCEPT ![i] = "starting"]
    /\ UNCHANGED <<file, watches, pass, task, limits, gate, rows, clock, history, spent>>

(* A session changes and publishes its row.                                *)
AgentMoves(i, a) ==
    /\ a \in Moves(agent[i])
    /\ agent' = [agent EXCEPT ![i] = a]
    /\ Len(rows[i]) < MaxRows
    /\ rows' = [rows EXCEPT ![i] = IF a = "gone" THEN @ ELSE Append(@, a)]
    /\ UNCHANGED <<file, watches, pass, task, limits, gate, clock, launches,
                   accepted, revoked, settled, peak, spent>>

TimePasses ==
    /\ clock < MaxClock
    /\ clock' = clock + 1
    /\ UNCHANGED <<file, watches, pass, task, limits, gate, agent, rows, history, spent>>

(* The hub stops and starts again from the file (WorkQueue::open).         *)
Restart ==
    /\ spent.crash < MaxCrashes
    /\ spent' = [spent EXCEPT !.crash = @ + 1]
    /\ items' = Recovered(disk) /\ disk' = items'
    /\ watches' = [i \in Items |-> {}]
    /\ pass' = {}
    /\ task' = [i \in Items |-> "none"]
    /\ rows' = [i \in Items |-> <<>>]
    /\ settled' = settled \cup Having(Recovered(disk), Terminal)
    /\ UNCHANGED <<limits, gate, agent, clock, launches, accepted, revoked, peak>>

-----------------------------------------------------------------------------
(* Specification                                                           *)

Calls ==
    \/ \E i \in Items, k \in Kinds, p \in Priorities, c \in Callers :
           SubmitLocal(i, k, p, c)
    \/ \E i \in Items, c \in Callers : Cancel(i, c)
    \/ \E choice \in LimitChoices : SetConfig(choice)

Loop ==
    \/ PassBegins \/ Admit \/ LoseRows
    \/ \E open \in GateStates : Sample(open)
    \/ \E i \in Items : \/ Launch(i) \/ TaskEnds(i) \/ Attach(i) \/ Arm(i)
                        \/ Observe(i) \/ Recheck(i)
                        \/ RecheckUnanswered(i) \/ RecheckGivesUp(i)

Environment ==
    \/ TimePasses \/ Restart
    \/ \E i \in Items : AgentStarts(i) \/ \E a \in AgentState : AgentMoves(i, a)

Next == Calls \/ Loop \/ Environment

Spec == Init /\ [][Next]_vars

(* The run loop's timers fire, its tasks run on (a script is killed at its *)
(* timeout, a spawn call ends), and an agent's start and turn come to an   *)
(* end.  Nothing is assumed of clients and the gate.                       *)
FairSpec ==
    /\ Spec
    /\ WF_vars(PassBegins) /\ WF_vars(Admit)
    /\ \A i \in Items :
          /\ WF_vars(Launch(i)) /\ WF_vars(TaskEnds(i) \/ Attach(i))
          /\ WF_vars(Arm(i)) /\ WF_vars(Observe(i)) /\ WF_vars(Recheck(i))
          /\ WF_vars(AgentMoves(i, "idle"))

-----------------------------------------------------------------------------
(* Properties                                                              *)

(* Work is started at most once, however often the hub stops and whatever  *)
(* the disk refuses: an item whose submission was refused or whose          *)
(* cancellation was answered never starts ("its outcome is uncertain and    *)
(* it is never re-run").                                                   *)
StartsOnce ==
    \A i \in Items : launches[i] <= IF i \in accepted \ revoked THEN 1 ELSE 0

(* An accepted item stays in the queue and in its file until it has a      *)
(* terminal state ("queued and running items are never evicted").          *)
AcceptedSurvives ==
    \A i \in accepted \ settled :
        In(items, i, {"queued", "running"}) /\ In(disk, i, {"queued", "running"})

(* No more items of a kind run than the owner ever allowed at once.        *)
SlotsBounded == \A k \in Kinds : Running(k) <= peak[k]

(* A slot that is held has somebody who will release it, the item's task   *)
(* or its watch, and exactly one of them; nobody releases a slot twice.    *)
SlotHasOneReleaser ==
    \A i \in Items :
        /\ In(items, i, {"running"}) <=> (task[i] # "none" \/ watches[i] # {})
        /\ ~(task[i] # "none" /\ watches[i] # {})

(* Slots are neither leaked nor given twice, on states of the right shape.  *)
SlotsAccounted == TypeOK /\ SlotsBounded /\ SlotHasOneReleaser

(* Admission passes nobody over: when an item starts, every item of its    *)
(* kind that precedes it starts too or runs already.                       *)
AdmitsInOrder ==
    [][\A i, j \in Items :
          /\ \E k \in Kinds : {i, j} \subseteq OfKind(items, {"queued"}, k)
          /\ Precedes(items, j, i)
          /\ In(items', i, {"running"})
          => In(items', j, {"running"})]_vars

(* An agent that is at rest gives its slot back, whatever rows were lost   *)
(* and whichever came before the watch was armed (the re-check).           *)
SlotComesBack ==
    \A i \in Items : []<>~(In(items, i, {"running"}) /\ agent[i] \in AtRest)

(* A queued item of a kind that has slots starts or is cancelled, however  *)
(* long items of the other kind wait before it, unless the gate closes.    *)
EventuallyStarts ==
    \A i \in Items :
        (\E k \in Kinds : limits[k] > 0 /\ i \in OfKind(items, {"queued"}, k))
            ~> (~In(items, i, {"queued"}) \/ ~gate)

=============================================================================

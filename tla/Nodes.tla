-------------------------------- MODULE Nodes --------------------------------
(***************************************************************************)
(* Remote worker nodes (services/nodes/supervisor.rs): machines the hub     *)
(* wakes and puts to sleep through a cloud API while a reconciliation reads *)
(* their state back.                                                       *)
(*                                                                         *)
(* Every request gets an epoch and a task of its own; the tasks of a node   *)
(* take turns by its action lock and give way to newer epochs.  An await is *)
(* a step boundary.  A command takes effect when it is answered; one whose  *)
(* answer is lost took effect by then or never will.                       *)
(***************************************************************************)
EXTENDS Integers, FiniteSets

CONSTANTS
    Nodes,        \* registered nodes
    Wakeable,     \* those with coordinates and a credential
    KeepFailed,   \* keep_failed_wakes_running
    StartRetries, \* start_retries
    SilentStrikes,\* silent_strikes
    MaxRequests,  \* bound: accepted requests per node and hub run
    MaxFaults,    \* bound: cloud calls that fail
    MaxMoves,     \* bound: machines and providers that move by themselves
    MaxRestarts   \* bound: hub restarts

\* Nodes are reconciled eight at a time; larger registries are not modelled.
ASSUME NodesAssumption == Cardinality(Nodes) \in 1..8 /\ Wakeable \subseteq Nodes
ASSUME LimitsAssumption == StartRetries \in 0..3 /\ SilentStrikes \in Nat \ {0}
ASSUME NodeBoundsAssumption ==
    /\ MaxRequests \in Nat /\ MaxFaults \in Nat
    /\ MaxMoves \in Nat /\ MaxRestarts \in Nat

Option(S) == {X \in SUBSET S : \A x, y \in X : x = y}

Epochs == 1..MaxRequests

VARIABLES
    machine,  \* the machines as they are
    provider, \* the registered provider, with the node it runs on
    mem,      \* memory of each node: its view, epoch and direction
    task,     \* the task of each request
    recon,    \* cloud reads of the reconciliation under way
    strikes,  \* silent readings of this connection in a row
    started,  \* history: how a start of this hub run that still holds was answered
    sent,     \* history: the epoch of the last command to the cloud
    budget    \* bounds left

outside == <<machine, provider, started>>
vars == <<machine, provider, mem, task, recon, strikes, started, sent, budget>>

\* Positions of a task: waiting for its turn, reading the provider, about to
\* start, starting, waiting for the provider, giving the wake up, reading the
\* provider once more, stopping, waiting for the machine to stop.
Positions == {"queued", "probe", "start", "starting", "watch", "giveUp",
              "recheck", "stopping", "undoing", "asleep", "undone"}
Holding == {"probe", "start", "starting", "recheck", "stopping", "undoing",
            "undone"}                          \* with the action lock held
Commanding == {"starting", "stopping", "undoing"}
Superseding == {"watch", "asleep", "undone"}   \* where a newer epoch ends it

TypeOK ==
    /\ machine \in [Nodes -> {"started", "stopping", "stopped", "destroyed"}]
    /\ provider \in Option([node : Nodes, silent : BOOLEAN])
    /\ mem \in [Nodes -> [state : {"available", "waking", "stopping", "stopped",
                                   "unreachable"},
                          power : BOOLEAN, failed : BOOLEAN, slept : BOOLEAN,
                          epoch : 0..MaxRequests,
                          direction : {"none", "wake", "sleep"}]]
    /\ task \in [Nodes -> [Epochs -> Option(
          [direction : {"wake", "sleep"}, pc : Positions,
           attempt : 0..StartRetries, prior : BOOLEAN])]]
    /\ recon \in [Nodes -> Option([epoch : 0..MaxRequests, sample : Option(
          {"started", "starting", "stopped", "destroyed", "unknown", "failed"})])]
    /\ strikes \in 0..SilentStrikes - 1
    /\ started \in [Nodes -> {"no", "confirmed", "lost"}]
    /\ sent \in [Nodes -> 0..MaxRequests]
    /\ budget \in [faults : 0..MaxFaults, moves : 0..MaxMoves,
                   restarts : 0..MaxRestarts]

-----------------------------------------------------------------------------
At(n, e, pcs) == \E t \in task[n][e] : t.pc \in pcs
\* Mutant: the lock is released once the command is sent.
UnlockedEarly(n) == \A e \in Epochs : ~At(n, e, Holding \ Commanding)
Unlocked(n) == \A e \in Epochs : ~At(n, e, Holding)
Current(n, e) == mem[n].epoch = e

Ends(n, e) == task' = [task EXCEPT ![n][e] = {}]
Goes(n, e, pc) == task' = [task EXCEPT ![n][e] = {[t EXCEPT !.pc = pc] : t \in @}]
Sends(n, e, pc) == Goes(n, e, pc) /\ sent' = [sent EXCEPT ![n] = e]

Faulty == budget.faults > 0 /\ budget' = [budget EXCEPT !.faults = @ - 1]
Moves == budget.moves > 0 /\ budget' = [budget EXCEPT !.moves = @ - 1]

\* Mutant: a result is written whatever was requested meanwhile.
SetAlways(n, e, view) ==
    mem' = [mem EXCEPT ![n] = view]

(* Supervisor::set: a newer epoch wins over any result.                    *)
Set(n, e, view) ==
    mem' = IF Current(n, e) THEN [mem EXCEPT ![n] = view] ELSE mem

View(n, state, power) == [mem[n] EXCEPT !.state = state, !.power = power]
Over(view) == [view EXCEPT !.direction = "none"]
Failed(view) == [view EXCEPT !.failed = TRUE]

(* Supervisor::available                                                   *)
Available(n) == [Over(View(n, "available", TRUE)) EXCEPT !.failed = FALSE]

\* Bus::read: a healthy provider may be too slow to answer in time.
Readings ==
    {"unavailable"} \cup
    IF provider = {} THEN {"absent"}
    ELSE {"silent"} \cup {r \in {"answered"} : \A p \in provider : ~p.silent}

Answers(n) == \E p \in provider : p.node = n /\ ~p.silent

-----------------------------------------------------------------------------
(* Supervisor::new: nothing is known.                                      *)
Fresh == [state |-> "unreachable", power |-> FALSE, failed |-> FALSE,
          slept |-> FALSE, epoch |-> 0, direction |-> "none"]

NoTasks == [n \in Nodes |-> [e \in Epochs |-> {}]]

Init ==
    /\ machine \in [Nodes -> {"started", "stopped"}]
    /\ provider = {}
    /\ mem = [n \in Nodes |-> Fresh]
    /\ task = NoTasks
    /\ recon = [n \in Nodes |-> {}]
    /\ strikes = 0
    /\ started = [n \in Nodes |-> "no"]
    /\ sent = [n \in Nodes |-> 0]
    /\ budget = [faults |-> MaxFaults, moves |-> MaxMoves,
                 restarts |-> MaxRestarts]

-----------------------------------------------------------------------------
(* Requests                                                                *)

(* wake and sleep: a request for what is under way or already so returns    *)
(* the view.  (So does a node without credentials, and a full queue.)      *)
Request(n, d) ==
    /\ n \in Wakeable /\ mem[n].epoch < MaxRequests
    /\ mem[n].direction # d
    /\ mem[n].state # (IF d = "wake" THEN "available" ELSE "stopped")
    /\ mem' = [mem EXCEPT
         ![n].epoch = @ + 1, ![n].direction = d, ![n].power = TRUE,
         ![n].state = IF d = "wake" THEN "waking" ELSE "stopping",
         ![n].slept = IF d = "wake" THEN FALSE ELSE @]
    /\ task' = [task EXCEPT ![n][mem[n].epoch + 1] =
         {[direction |-> d, pc |-> "queued", attempt |-> 0,
           prior |-> mem[n].power]}]
    /\ UNCHANGED <<outside, recon, strikes, sent, budget>>

(* action: a task whose turn has come; a superseded one has nothing to do. *)
Turn(n, e) == \E t \in task[n][e] :
    /\ t.pc = "queued" /\ Unlocked(n)
    /\ \/ ~Current(n, e) /\ Ends(n, e) /\ UNCHANGED sent
       \/ /\ Current(n, e) /\ t.direction = "wake"
          /\ Goes(n, e, "probe") /\ UNCHANGED sent
       \/ Current(n, e) /\ t.direction = "sleep" /\ Sends(n, e, "stopping")
    /\ UNCHANGED <<outside, mem, recon, strikes, budget>>

-----------------------------------------------------------------------------
(* Waking                                                                  *)

(* A provider that answers needs no start; a silent one is evicted.        *)
Probe(n, e) == \E r \in Readings :
    /\ At(n, e, {"probe"})
    /\ IF r = "answered" /\ Answers(n)
       THEN Set(n, e, Available(n)) /\ Ends(n, e) /\ UNCHANGED provider
       ELSE /\ Goes(n, e, "start")
            /\ provider' = IF r = "silent" THEN {} ELSE provider
            /\ UNCHANGED mem
    /\ UNCHANGED <<machine, recon, strikes, started, sent, budget>>

Start(n, e) ==
    /\ At(n, e, {"start"})
    /\ \/ Current(n, e) /\ Sends(n, e, "starting")
       \/ ~Current(n, e) /\ Ends(n, e) /\ UNCHANGED sent
    /\ UNCHANGED <<outside, mem, recon, strikes, budget>>

Started(n, e) ==
    /\ At(n, e, {"starting"})
    /\ machine[n] \in {"started", "stopped"}
    /\ machine' = [machine EXCEPT ![n] = "started"]
    /\ started' = [started EXCEPT ![n] = "confirmed"]
    /\ Goes(n, e, "watch")
    /\ UNCHANGED <<provider, mem, recon, strikes, sent, budget>>

(* A start that fails: its answer is lost, it is refused, limited, or there *)
(* is no such machine.  Only the first two are tried again; what the last   *)
(* one said decides about the power.                                       *)
StartFailure(n, failure) ==
    \/ /\ failure = "lost" /\ Faulty
       /\ \/ UNCHANGED outside
          \/ /\ machine[n] = "stopped"
             /\ machine' = [machine EXCEPT ![n] = "started"]
             /\ started' = [started EXCEPT ![n] = "lost"]
             /\ UNCHANGED provider
    \/ failure \in {"refused", "limited"} /\ Faulty /\ UNCHANGED outside
    \/ /\ \/ failure = "refused" /\ machine[n] = "stopping"
          \/ failure = "missing" /\ machine[n] = "destroyed"
       /\ UNCHANGED <<outside, budget>>

PowerAfter(n, failure, prior) ==
    CASE failure = "missing"               -> FALSE
      [] failure \in {"refused", "limited"} -> prior
      [] OTHER                             -> mem[n].power

StartFails(n, e) == \E t \in task[n][e],
                       failure \in {"lost", "refused", "limited", "missing"} :
    /\ t.pc = "starting"
    /\ StartFailure(n, failure)
    /\ IF failure \in {"lost", "refused"} /\ t.attempt < StartRetries
       THEN /\ task' = [task EXCEPT ![n][e] =
                  {[t EXCEPT !.pc = "start", !.attempt = @ + 1]}]
            /\ UNCHANGED mem
       ELSE /\ Set(n, e, Failed(Over(View(n, "unreachable",
                                  PowerAfter(n, failure, t.prior)))))
            /\ Ends(n, e)
    /\ UNCHANGED <<recon, strikes, sent>>

(* watch_wake: the provider registers, or the deadline passes and a wake    *)
(* that did not produce one is undone.                                     *)
Registered(n, e) ==
    /\ At(n, e, {"watch"}) /\ Current(n, e) /\ Answers(n)
    /\ Set(n, e, Available(n))
    /\ Ends(n, e)
    /\ UNCHANGED <<outside, recon, strikes, sent, budget>>

\* Mutant: the wake that failed stays under way.
DeadlineUnderWay(n, e) ==
    /\ At(n, e, {"watch"}) /\ Current(n, e)
    /\ Set(n, e, Failed(View(n, "unreachable", TRUE)))
    /\ IF KeepFailed THEN Ends(n, e) ELSE Goes(n, e, "giveUp")
    /\ UNCHANGED <<outside, recon, strikes, sent, budget>>

Deadline(n, e) ==
    /\ At(n, e, {"watch"}) /\ Current(n, e)
    /\ Set(n, e, Failed(Over(View(n, "unreachable", TRUE))))
    /\ IF KeepFailed THEN Ends(n, e) ELSE Goes(n, e, "giveUp")
    /\ UNCHANGED <<outside, recon, strikes, sent, budget>>

\* Mutant: the failed wake is undone although something newer was requested.
GiveUpAlways(n, e) ==
    /\ At(n, e, {"giveUp"}) /\ Unlocked(n)
    /\ Sends(n, e, "undoing")
    /\ UNCHANGED <<outside, mem, recon, strikes, budget>>

GiveUp(n, e) ==
    /\ At(n, e, {"giveUp"}) /\ Unlocked(n)
    /\ IF Current(n, e) THEN Goes(n, e, "recheck") ELSE Ends(n, e)
    /\ UNCHANGED <<outside, mem, recon, strikes, sent, budget>>

(* An answer wins even now, and a provider that could not be read does not  *)
(* justify stopping its machine.                                           *)
Recheck(n, e) == \E r \in Readings :
    /\ At(n, e, {"recheck"})
    /\ IF r = "answered" /\ Answers(n)
       THEN Set(n, e, Available(n)) /\ Ends(n, e) /\ UNCHANGED sent
       ELSE /\ IF \/ r = "unavailable" \/ ~Current(n, e)
                  \/ mem[n].state = "available"
               THEN Ends(n, e) /\ UNCHANGED sent
               ELSE Sends(n, e, "undoing")
            /\ UNCHANGED mem
    /\ UNCHANGED <<outside, recon, strikes, budget>>

-----------------------------------------------------------------------------
(* Stopping, for a sleep and for a failed wake                             *)

Stopped(n, e) ==
    /\ At(n, e, {"stopping", "undoing"})
    /\ machine[n] # "destroyed"
    /\ machine' = [machine EXCEPT ![n] = IF @ = "started" THEN "stopping" ELSE @]
    /\ Goes(n, e, IF At(n, e, {"stopping"}) THEN "asleep" ELSE "undone")
    /\ UNCHANGED <<provider, mem, recon, strikes, started, sent, budget>>

StopFails(n, e) ==
    /\ At(n, e, {"stopping", "undoing"})
    /\ \/ /\ Faulty
          /\ \/ UNCHANGED machine
             \/ /\ machine[n] = "started"
                /\ machine' = [machine EXCEPT ![n] = "stopping"]
       \/ machine[n] = "destroyed" /\ UNCHANGED <<machine, budget>>
    /\ LET view == View(n, "unreachable", TRUE)
       IN  Set(n, e, IF At(n, e, {"stopping"}) THEN Over(view) ELSE view)
    /\ Ends(n, e)
    /\ UNCHANGED <<provider, recon, strikes, started, sent>>

(* watch_sleep                                                             *)
Asleep(n, e) ==
    /\ machine[n] = "stopped"
    /\ \/ /\ At(n, e, {"asleep"})
          /\ Set(n, e, [Over(View(n, "stopped", FALSE)) EXCEPT !.slept = TRUE])
       \/ /\ At(n, e, {"undone"})
          /\ Set(n, e, Over(View(n, "unreachable", FALSE)))
    /\ Ends(n, e)
    /\ UNCHANGED <<outside, recon, strikes, sent, budget>>

StaysAwake(n, e) ==
    /\ At(n, e, {"asleep", "undone"})
    /\ \/ Faulty
       \/ machine[n] \in {"started", "destroyed"} /\ UNCHANGED budget
    /\ Set(n, e, Over(View(n, "unreachable", TRUE)))
    /\ Ends(n, e)
    /\ UNCHANGED <<outside, recon, strikes, sent>>

(* superseded: a task that only waits ends at once.                        *)
Superseded(n, e) ==
    /\ At(n, e, Superseding) /\ ~Current(n, e)
    /\ Ends(n, e)
    /\ UNCHANGED <<outside, mem, recon, strikes, sent, budget>>

-----------------------------------------------------------------------------
(* reconcile, one at a time.  A reading that is unavailable ends it and     *)
(* changes nothing.                                                        *)

Evicts(r) == r = "silent" /\ strikes + 1 >= SilentStrikes

NextStrikes(r) == IF r = "silent" /\ ~Evicts(r) THEN strikes + 1 ELSE 0

Reconcile == \E r \in Readings \ {"unavailable"} :
    /\ \A n \in Nodes : recon[n] = {}
    /\ LET quiet == {n \in Nodes : mem[n].direction = "none"}
           up    == {n \in quiet : r = "answered" /\ Answers(n)}
       IN  /\ mem' = [n \in Nodes |->
                CASE n \in up                        -> Available(n)
                  [] n \in (quiet \ up) \ Wakeable -> View(n, "unreachable", mem[n].power)
                  [] OTHER                           -> mem[n]]
           /\ recon' = [n \in Nodes |->
                IF n \in (quiet \cap Wakeable) \ up
                THEN {[epoch |-> mem[n].epoch, sample |-> {}]} ELSE {}]
           /\ strikes' = NextStrikes(r)
           /\ provider' = IF Evicts(r) THEN {} ELSE provider
    /\ UNCHANGED <<machine, task, started, sent, budget>>

\* Cloud::state knows no "stopping".
SamplesOf(n) ==
    CASE machine[n] = "started"  -> {"started", "starting"}
      [] machine[n] = "stopping" -> {"unknown"}
      [] OTHER                   -> {machine[n]}

Sample(n) == \E c \in recon[n] :
    /\ c.sample = {}
    /\ \/ /\ \E s \in SamplesOf(n) :
               recon' = [recon EXCEPT ![n] = {[c EXCEPT !.sample = {s}]}]
          /\ UNCHANGED budget
       \/ /\ recon' = [recon EXCEPT ![n] = {[c EXCEPT !.sample = {"failed"}]}]
          /\ Faulty
    /\ UNCHANGED <<outside, mem, task, strikes, sent>>

\* Mutant: a running machine without a provider is only unreachable.
SeenUnreachable(n, sample) == View(n, "unreachable", mem[n].power)
Seen(n, sample) ==
    CASE sample = "started"   -> View(n, "unreachable", TRUE)
      [] sample = "starting"  -> View(n, "waking", TRUE)
      [] sample = "stopped"   ->
            View(n, IF mem[n].failed THEN "unreachable" ELSE "stopped", FALSE)
      [] sample = "destroyed" -> View(n, "unreachable", FALSE)
      [] OTHER                -> View(n, "unreachable", mem[n].power)

Apply(n) == \E c \in recon[n] : \E s \in c.sample :
    /\ Set(n, c.epoch, Seen(n, s))
    /\ recon' = [recon EXCEPT ![n] = {}]
    /\ UNCHANGED <<outside, task, strikes, sent, budget>>

-----------------------------------------------------------------------------
(* Machines, their providers, and the hub's own restarts                   *)

\* A provider whose machine is gone may stay registered and be silent.
Loses(n) ==
    \/ provider' = {p \in provider : p.node # n}
    \/ provider' = {IF p.node = n THEN [p EXCEPT !.silent = TRUE] ELSE p :
                        p \in provider}

Rests(n, state) ==
    /\ machine' = [machine EXCEPT ![n] = state]
    /\ started' = [started EXCEPT ![n] = "no"]
    /\ Loses(n)
    /\ UNCHANGED <<mem, task, recon, strikes, sent>>

MachineStops(n) == /\ machine[n] = "stopping"
                   /\ Rests(n, "stopped") /\ UNCHANGED budget
MachineCrashes(n) == machine[n] = "started" /\ Rests(n, "stopped") /\ Moves
Destroyed(n) == machine[n] # "destroyed" /\ Rests(n, "destroyed") /\ Moves

\* Somebody else starts the machine.
StartedElsewhere(n) ==
    /\ machine[n] = "stopped" /\ Moves
    /\ machine' = [machine EXCEPT ![n] = "started"]
    /\ UNCHANGED <<provider, mem, task, recon, strikes, started, sent>>

Registers(n) ==
    /\ machine[n] = "started"
    /\ \A p \in provider : p.node = n /\ p.silent
    /\ provider' = {[node |-> n, silent |-> FALSE]}
    /\ strikes' = 0
    /\ UNCHANGED <<machine, mem, task, recon, started, sent, budget>>

FallsSilent == \E p \in provider :
    /\ ~p.silent /\ Moves
    /\ provider' \in {{}, {[p EXCEPT !.silent = TRUE]}}
    /\ UNCHANGED <<machine, mem, task, recon, strikes, started, sent>>

\* What a command that is cut off may have done.
CutOff(n) ==
    {machine[n]}
    \cup {m \in {"started"} : /\ machine[n] = "stopped"
                              /\ \E e \in Epochs : At(n, e, {"starting"})}
    \cup {m \in {"stopping"} : /\ machine[n] = "started"
                               /\ \E e \in Epochs : At(n, e, {"stopping", "undoing"})}

(* close and the next run of the hub: nothing is kept.                     *)
Restart ==
    /\ budget.restarts > 0
    /\ budget' = [budget EXCEPT !.restarts = @ - 1]
    /\ machine' \in {m \in [Nodes -> {"started", "stopping", "stopped", "destroyed"}] :
                        \A n \in Nodes : m[n] \in CutOff(n)}
    /\ started' = [n \in Nodes |-> "no"]
    /\ provider' = {}
    /\ mem' = [n \in Nodes |-> Fresh]
    /\ task' = NoTasks
    /\ recon' = [n \in Nodes |-> {}]
    /\ strikes' = 0
    /\ sent' = [n \in Nodes |-> 0]

-----------------------------------------------------------------------------
Task(n, e) ==
    \/ Turn(n, e) \/ Probe(n, e) \/ Start(n, e) \/ Started(n, e)
    \/ StartFails(n, e) \/ Registered(n, e) \/ Deadline(n, e) \/ GiveUp(n, e)
    \/ Recheck(n, e) \/ Stopped(n, e) \/ StopFails(n, e) \/ Asleep(n, e)
    \/ StaysAwake(n, e) \/ Superseded(n, e)

World(n) == \/ MachineStops(n) \/ MachineCrashes(n) \/ Destroyed(n)
            \/ StartedElsewhere(n) \/ Registers(n)

Next ==
    \/ \E n \in Nodes :
         \/ \E d \in {"wake", "sleep"} : Request(n, d)
         \/ \E e \in Epochs : Task(n, e)
         \/ Sample(n) \/ Apply(n) \/ World(n)
    \/ Reconcile \/ FallsSilent \/ Restart

Spec == Init /\ [][Next]_vars

(* Every await of a task and of the reconciliation has a timeout, the       *)
(* reconciliation comes every 30 seconds and its reading is available again *)
(* and again, and a machine told to stop stops.                            *)
FairSpec ==
    /\ Spec
    /\ WF_vars(Reconcile)
    /\ \A n \in Nodes :
         /\ WF_vars(Sample(n)) /\ WF_vars(Apply(n)) /\ WF_vars(MachineStops(n))
         /\ \A e \in Epochs : WF_vars(Task(n, e))

-----------------------------------------------------------------------------
(* Properties                                                              *)

(* At most one power command of a node is on its way, whatever is requested *)
(* meanwhile and although failed wakes stop the machine on their own        *)
(* (supervisor.rs action, watch_wake: the action lock).                    *)
OneCommand ==
    \A n \in Nodes : Cardinality({e \in Epochs : At(n, e, Commanding)}) <= 1

(* Commands reach the cloud in the order of the requests they serve: a task *)
(* that was superseded never stops or starts what a newer one controls      *)
(* (supervisor.rs current, superseded).                                    *)
CommandsInOrder ==
    [][\A n \in Nodes : sent'[n] < sent[n] => budget'.restarts < budget.restarts]_vars

(* A request that is under way shows: no late result of an older task or of *)
(* a reconciliation overwrites it (supervisor.rs set).                     *)
RequestStands ==
    \A n \in Nodes : mem[n].direction # "none" =>
        /\ mem[n].power
        /\ mem[n].state = IF mem[n].direction = "wake" THEN "waking" ELSE "stopping"

(* A machine that a confirmed start of this hub keeps running is never      *)
(* shown as off, since "one field, read verbatim" decides about the stop    *)
(* button (supervisor.rs set, reconcile; remoteNodes.ts).                  *)
PowerIsAdmitted ==
    \A n \in Nodes : started[n] = "confirmed" => mem[n].power

(* The view keeps what is known for certain against results that come late. *)
ViewIsCurrent == TypeOK /\ RequestStands /\ PowerIsAdmitted

(* Every request comes to an end, however many supersede it.               *)
RequestEnds == \A n \in Nodes : []<>(mem[n].direction = "none")

(* A running machine that is shown as off does not stay so: the             *)
(* reconciliation finds it (supervisor.rs reconcile).                      *)
ViewHeals ==
    \A n \in Wakeable : []<>~(machine[n] = "started" /\ ~mem[n].power)

=============================================================================

# TLA+ models of the Workspacer hub

Workspacer runs a fleet of long-lived coding agents. Its hub
(`src/services/hub-rs`) is the process that accepts work for them, delivers
messages to them and dispatches workers to other machines. What is hard in the
hub is the same everywhere: something is handed to an agent, and then a crash, a
lost answer, a timeout or a full disk leaves it open whether it arrived. These
models are about that.

`H` below is `src/services/hub-rs/src`, `S` is `H/services`.

## 1. The system

| Part | State it keeps | Operations | Talks to | Hard behaviour | What makes it correct |
|---|---|---|---|---|---|
| message queue (`S/message_queue.rs`, `S/sessions/queue.rs`) | queues, turn watches, receipts in memory; one JSON document for all sessions | add, update, remove, move, clear, resume, send-now; auto-flush, settle, confirm, prune, open | session rows, session engine (claudemon), broker | crash during a send, refused writes, send-now against the worker, calls cut off, receipts out of order | at most once, nothing lost silently, unknown outcomes surfaced, limits, progress |
| remote dispatch (`S/remote_dispatch/`) | origin journal, receiver journal, wake signatures | dispatch, prepare, spawn, attach, report, replay, deliver, acknowledge, reconcile, sweep, evict | two hubs over the federation link, engine on both sides | lost and repeated calls, late answers, crash of either hub, lease expiry, full journals | one worker per dispatch, each update told once and in order, no result dropped |
| host work queue (`S/work_queue.rs`) | queue file, slots, resource gate, watches of started agents | submit, cancel, configure, admit, start, attach, watch, re-check, finish, recover | jobs, engine, peers | crash while an item runs, gate against admission, rows lost before a watch is armed | never run twice, slots neither leaked nor exceeded |
| scheduled jobs (`S/jobs.rs`) | specification file, next runs, runs under way | upsert, propose, approve, remove, run, due, execute, reload | work queues here and on peers | edits by hand, restarts and removals while a job runs; answers of a peer lost | a once trigger fires once, nothing unapproved runs, runs do not overlap |
| nodes supervisor (`S/nodes/supervisor.rs`) | view, epoch and task of each cloud machine | wake, sleep, reconcile | cloud API, provider relay | requests that supersede each other while calls are awaited; machines that move by themselves | one command at a time, in order; a running machine is shown as such |
| agent lifecycle (`S/agent_lifecycle.rs`, `S/session_facade.rs`) | launch journal with generations, credential store | launch, close, reconcile, shut down | engine, workflows | lost spawn answers, late processes, refused revocations, crash between two steps | no credential without a record, no teardown of an answered launch, safe release |
| manager replacements (`S/manager_replacements*`) | handoff entry, held messages, signatures | start, cancel, bind, reconcile, resolve, restart | task store, wakes, engine, desktop client | succession while messages and wakes are under way | nothing replayed, nothing lost, no message to a retired manager |
| wakes (`S/wakes.rs`) | pending finish and block wakes | observe, schedule, deliver, flush, recover, backstop | session rows, replacements | a finish during a succession | each finish is told, or on record |
| manager requests (`S/manager_requests.rs`) | inbox behind the reply cards | ask, answer | replacements | entries across a succession | no request lost |
| task store (`S/task_store.rs`) | tasks, requests, reservations | transaction, reserve, release | workflows, replacements | several processes, one file | authorization re-checked after reload |
| quiescence (`S/quiescence.rs`) | evidence that the fleet rests | evaluate, observe | session rows | stale evidence | rest is claimed only on fresh evidence |
| session marks (`S/session_seen.rs`, `thresholds.rs`, `progress.rs`) | small per-session marks | observe, mark | session rows | order of observations | a mark per turn end |
| session projection (`S/sessions.rs`) | rows of all sessions | refresh, seed, publish, close | claudemon | events against seeds | rows follow the engine |
| bus broker (`H/runtime.rs`) | clients, calls in flight | call, publish, time out | everything | handlers dropped at their budget | every caller is answered |
| federation (`H/federation.rs`) | links to peers | connect, forward, relay events | other hubs | links come and go | nothing is submitted twice |
| claudemon, clients, MCP server, plugins, provider relay, vendored code, deployment | | | | | external or user interface |

`PROJECT.json` lists the parts with their sources and status, and the hazards,
each at the line where it bites.

## 2. Modules and plan

| Module | Models | Instantiated by |
|---|---|---|
| `TurnWatch`, `MessageQueue` | the turn watch; the queue, its calls, its worker, its document | `MCMessageQueue` |
| `MessageQueueProofs` | type correctness, delivery at most once, nothing lost silently, true confirmations, what a restart surfaces, the limits of a session | |
| `DispatchPromise` | what paired dispatch promises a manager, abstractly | |
| `RemoteDispatch` | both hubs and the link; implements `DispatchPromise` | `MCRemoteDispatch` |
| `RemoteDispatchProofs` | type correctness, told-once, work retained, sessions agree, the refinement of `DispatchPromise` | |
| `WorkQueue` | the queue of one host | `MCWorkQueue` |
| `WorkQueueProofs` | slots, order of admission, at-most-once, nothing lost | |
| `Jobs` | the scheduler, with the work queues as it sees them | `MCJobs` |
| `JobsProofs` | the timetable, no overlap, approval, once triggers, the owner's word | |
| `Nodes` | wake, sleep and reconciliation of cloud machines | `MCNodes` |
| `NodesProofs` | one command, in order; a view that is current | |
| `AgentLifecycle` | launches and their credentials | `MCAgentLifecycle` |
| `AgentLifecycleProofs` | type correctness and the three safety invariants | |
| `ManagerReplacement` | a handoff together with the finish wakes of a worker | `MCManagerReplacement` |
| `ManagerReplacementProofs` | type correctness, nothing lost, nothing replayed | |
| `ManagerReplacementOrderProofs` | the old manager not told after the commitment, completion on a settled journal | |

In every module a property whose facets are only interesting together is a
conjunction of named parts (`SlotsAccounted == TypeOK /\ SlotsBounded /\ ...`).

Still to do, most important first:

1. Wakes on their own: the backstop, the catch-up scan, blocked and remote wakes,
   and `Origin::reparent` with a recipient that fails at every tick.
2. A chain of several handoffs, with manual reparenting and its redirects.
3. Document writes abandoned by a dropped handler, with the broker's budget.
4. The task store with several processes on one file.
5. `Quiescence` and the session marks: smaller observers.

## 3. The message queue

### State and steps

| Model | Code |
|---|---|
| `state`, `records` | `Queues::state`: queue of a session; sessions that have a record |
| `turns`, `delivered` | turn watches; uuids the latest row reports as read |
| `disk` | the persisted document (`Queues::document`, `Queues::open`) |
| `rows` | the hub's session rows: readiness, prompt count, read receipts |
| `task[s]` | the delivery that holds the lock of `s` between two steps: "picked" between `wants_flush` and the take, "sending" while the send is awaited |
| `attempts` | external: what the engine did with each uuid |
| `minted`, `discarded`, `reported`, `replaced` | history: ids handed out, dropped by a client, shown as `queueUncertain`, overwritten in flight by a second send-now |

`QueueAdd` to `QueueClear` are the calls of `queue_call`, each one step under the
session lock because it holds the lock for one document write. `Transact` persists
first and commits then; `Commit` commits first and persists if it can. A delivery
is three steps: `FlushQueue` (receipt confirmation, decision), `FlushTake` (out of
the queue, in flight, persisted, handed over) and one of `SettleSent`,
`SettleRejected`, `SettleUncertain`; a send-now starts at the second. Between them
come rows (`Snapshot`, `Vanish`, `Tick`), `Close` and `Prune` (which take no
session lock), the engine, other sessions, the broker's `CallTimeout` and `Restart`.

Abstractions: a text is its byte length; the error text is left out because it is
set and cleared together with `paused`; the stale clock is off, fresh or stale; a
confirm and the decision that follows it are one step, and so are a stored row and
its observation, and a send-now and its read of the row. The wake-up kicks of the
worker are left out since the two-second tick observes the same rows. A document
that cannot be parsed, and a document write that survives its dropped handler, are
not modelled; nor is the gap between the inventory `prune_queues` reads and the
lock it takes.

### Runs

| Run | Properties | Bounds |
|---|---|---|
| `delivery` | `TypeOK`, `AtMostOnce`, `ConfirmedWasTaken`, `NoSilentLoss`, `RestartSurfaces` | one session, 2 entries, 3 attempts, one crash, one refused write, one cut-off call, two send-nows |
| `progress` | `SessionLimits`, `EventuallySent` | one session, a queue of one entry, 2 attempts, all five readiness classes, prompts 0..1, no send-now, fairness |

Two entries and three attempts are enough for the second attempt of an entry
(after a refusal), for a second entry queued behind it and for an attempt after a
restart. A queue of one entry makes every refused entry come back to a queue that a
client may have wanted to fill meanwhile. A second session matters only through the
shared document and the total limit; the proofs below cover any number. Entries,
uuids and sessions are interchangeable, so symmetry is used in the safety run, never
under fairness. Deadlock is checked in both.

Fairness of `FairSpec`: `run_queue` observes every session with entries every two
seconds (`Tick`), time passes (`StaleElapses`), the worker's tasks run on
(`FlushQueue`, `FlushTake`), and a send ends because the engine client gives up
after `COMMAND_TIMEOUT` (`Settles`). Nothing is assumed of clients, the engine or
rows. `EventuallySent` excuses a queue whose attempt uuids are used up, which is
the model's bound; with two attempts both "first send" and "next after a watched
turn" happen within it.

### Proof

`MessageQueueProofs` proves, for all sets of sessions, ids, uuids and all bounds,

- `TypeCorrect`: `Spec => []TypeOK`;
- `DeliveredAtMostOnce`: `Spec => []AtMostOnce`.

`AtMostOnce` is not inductive: a step that takes an entry must know that earlier
attempts of it were refused. `IInv` says so for every place an entry can come from:
`Sound(state, ..)` - an id is queued at most once, in one session, was minted, and
all its attempts were refused; `Sound(disk.queues, ..)` - the same of the document,
because a restart continues from there and the document may be older than memory;
`FlightsSound` - an entry whose send is awaited is queued nowhere, in memory or on
disk, and has no other attempt that may have arrived; `AttemptsMinted` - an attempt
belongs to a minted id, so a new entry has none. The interesting cases are a
rejected entry put back (its attempt is refused by then), a drop of the queue during
a send, and a restart from a document whose last write failed. The assumptions are
those named in the module: texts are positive lengths and bounds are naturals.

On top of it are proved, under the same assumptions,

- `NothingVanishes`: `Spec => []NoSilentLoss`;
- `ConfirmationsAreTrue`: `Spec => []ConfirmedWasTaken`;
- `RestartReports`: `Spec => RestartSurfaces`;
- `SessionsStayLimited`: `Spec => []SessionLimits`.

The invariant of the first three, `LossInv`, says the same things of memory and of
the document, for the same reason: `Kept` - an id that nobody was told about is in some queue, in flight or
was taken; `Honest` - confirmations, reports and records in flight name attempts that
exist, and a confirmed one was taken. Four facts tie the two together: `RecordsCover`
(a session without a record has nothing, so writing only the records loses nothing),
`FlightsPersisted` (a record in flight in memory is on disk too: it is set by
`Transact` only, which is why a restart surfaces it although later writes failed),
`FlightsOwned` (a record in flight belongs to the delivery that holds the lock, or to
one whose handler was dropped) and `ReceiptsTrue` (the engine reports as read what it
took). The proof attempt refuted the property as it stood: a call cut off by the broker
leaves its record, and a second send-now writes its own over it. TLC shows it with two
send-nows; the entry is then the one case `NoSilentLoss` excepts (section 10).

`SessionLimits` needs two things. The first is what a session's bytes are after a
queue changed: `Bytes` folds over the places of a queue in an unspecified order, so
the laws a call relies on (an added text counts on top, a removed or edited one no
longer, moving one changes nothing) have to be proved of the fold. `SumsExist` and
`SumsLaw` show that the recursive function inside the fold exists, `SumCounts` that
any place may be counted first, `SumMoves` that renaming places changes no sum; each
goes by the least counterexample, since the library's induction theorems cannot be
used (section 11). `WeightAppended`, `WeightRemoved`, `WeightInserted` and
`WeightUpdated` are what the calls need. The second is `RoomKept`: the entry a
delivery took out fits in again for as long as that delivery may put it back. It holds
because the delivery keeps the session's lock, so no client call comes between; what
takes no lock (closing, pruning) only empties. `LimitsInv` adds that the document is
within the limits too, since a restart continues from it. TLC had checked `LimitsInv`
with texts of two lengths first. Nothing of the kind holds of `MAX_TOTAL_BYTES`, which
other sessions use up meanwhile (section 10).

## 4. Paired dispatch

### State and steps

| Model | Code |
|---|---|
| `origin` | the origin's journal: state, session, `acked_seq`, `delivering_seq`, `last_update` |
| `forward` | where `forward_booked` awaits: the prepare or the spawn call |
| `observer` | the update in `accept_and_deliver`, and how far it got |
| `signature` | the wake signature a booked dispatch has on record (`record_signature`, durable) |
| `receiver` | the receiver's journal with its lease |
| `allocating`, `launching` | a worktree allocation under the operations lock; engine spawns awaited |
| `calls`, `updates` | external: what is on the federation link |
| `launches`, `wakes`, `finals`, `claims` | history: workers started, updates the owner's engine took, final reports, leases claimed |

A journal change is persisted before it is made in memory (`Journal::change`), so a
journal step is atomic and journals survive `OriginCrash` and `ReceiverCrash`; a
refused write is a call that fails. The receiver's handlers run in tasks of their
own (`tokio::spawn`), so a caller's timeout does not stop them: `ForwardFails` only
forgets the caller. One observer task handles events and reconciles, hence
`observer` holds at most one update; `MarkDelivering`, `Deliver`, `RecordSignature`
and `Acknowledge` are its steps with a possible crash or failure between any two.

Abstractions: time is whether a lease has expired; payloads, notes and provider
probing are left out; a session is named by the number of the claim that created
it; both sides of a link are one set, so messages overtake each other more freely
than on a socket; the origin does not wait for the answer to a replay call, which
gives more interleavings than the code has. An acknowledgement is repeated at every
reconciliation and renews its time, so any acknowledged row may be the one a full
receiver drops. Legacy journals, reparenting and shutdown are left out.

### Runs

| Run | Properties | Bounds |
|---|---|---|
| `promise` | `TypeOK`, `ToldOnce`, `SessionsAgree`, `ImplementsPromise`, `ResultArrives` | one dispatch, two updates, one crash, loss, repeated call and failed delivery, fairness |
| `journals` | `WorkRetained`, `ImplementsPromise` | two dispatches, one update each, journals of one row, one crash, one repeated call |

`ImplementsPromise` is the refinement: `DispatchPromise` with `told` mapped to the
sequence numbers the owner's engine took and `closed` to the dispatches whose final
report is among them. Two updates allow an interrupted update and a final one that
overtakes it. Journals of one row make every second dispatch meet a
full journal at both hubs.

One limit is essential. Both hubs forget a dispatch id when they evict its row, so
a repeated prepare *and* a repeated spawn that are both delayed past the
acknowledgement and the eviction would be admitted as a new dispatch: with
`MaxRepeats = 2` TLC refutes `ImplementsPromise` on the instance of `journals`. The
link repeats one call (`MaxRepeats = 1`); the federation client itself repeats none.

Fairness of `FairSpec`: the observer's loop runs on, it reconciles open rows every
five seconds while the peer is connected, and a call or event the link does not lose
is handled. Nothing is assumed of workers, leases or the forwarding call.
`ResultArrives` excuses an interrupted delivery: the code keeps it unknown on
purpose, rather than wake a manager twice.

### Proof

`RemoteDispatchProofs` proves, for every finite set of dispatches and all journal
sizes and bounds,

- `DispatchTypeCorrect`: `Spec => []TypeOK`;
- `DispatchToldOnce`: `Spec => []ToldOnce` - an owner is told no update twice and
  none after a newer one. It needs no bound on repeats: it is the origin's own doing.

`ToldOnce` becomes inductive with `DeliveryInv`: `RowsBound` - everything told is at
most `acked_seq`, or at most `delivering_seq` if that is set, which is newer than
`acked_seq`; `WorkCurrent` - the observer works on an update newer than all
acknowledged ones, for a row that is still open and whose `delivering_seq` is its
own once it is marked; `IdleUntold` - a dispatch not yet journaled has no row and
told nothing. Eviction keeps `WorkCurrent` because it takes done rows only; a crash
keeps `RowsBound` because the intent is journaled before the engine is called. The
assumptions are a finite set of dispatches and natural bounds.

For a link that repeats at most one call (`RepeatsOneCall == MaxRepeats <= 1`, which
the limit above makes necessary) it also proves

- `DispatchRetainsWork`: `Spec => []WorkRetained`;
- `DispatchSessionsAgree`: `Spec => []SessionsAgree`;
- `DispatchKeepsPromise`: `Spec => ImplementsPromise`, the refinement.

All three follow from `PairInv`. Its parts are `AdmitOnce` - a dispatch is claimed at
most once, because once it is, a lease and a spawn call never meet again: the one
repeat leaves either a prepare or a spawn call behind, never both, and before it is
used neither is left; `LaunchSound` - no worker without a claim, nothing heard before
the launch; `RowsSound` - a claimed row stays until the origin is done with the
dispatch (`Settled`), the origin is done only when the owner was told the result, and
only a settled dispatch is acknowledged, so only such a row is evicted;
`UpdatesSound` - every update on the link, in a journal or under way was reported by
the one worker, and is final exactly if it carries the number of the final report;
`ToldSound` - a signature or a delivery past the engine stands for a wake the owner
took, and a replay call that acknowledges names the final report. The refinement maps
a launch to `Launch`, a delivery that reaches the engine to `Tell`, and everything
else to a stutter; the one step that could break the mapping besides is a final
report, which must not make an old wake look final: its number is new.

`SessionsAgree` was first stated of every row. That is false: a prepare call repeated
after the receiver evicted the acknowledged row opens a lease nobody will use, while
the origin's row of the dispatch is done and names the old worker. TLC finds it with
two rows at the origin and one at the receiver. The property now speaks of open rows
and claimed leases; the stray lease is swept when it expires.

## 5. The host work queue

| Model | Code |
|---|---|
| `items`, `disk` | `State::items` and the queue file (`Write`, `WriteFails`) |
| `watches` | `State::watches`: a running agent whose session is known, with its strikes |
| `limits`, `gate`, `pass` | configuration, latest sample of the resource monitor, and what an admission pass has read of both |
| `task` | the task of a started item: about to launch, executing, between attach and watch |
| `agent`, `rows` | external: the session an item started; its rows not handled yet |
| `launches`, `accepted`, `revoked`, `settled`, `peak` | history |

`PassBegins` reads limits and gate and `Admit` plans and persists under the lock, so
a changed limit or gate falls between them. `Launch`, `TaskEnds`, `Attach` and `Arm`
are the steps of an item's task; `Observe` handles one row, `Recheck*` one timer. A
refused write rolls an admission back (`RolledBack`) but lets a release stand.
Abstractions: done and failed are one state; a wait reason is the gate or the slots;
routing and forwarding to a peer are left out.

| Run | Properties | Bounds |
|---|---|---|
| `admission` | `StartsOnce`, `AcceptedSurvives`, `SlotsAccounted`, `AdmitsInOrder` | two items, two priorities, two settings of the limits, both gate states, one retained terminal item, one crash, one refused write |
| `slots` | `SlotComesBack`, `EventuallyStarts` | two items, no slot for scripts, one failed snapshot call, one row under way, one lag of the subscription, fairness |

`SlotsAccounted` says that types hold, that no kind exceeds the most slots the owner
ever allowed, and that a held slot has exactly one releaser: its task or its watch.
Two items are what order, overtaking and one slot need; one crash covers "running"
becoming "unknown". Fairness: the loop's timers fire, tasks run on (a script is
killed at its timeout), and an agent's turn ends; nothing of clients or the gate.

### Proof

`WorkQueueProofs` proves the four properties of `admission` for every finite set of
items, all limits, priorities and bounds: `NeverStartsTwice`, `AcceptedIsNotLost`,
`SlotsAreAccounted` and `AdmissionInOrder`. The assumptions are those of `WorkQueue`:
ids are a finite set of naturals, priorities integers, limits and bounds naturals.

The inductive invariant `Inv` adds two parts to the checked ones. `Once`: what is
queued in memory or on disk, and what a task is about to launch, has not been
launched, is accepted and is not revoked; and a queued item has no task about to
launch it. The disk counts because a restart queues what it finds there. `Allowed`:
the limits in force, and those a pass has read before the owner changed them, were
allowed at some time.

Admission rests on lemmas about `plan`: `StartsClosed` - whoever precedes an item
that starts also starts, since what is ahead of it is contained in what is ahead of
the other - and `StartsFit` - the slots suffice, since the last item to start counts
all the others as ahead of it. `StatesKept` and `EndsInv` serve all steps that change
no state, or end one item; `AdmissionInOrder` follows because no other step than an
admission makes a queued item run.

## 6. Scheduled jobs

| Model | Code |
|---|---|
| `mem`, `file` | `State` (jobs, next runs, what was last read) and the specification file with its modification time |
| `running`, `queued`, `chan`, `runs` | jobs marked running, the host of the item last submitted, manual runs on their way, runs under way |
| `items` | external: items of jobs in the work queues, and whether the hub learned of them |
| `armed`, `fired`, `on`, `approved`, `launched`, `strayed` | history |

Every call reloads a changed file first (`Reloaded`), as `Due` does at each tick. A
run is `Take`, `Perform`, then for a queued job `ReadLast`, `Check` and `Submit` or
`SubmitUnknown` (the peer accepted, the answer was lost), then `Finish`. Left out are
the rows of the history, the context steps and their guards (a run may end at any
point), and the wall-clock rule of a daily trigger, which reads as an interval.

| Run | Properties | Bounds |
|---|---|---|
| `job_calls` | `OnceFires`, `OwnerDecides` | two jobs, two actions, inline, 3 calls of the owner, one open proposal, time up to 2, one restart |
| `job_runs` | `NeverOverlaps`, `ScheduledIffArmed`, `OnceEventuallyFires` | one job on this host or a peer, 2 items, one call, one hand edit, one refused write, one restart, fairness |

`NeverOverlaps` counts items the hub was told of; an item whose submission was
accepted by a peer but never answered is not known (section 10). Fairness: ticks,
time, and runs, which end within their budget of fifteen minutes.

### Proof

`JobsProofs` proves every safety property of the two runs for all job ids, actions,
triggers, hosts, starting files and bounds, in layers that rest on each other:

- `JobsTypeCorrect` and `TimetableFollows` (`[]ScheduledIffArmed`). The invariant
  `TimedInv` is `TypeOK`, `Timely(mem)` and `Submitting` (a run that asks for or
  submits an item is not one of an inline job: what makes `Submit` well typed). A
  reload keeps next runs of rows whose arming and trigger stay, and reschedules the
  rest (`ReloadFacts`); each call is one of four shapes that write a state which is
  timely again (`WriteShape`, `ApproveShape`, `RemoveShape`), whether or not the write
  is refused (`PersistFacts`).
- `JobsNeverOverlap` (`[]NeverOverlaps`). `KnownItemsAlone` is not inductive: a run
  that was found clear submits later. `OverlapInv` adds what joins the check to the
  submission: a job is idle, has one manual run on its way, or one run under way
  (`OneRun`); a known item on the peer is the one the job remembers
  (`PeerRemembered`); a run that asks asks the peer if a known item is there, and for
  a run that is clear no item of the job is known (`Asked`). No new item can appear
  between the check and the submission because only that one run could submit it.
- `OnlyApprovedRuns` (`[]ApprovedOnly`). `ApprovedInv`: every row in memory and in the
  file that is not a proposal, and every job on its way or under way, has an approved
  action. No hypothesis: it holds through hand edits and refused writes.
- `OnceFiresOnce` (`[]OnceFires`), under `WritesSucceed` (`MaxWriteFailures = 0`).
  `OnceInv`: an armed once trigger in memory or in the file has fired less often than
  it was armed. The hypothesis is needed: `persist` only logs a refused write, so a
  trigger that fired is still armed in the file and fires again after a restart (TLC
  shows it on the instance of `job_calls` with one refused write).
- `OwnersWord` (`[]OwnerDecides`), under `WritesSucceed` and `NoHandEdits`
  (`MaxEdits = 0`). `OwnInv`: the file is readable and holds what the hub knows, and
  every row that is switched on is one the owner left on. Both hypotheses are needed,
  as TLC shows on the same instance: a refused write loses what the owner switched
  off at the next restart, and an edit that switches a job off within the resolution
  of the file's modification time of the last reading, and that no tick sees while the
  file still counts as unsettled, is taken for the file already read.

`ApprovedOnly` alone, the half of `OwnerDecides` about agents, needs neither.
`OnceEventuallyFires` is liveness and stays with TLC.

## 7. Nodes

| Model | Code |
|---|---|
| `machine`, `provider` | external: the machines; the provider that is registered and where it runs |
| `mem` | `Memory` of a node: view, epoch, direction |
| `task` | the task of each accepted request, by epoch, with the await it is at |
| `recon`, `strikes` | cloud reads of a reconciliation under way; silent readings in a row |
| `started`, `sent` | history: how a start that still holds was answered; epoch of the last command |

A request gets a new epoch and a task; the tasks of a node take turns by its action
lock (`Turn`), probe, start with retries, wait for the provider, and give the wake up
when the deadline passes (`GiveUp`, `Recheck`, stop). A result of an older epoch is
not written (`Set`). `Reconcile` reads the provider and opens a cloud read per node,
`Sample` is its answer and `Apply` its effect, with requests in between.

Abstractions: a command takes effect when it is answered, and one whose answer is
lost took effect by then or never will; the provider is named by the node it runs on,
though the hub cannot always tell; times, wordings and the restart record of a
provider are left out; a registry of more than eight nodes, reconciled in groups, is
not modelled.

| Run | Properties | Bounds |
|---|---|---|
| `power` | `OneCommand`, `ViewIsCurrent`, `CommandsInOrder`, `RequestEnds`, `ViewHeals` | one node, 2 requests, one retry, 2 strikes, one failing call, one move, one restart, fairness |

Nodes share only the provider, and two requests are the least that supersede each
other. The same properties also hold with two nodes without a restart and with three
requests for one node; those instances take longer and are not kept as runs.
Fairness: the reconciliation comes every 30 seconds, every await has a timeout, and a
machine told to stop stops.

### Proof

`NodesProofs` proves `OneCommand`, `ViewIsCurrent` and `CommandsInOrder` for any
registry of one to eight nodes, with up to three start retries and any other limits
and bounds (`NodesAssumption`, `LimitsAssumption`, `NodeBoundsAssumption`). The
inductive invariant speaks of one node at a time, since a step either belongs to one
node (`OneNode`) or changes nodes at rest only (`RestStep`):

- `Turns`, `Past`: one task holds the lock; tasks, readings and commands carry epochs
  that were given out. The order of commands follows: only the current task sends,
  and its epoch is the largest there is.
- `Directed`, `Waking`: the direction says whether the latest request is under way.
  While an older start may still be confirmed the newest request waits for the lock,
  and it found the power on; so a confirmed start meets a view that shows power.
- `Prior`: a wake that remembers "power off", to fall back on when it fails, comes
  after no confirmed start. `PowerIsAdmitted` alone is not inductive without it: the
  failure would write an "off" remembered from before that start.
- `Reading`, `Running`: a cloud reading that still counts was made for a node at rest,
  and says "off" only if no confirmed start holds, because a start holds only while
  the machine is up or going down, and nothing starts between reading and applying
  without a newer epoch.

`EndInv` and `MoveInv` serve the steps by which a task ends or moves, `ResultInv` those
that write a view.

## 8. Agent lifecycle

| Model | Code |
|---|---|
| `live`, `dying`, `late` | external: the engine's processes by generation, those told to stop, spawn commands nobody waits for |
| `row` | the launch record: generation, phase, pending cleanup, receipt, attempted, rejected |
| `token` | the store of per-session credentials |
| `op` | the operation that holds the operations lock, and the await it is at |
| `acked` | history: the launch answered as running |

A launch is `Launch`, `Admit`, `Prepare` (credential, then "attempted"), the spawn
(`Spawned`, `Rejected`, `SpawnLost`), the first message, and on failure `StopEngine`
and `CleanUp`. `Reconcile` takes the inventory, revokes what is owed, settles the
rows and sweeps the store. `Close` stops a session and revokes its credentials. A
journal write persists before it commits, so `row` is memory and file at once. The
engine runs in the hub's process: a restart ends all processes.

Left out: `stopped()`, which no production code calls; metadata written by binding,
labels, live control and reparenting, which is no launch state; sessions without a
credential.

| Run | Properties | Bounds |
|---|---|---|
| `credentials` | `TypeOK`, `CredentialIsRecorded`, `AnsweredIsKept`, `ReleaseIsSafe`, `Recovers` | two sessions, 2 launches each, 2 failures, one exit, one restart, fairness |

Two launches of a session let an older process meet a newer record; two sessions let
a reconciliation act on one while it skips the other. Fairness: every await of the
held operation has a timeout, the lock is fair so the reconciliation gets its turn
(strong fairness), processes told to stop end, commands are carried out or given up.

### Proof

`AgentLifecycleProofs` proves, for every set of sessions and all bounds,
`TypeCorrect`, `CredentialsRecorded`, `AnsweredKept` and `ReleaseSafe`; the only
assumption is that the bounds are naturals. The inductive invariant `Inv` adds to
`CredentialIsRecorded` and `AnsweredIsKept`: `Launching` - what a launch at each of
its awaits has on record (a spawn is awaited only with a credential, an attempt and
pending cleanup on record), which a failure at that await relies on; `Reconciling` -
a reconciliation past its inventory counted every answered live launch as active and
owes nothing to an active one, so what it revokes later is not an answered launch's;
`Ran` - every process and every late command belongs to a generation no newer than
the record, and if to the recorded one, that was attempted and not refused.
`ReleaseIsSafe` follows from `Ran`. The lock enters through `TypeOK`: `op` has at most
one element.

## 9. Manager replacements and finish wakes

| Model | Code |
|---|---|
| `op`, `signature`, `tasks` | the handoff's journal entry (phase, intent, commit, bind, deliveries, recorded completion), the durable signature of a worker, the owner in the task store |
| `frames` | the handoff task and the client request under way, each with the await it is at |
| `flights` | `MessageTracker`: sends that are awaited |
| `groups`, `wakes`, `marks` | `Wakes`: scheduled finishes, the delivery under way, signature and finish remembered |
| `worker`, `process`, `late`, `fenced` | external: the worker's row, the managers' processes, a late spawn; the service that did not come up |
| `taken`, `allowed`, `promised`, `cancelled` | history |

The task runs `Ready`, `Brief`, `Receipt`, `Validated`, `Spawn`, `Check`, `Intend`,
`Adopt`, `Commit`, waits for `Bind`, then `Activate`, `KicksOff`, `Drain`, `Evidence`,
`Finish`; every await may fail (`Fault`). `Cancel`, `Reconcile` and `Resolve` are the
owner's requests. Messages are held, redirected or sent (`Send`), and a wake is
captured, recorded and sent (`WakeBegins` to `WakeSent`) while the handoff moves on.

| Run | Properties | Bounds |
|---|---|---|
| `handoff` | `NoReplay`, `NothingIsLost`, `OldNotTold`, `CompletesWhole`, `HandoffEnds` | one handoff, one client message, one turn, one request, one fault, one restart, fairness |
| `finding_cancel` | `OldRetained` (refuted) | the same without a restart |

`NothingIsLost` says that types hold, that a message whose sender was told it is
taken reached an agent or is on record, and that a turn only counts as reported when
its report did or is. `OldNotTold`, `CompletesWhole` and `HandoffEnds` excuse
handoffs in which a cancel was carried out, because of section 10. One of each event
is enough for every pair of them to meet. The runs do not check deadlock: a handoff
that is over leaves nothing to do. Fairness is only that some step of the hub - its
task, a request, an awaited send, a bind the client repeats, a wake - is taken while
one is possible.

What the model does not see: two threads that release at the very same instant (what
a service does between two awaits or edits is one step); refused journal writes and
unreadable task files; a second handoff, manual reparenting; blocked and remote
wakes and the backstop. It shows, and the properties are stated to allow, that

- after a restart with the transfer intended and not committed the service stays
  fenced for inspection (`H/runtime.rs`), and the handoff does not resume;
- a captured send that is refused is both answered "rejected" and kept for release,
  so a sender that retries may be heard twice;
- a message held between the last release and completion stays pending until the
  owner resolves it;
- a wake inside a flush that times out before its evidence is recorded waits for the
  backstop;
- a reconcile request on a completed handoff takes it back to "binding" and activates
  it again;
- a handoff may complete while a prompt that its owner had sent again is still being
  sent or has an open outcome: `resolve_delivery` does not keep the task from going on
  once the transfer is committed. Messages and reports that are open do keep it.

### Proof

`ManagerReplacementProofs`, and for the last two `ManagerReplacementOrderProofs` on
top of it, prove for all bounds (which must be naturals, the only assumption),

- `HandoffTypeCorrect`: `Spec => []TypeOK`;
- `HandoffLosesNothing`: `Spec => []NothingIsLost`;
- `HandoffReplaysNothing`: `Spec => []NoReplay`;
- `OldHearsNothing`: `Spec => OldNotTold`;
- `HandoffCompletesWhole`: `Spec => CompletesWhole`.

The inductive invariant of the types is `Sound`. A delivery is found again by the
place of its entry in the journal, by the frame that awaits it and by the send under
way, so `Sound` says how these fit: a frame that awaits a send points at an entry of
the journal (`FramesFit`); a send of a process is the one its frame awaits, a captured
send names an entry with its text, at most one send is under way for a client's
message, and no entry captured two (`FlightsFit`); no wake remembers a turn that was
not worked, and a wake inside a flush has the task wait for it (`WakesFit`); before
the start there is nothing (`NoneYet`). `Follows(o, p)` - entries keep place and text -
carries all of it from step to step.

The next two theorems each rest on a property of single steps, proved once for every
action with `Sound`. A step is `Careful` if whatever it newly counts as accepted,
promised or reported was taken or is listed, and no entry is forgotten. A step is
`Frugal(t)` if it adds no attempt at `t` but one the owner asked for, where the
`Attempts(t)` are the times it reached an agent and the times it still may: pending
entries, frames and clients' sends that await its outcome, and one if it was never
sent. `Tokens`, that attempts do not exceed one plus what the owner allowed, is the
invariant `NoReplay` needs: `NoReplay` itself says nothing of an entry that is pending
although a captured send of the same text is still under way. Steps that touch neither
entries nor sends (two thirds of the actions) are `Quiet`, which implies both.

`OldHearsNothing` needs to know how far the handoff is wherever its task stands,
which is the second inductive invariant, `Staged`: unless a cancel was carried out,
`Orderly`. That is, the place of the task tells whether the transfer is intended and
committed, and a task that releases either failed before the intent, or releases to
the successor after the commitment (`Stage`); a request awaits nothing but a send of
its own, and starts the preparation again only before the intent (`Serves`); before
the commitment the two do not run together (`Alone`); and what is committed was
intended, with the tasks moved (`Moved`). A cancel that is carried out breaks the
first of these, which is why the property excuses it. `OldUntold` then goes through
the actions that send: those of a committed handoff all go to the successor.

`HandoffCompletesWhole` needs to know which entries of the journal may still be open,
and why. `Awaiting` says that an open send has one waiter: an entry a process awaits
is open, awaited by that process alone and not also by a captured send, and a prompt
that is "sending" is awaited by some process. Steps `Rest` if they leave every awaited
entry as it was; the few that do not are taken one by one. `Cleared` then says, unless
a cancel was carried out, that from the kickoff on every open entry is one the release
will still take, one its owner sent again, or the one the task awaits; that once the
kickoff is settled it stays so (`Kicked`); that nothing releasable is open when the
task is about to finish (`Emptied`); and that a request sends only what its owner
asked for (`Asks`). Steps that ease the journal (`Eases`) carry it: they open nothing
and unsettle nothing; the sends of the task and of a request are taken one by one.
Activation is the step where it comes about: it goes on only when the
journal has no "uncertain" entry, and by `Awaiting` a prompt that is still "sending"
there is awaited by a request, hence asked for. Only `Finish` sets the phase
"complete" (`OnlyFinishes`), and there `Cleared` gives the property.

## 10. Disagreements between code and documentation

`finding_cancel` is a run that TLC refutes, and `PROJECT.json` quotes the lines:
`prepare` reads the phase, awaits the receipt and its validation, and then sets
"spawning" without looking again. A cancel carried out in between is answered
"Handoff cancelled; old manager retained" and overwritten; the handoff goes on to
move the tasks.

The other models do what the code does where it falls short of a comment, and their
properties are stated so that they hold; the behaviours are:

- message queue: a send-now whose handler the broker drops leaves its entry in flight
  until the hub restarts (`message_queue.rs:20-21` promises `queueUncertain`), the
  worker's next delivery waits as long, and a further send-now (`message_queue.rs:786`)
  writes its record over it, after which the entry is neither queued nor ever reported; a second unknown outcome replaces a report nobody
  acknowledged; after a send-now during a watched turn the stale fallback does not end
  the watch; an entry that is put back may take the hub over `MAX_TOTAL_BYTES`;
- paired dispatch: when the origin stops between recording a wake's signature and the
  acknowledgement, and a newer update replaces `last_update` before the first
  reconciliation, the two never match again and nothing further of that dispatch is
  delivered;
- work queue: cancelling a queued item does not advance its `updatedAt`; a slot is
  given back after a fixed number of inconclusive re-checks, and by an idle row from
  before the prompt, though the agent may work;
- jobs: an item whose submission a peer accepted without being heard may overlap the
  next; a once trigger fires again after a restart if its disarming could not be
  written; a hand edit of the same size within the clock's granularity is missed;
- nodes: a wake that failed and leaves the machine running shows it as off until the
  reconciliation finds it; a wake during a drain is answered by the draining provider
  and then lost; "slept by hub" stays set when the machine is started elsewhere;
- agent lifecycle: a launch attempted with unknown outcome keeps its workflow
  reservation for ever; a process that lands after its row was stopped never returns
  to running; a late process and a newer one of the same session may both exist for a
  while, since the engine lets the newer take over.

## 11. What is only model-checked, and what is not modelled

All invariants and action properties that the passing runs check are also proved. All
liveness properties (`EventuallySent`, `ResultArrives`, `SlotComesBack`,
`EventuallyStarts`, `OnceEventuallyFires`, `RequestEnds`, `ViewHeals`, `Recovers`,
`HandoffEnds`) are checked by TLC only, on the bounds of their runs: fairness and
ENABLED are out of the provers' reach. So are the library's theorems that take an
operator as a parameter, induction among them; where a proof needs one (the first
entry of a journal, the bytes of a queue) it takes the least counterexample by the
well-foundedness of the naturals instead.

Not modelled yet are the parts of the plan in section 2. Not modelled for good:
claudemon and the providers (external to the hub, seen as an engine that takes,
refuses or leaves open), user interfaces, the MCP server, plugins and the provider
relay (protocol adapters), worktrees, terminals, git and files (operating-system
I/O), routing and limits (policy over configuration), vendored code and deployment.
The mapped share of the repository is small because most of its lines are these.

## 12. Running

    tlc -workers 2 -config MCMessageQueue_delivery.cfg MCMessageQueue
    tlc -workers 2 -config MCRemoteDispatch_promise.cfg MCRemoteDispatch
    tlc -workers 2 -config MCWorkQueue_admission.cfg MCWorkQueue
    tlc -workers 2 -config MCJobs_runs.cfg MCJobs
    tlc -workers 2 -config MCNodes_power.cfg MCNodes
    tlc -workers 2 -config MCAgentLifecycle_credentials.cfg MCAgentLifecycle
    tlc -workers 2 -config MCManagerReplacement_handoff.cfg MCManagerReplacement
    tlapm MessageQueueProofs.tla
    tlapm RemoteDispatchProofs.tla
    tlapm WorkQueueProofs.tla
    tlapm JobsProofs.tla
    tlapm NodesProofs.tla
    tlapm AgentLifecycleProofs.tla
    tlapm ManagerReplacementProofs.tla
    tlapm ManagerReplacementOrderProofs.tla

and likewise for the other configurations. The largest instance, `handoff`, takes
about three minutes on two workers. Every mutant in `PROJECT.json` is an operator of
the model, marked `Mutant:`, that changes the definition below it the way a slip in
the code would; with it in place TLC refutes the property it is listed for.

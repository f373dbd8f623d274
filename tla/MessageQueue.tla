---------------------------- MODULE MessageQueue ----------------------------
(***************************************************************************)
(* The hub's per-session outbound message queue: Queues in                 *)
(* message_queue.rs, and the calls and the worker of sessions/queue.rs     *)
(* that drive it.                                                          *)
(*                                                                         *)
(* Concurrency in the code and here.  Every mutation and every delivery of *)
(* one session runs under that session's lock.  A mutation holds it for    *)
(* one document write and is one step.  A delivery holds it across the     *)
(* awaited send: `task[s]` is the holder between two steps.  Observed      *)
(* rows, closing, pruning, the engine, other sessions and a crash take no  *)
(* session lock and happen in between.  All sessions share one document.   *)
(***************************************************************************)
EXTENDS TurnWatch, Sequences, SequencesExt, FiniteSets

CONSTANTS
    Sessions,         \* session ids
    Ids,              \* entry ids; each is minted at most once
    Uuids,            \* delivery attempt uuids; each is minted at most once
    Texts,            \* texts a client may queue, each given by its byte length
    RowStates,        \* readiness classes the environment shows
    MaxPrompts,       \* bound: user prompts a row may count
    MaxEntries,       \* MAX_ENTRIES
    MaxSessionBytes,  \* MAX_SESSION_BYTES
    MaxTotalBytes,    \* MAX_TOTAL_BYTES
    MaxCrashes,       \* bound: hub restarts
    MaxWriteFailures, \* bound: document writes the disk refuses
    MaxTimeouts,      \* bound: send-now calls the broker cuts off
    MaxSendNows       \* bound: send-now calls

ASSUME TextsAssumption == Texts \subseteq Nat \ {0}
ASSUME RowStatesAssumption == RowStates \subseteq Readiness
ASSUME BoundsAssumption ==
    /\ MaxPrompts \in Nat /\ MaxEntries \in Nat /\ MaxSessionBytes \in Nat
    /\ MaxTotalBytes \in Nat /\ MaxCrashes \in Nat
    /\ MaxWriteFailures \in Nat /\ MaxTimeouts \in Nat /\ MaxSendNows \in Nat

VARIABLES
    state,     \* the committed queues (Queues::state)
    records,   \* sessions that have a queue record in `state`
    turns,     \* turn watches (Queues::turns)
    delivered, \* uuids the latest row reports as read (Queues::delivered)
    disk,      \* the persisted document
    rows,      \* the hub's session rows (Sessions::rows)
    task,      \* the delivery that holds a session's lock, if any
    attempts,  \* what became of each send, as the engine knows it
    minted,    \* history: entry ids handed out by queueAdd
    discarded, \* history: entries a client removed, cleared or closed over
    reported,  \* history: entries that were shown as queueUncertain
    replaced,  \* history: entries whose record in flight a send-now replaced
    budget     \* what is left of the Max* bounds

hub == <<state, records, turns, delivered>>
history == <<minted, discarded, reported, replaced>>
vars == <<state, records, turns, delivered, disk, rows, task, attempts,
          minted, discarded, reported, replaced, budget>>

-----------------------------------------------------------------------------
(* State.  The `error` text is set and cleared together with `paused`, so  *)
(* it is left out; previews and time stamps are left out too.              *)

Entry == [id : Ids, text : Texts]
Flight == [id : Ids, text : Texts, uuid : Uuids]
Report == [id : Ids, uuid : Uuids]

Queue == [entries : Seq(Entry), paused : BOOLEAN, uncertain : Option(Report),
          confirmed : Option(Report), inFlight : Option(Flight)]

\* Queue::default; also stands for a session without a record.
NoQueue == [entries |-> <<>>, paused |-> FALSE, uncertain |-> {},
            confirmed |-> {}, inFlight |-> {}]

Row == [state : Readiness, prompts : Nat, receipts : SUBSET Uuids]

\* A delivery in progress.  "picked": the worker found the head sendable on
\* `row` and has not taken it yet; "sending": the send is being awaited.
Task == [phase : {"picked", "sending"}, auto : BOOLEAN, row : Option(Row),
         flight : Option(Flight), index : Nat \ {0}, previous : Option(Turn)]

Attempt == [session : Sessions, id : Ids, fate : {"pending", "taken", "refused"}]

Document == [queues : [Sessions -> Queue], held : SUBSET Sessions,
             awaiting : SUBSET Sessions]

Budget == [crash : Nat, write : Nat, timeout : Nat, sendNow : Nat]

TypeOK ==
    /\ state \in [Sessions -> Queue]
    /\ records \subseteq Sessions
    /\ turns \in [Sessions -> Option(Turn)]
    /\ delivered \in [Sessions -> SUBSET Uuids]
    /\ disk \in Document
    /\ rows \in [Sessions -> Option(Row)]
    /\ task \in [Sessions -> Option(Task)]
    /\ attempts \in [Uuids -> Option(Attempt)]
    /\ minted \subseteq Ids
    /\ discarded \subseteq Ids
    /\ reported \subseteq Ids
    /\ replaced \subseteq Ids
    /\ budget \in Budget

-----------------------------------------------------------------------------
(* Queue operations                                                        *)

IdsOf(entries) == {entries[i].id : i \in DOMAIN entries}

Bytes(q) == FoldSeq(LAMBDA e, sum : e.text + sum, 0, q.entries)

OtherBytes(s) ==
    FoldSet(LAMBDA t, sum : Bytes(state[t]) + sum, 0, Sessions \ {s})

(* check_size: `session` bytes for this session, `others` for the rest.    *)
CheckSize(session, others) ==
    session <= MaxSessionBytes /\ session + others <= MaxTotalBytes

(* retain(|e| e.id != id); an id occurs at most once in a queue.           *)
Without(entries, id) ==
    IF \E i \in DOMAIN entries : entries[i].id = id
    THEN RemoveAt(entries, CHOOSE i \in DOMAIN entries : entries[i].id = id)
    ELSE entries

(* Queue::resume                                                           *)
Resumed(q) == [q EXCEPT !.paused = FALSE, !.confirmed = {}]

(* Queue::mark_uncertain                                                   *)
MarkUncertain(q, f) ==
    [q EXCEPT !.uncertain = {[id |-> f.id, uuid |-> f.uuid]},
              !.confirmed = {}, !.paused = TRUE]

\* Mutant: a queue that is empty but for the entry in flight is not saved.
KeepForgetsFlight(q, awaiting) ==
    \/ q.entries # <<>> \/ q.paused \/ q.uncertain # {} \/ q.confirmed # {}
    \/ awaiting

(* Queue::keep                                                             *)
Keep(q, awaiting) ==
    \/ q.entries # <<>> \/ q.paused \/ q.uncertain # {} \/ q.confirmed # {}
    \/ q.inFlight # {} \/ awaiting

(* Queues::document                                                        *)
DocumentOf(st, recs, tn) ==
    LET held == {s \in recs : Keep(st[s], tn[s] # {})}
    IN [queues   |-> [s \in Sessions |-> IF s \in held THEN st[s] ELSE NoQueue],
        held     |-> held,
        awaiting |-> {s \in held : tn[s] # {}}]

(* Queues::write refused by the disk: the document stays as it was.        *)
WriteFails ==
    /\ budget.write > 0
    /\ budget' = [budget EXCEPT !.write = @ - 1]
    /\ UNCHANGED disk

(* Queues::transact: persisted first, committed only then.  (A refused     *)
(* write changes nothing and is not a step, except in FlushTake.)          *)
Transact(s, q) ==
    /\ state' = [state EXCEPT ![s] = q]
    /\ records' = records \cup {s}
    /\ disk' = DocumentOf(state', records', turns)

(* Queues::commit: committed first, then persisted as well as possible.    *)
(* `tn` are the turn watches as the caller left them.                      *)
Commit(s, q, tn) ==
    /\ state' = [state EXCEPT ![s] = q]
    /\ records' = records \cup {s}
    /\ turns' = tn
    /\ \/ disk' = DocumentOf(state', records', tn) /\ UNCHANGED budget
       \/ WriteFails

(* Queues::wants_flush                                                     *)
WantsFlush(q, turn, r) ==
    /\ q.entries # <<>> /\ ~q.paused /\ q.uncertain = {} /\ q.inFlight = {}
    /\ turn = {}
    /\ r.state = "ready"

Free(s) == task[s] = {}

\* queue_call refuses a session whose row belongs to another hub.
Local(s) == \A r \in rows[s] : r.state # "remote"

Fresh(u) == attempts[u] = {}

-----------------------------------------------------------------------------
Init ==
    /\ state = [s \in Sessions |-> NoQueue]
    /\ records = {}
    /\ turns = [s \in Sessions |-> {}]
    /\ delivered = [s \in Sessions |-> {}]
    /\ disk = DocumentOf(state, records, turns)
    /\ rows = [s \in Sessions |-> {}]
    /\ task = [s \in Sessions |-> {}]
    /\ attempts = [u \in Uuids |-> {}]
    /\ minted = {} /\ discarded = {} /\ reported = {} /\ replaced = {}
    /\ budget = [crash |-> MaxCrashes, write |-> MaxWriteFailures,
                 timeout |-> MaxTimeouts, sendNow |-> MaxSendNows]

-----------------------------------------------------------------------------
(* Client calls (queue_call), each under the session lock                  *)

\* Mutant: mutations do not take the session lock that deliveries hold.
MutateUnlocked(s, q) ==
    /\ Local(s)
    /\ Transact(s, q)
    /\ UNCHANGED <<turns, delivered, rows, task, attempts, reported, replaced,
                   budget>>

Mutate(s, q) ==
    /\ Free(s) /\ Local(s)
    /\ Transact(s, q)
    /\ UNCHANGED <<turns, delivered, rows, task, attempts, reported, replaced,
                   budget>>

QueueAdd(s) == \E id \in Ids \ minted, text \in Texts :
    /\ rows[s] # {}
    /\ Len(state[s].entries) < MaxEntries
    /\ CheckSize(Bytes(state[s]) + text, OtherBytes(s))
    /\ Mutate(s, [state[s] EXCEPT
                    !.entries = Append(@, [id |-> id, text |-> text])])
    /\ minted' = minted \cup {id}
    /\ UNCHANGED discarded

\* `expected`: what the editor started from; a newer text is a conflict and
\* nothing changes.
QueueUpdate(s) == \E i \in DOMAIN state[s].entries, text \in Texts,
                expected \in Option(Texts) :
    /\ \A old \in expected : state[s].entries[i].text = old
    /\ CheckSize(Bytes(state[s]) - state[s].entries[i].text + text,
                 OtherBytes(s))
    /\ Mutate(s, [state[s] EXCEPT !.entries[i].text = text])
    /\ UNCHANGED <<minted, discarded>>

QueueRemove(s) == \E id \in minted :
    /\ s \in records
    /\ Mutate(s, [state[s] EXCEPT
                    !.entries   = Without(@, id),
                    !.uncertain = {r \in @ : r.id # id},
                    !.confirmed = {r \in @ : r.id # id}])
    /\ discarded' = discarded \cup ({id} \cap IdsOf(state[s].entries))
    /\ UNCHANGED minted

QueueResume(s) ==
    /\ state[s].paused
    /\ Mutate(s, Resumed(state[s]))
    /\ UNCHANGED <<minted, discarded>>

QueueMove(s) == \E from, to \in DOMAIN state[s].entries :
    LET entries == state[s].entries
    IN /\ Mutate(s, [state[s] EXCEPT
                       !.entries = InsertAt(RemoveAt(entries, from), to,
                                            entries[from])])
       /\ UNCHANGED <<minted, discarded>>

QueueClear(s) ==
    /\ s \in records
    /\ Mutate(s, Resumed([state[s] EXCEPT !.entries = <<>>, !.uncertain = {}]))
    /\ discarded' = discarded \cup IdsOf(state[s].entries)
    /\ UNCHANGED minted

-----------------------------------------------------------------------------
(* Delivery                                                                *)

\* Mutant: any receipt of the session confirms the report.
ConfirmableByAny(s) == {r \in state[s].uncertain : delivered[s] # {}}

(* Queues::confirm: a receipt for exactly the report's uuid.               *)
Confirmable(s) == {r \in state[s].uncertain : r.uuid \in delivered[s]}

Confirm(s) ==
    IF Confirmable(s) = {} THEN state[s]
    ELSE [state[s] EXCEPT !.uncertain = {}, !.confirmed = Confirmable(s)]

(* flush_queue up to the point where the head is to be taken.  The row is  *)
(* read here and used after the awaited writes that follow.                *)
FlushQueue(s) == \E r \in rows[s] :
    LET q     == Confirm(s)
        sends == WantsFlush(q, turns[s], r)
    IN /\ Free(s)
       /\ q # state[s] \/ sends
       /\ IF q # state[s] THEN Commit(s, q, turns)
          ELSE UNCHANGED <<state, records, turns, disk, budget>>
       /\ task' = [task EXCEPT ![s] =
             IF sends
             THEN {[phase |-> "picked", auto |-> TRUE, row |-> {r},
                    flight |-> {}, index |-> 1, previous |-> {}]}
             ELSE {}]
       /\ UNCHANGED <<delivered, rows, attempts, history>>

(* The entry at `index` leaves the queue, is recorded in flight under a    *)
(* fresh uuid and persisted, and only then handed to the engine.           *)
Take(s, q, index, u, auto, row, previous) ==
    LET e == q.entries[index]
        f == [id |-> e.id, text |-> e.text, uuid |-> u]
    IN /\ Fresh(u)
       /\ Transact(s, [q EXCEPT !.entries  = RemoveAt(@, index),
                                !.inFlight = {f}])
       /\ turns' = [turns EXCEPT ![s] = {AfterSend(row, previous)}]
       /\ attempts' = [attempts EXCEPT ![u] =
             {[session |-> s, id |-> e.id, fate |-> "pending"]}]
       /\ task' = [task EXCEPT ![s] =
             {[phase |-> "sending", auto |-> auto, row |-> {}, flight |-> {f},
               index |-> index, previous |-> previous]}]

FlushTake(s) == \E t \in task[s], u \in Uuids :
    /\ t.phase = "picked"
    /\ state[s].entries # <<>>
    /\ Take(s, state[s], 1, u, TRUE, t.row, {})
    /\ UNCHANGED <<delivered, rows, history, budget>>

(* The write was refused, or the queue was dropped after the head was      *)
(* picked: nothing is sent and the queue pauses.                           *)
FlushPause(s) == \E t \in task[s] :
    /\ t.phase = "picked"
    /\ task' = [task EXCEPT ![s] = {}]
    /\ UNCHANGED <<delivered, rows, attempts, history>>
    /\ LET paused == [state[s] EXCEPT !.paused = TRUE]
       IN \/ state[s].entries = <<>> /\ Commit(s, paused, turns)
          \* the transact's own write was refused; the commit's may be too
          \/ /\ state[s].entries # <<>> /\ budget.write > 0
             /\ state' = [state EXCEPT ![s] = paused]
             /\ records' = records \cup {s}
             /\ UNCHANGED turns
             /\ \/ /\ disk' = DocumentOf(state', records', turns)
                   /\ budget' = [budget EXCEPT !.write = @ - 1]
                \/ /\ budget.write > 1
                   /\ budget' = [budget EXCEPT !.write = @ - 2]
                   /\ UNCHANGED disk

(* A record in flight that a cut-off call left behind is overwritten.      *)
QueueSendNow(s) == \E i \in DOMAIN state[s].entries, u \in Uuids :
    /\ Free(s) /\ Local(s)
    /\ budget.sendNow > 0
    /\ budget' = [budget EXCEPT !.sendNow = @ - 1]
    /\ Take(s, Resumed(state[s]), i, u, FALSE, rows[s], turns[s])
    /\ replaced' = replaced \cup {f.id : f \in state[s].inFlight}
    /\ UNCHANGED <<delivered, rows, minted, discarded, reported>>

(* Queues::settle, after the send returned.  `upgrade` turns an unknown    *)
(* outcome whose receipt was already seen into a send.                     *)
Sending(s) == {t \in task[s] : t.phase = "sending"}

FateOf(f) == (CHOOSE a \in attempts[f.uuid] : TRUE).fate

Receipted(s, f) == f.uuid \in delivered[s]

DeliveredTurns(s) == [turns EXCEPT ![s] = {Delivered(x) : x \in @}]

SettleSent(s) == \E t \in Sending(s) : \E f \in t.flight :
    /\ FateOf(f) = "taken" \/ Receipted(s, f)
    /\ Commit(s, [state[s] EXCEPT !.inFlight = {}], DeliveredTurns(s))
    /\ task' = [task EXCEPT ![s] = {}]
    /\ UNCHANGED <<delivered, rows, attempts, history>>

\* Mutant: a rejected entry is not put back.
SettleRejectedDrops(s) == \E t \in Sending(s) : \E f \in t.flight :
    /\ FateOf(f) = "refused"
    /\ Commit(s, [state[s] EXCEPT !.inFlight = {}, !.paused = @ \/ t.auto],
              [turns EXCEPT ![s] = t.previous])
    /\ task' = [task EXCEPT ![s] = {}]
    /\ UNCHANGED <<delivered, rows, attempts, history>>

SettleRejected(s) == \E t \in Sending(s) : \E f \in t.flight :
    LET entries == state[s].entries
        back    == [id |-> f.id, text |-> f.text]
        index   == IF t.index > Len(entries) THEN Len(entries) + 1 ELSE t.index
    IN /\ FateOf(f) = "refused"
       /\ Commit(s, [state[s] EXCEPT
                       !.inFlight = {},
                       !.entries  = InsertAt(entries, index, back),
                       !.paused   = @ \/ t.auto],
                 [turns EXCEPT ![s] = t.previous])
       /\ task' = [task EXCEPT ![s] = {}]
       /\ UNCHANGED <<delivered, rows, attempts, history>>

SettleUncertain(s) == \E t \in Sending(s) : \E f \in t.flight :
    /\ ~Receipted(s, f)
    /\ Commit(s, MarkUncertain([state[s] EXCEPT !.inFlight = {}], f),
              DeliveredTurns(s))
    /\ reported' = reported \cup {f.id}
    /\ task' = [task EXCEPT ![s] = {}]
    /\ UNCHANGED <<delivered, rows, attempts, minted, discarded, replaced>>

(* The broker drops a handler whose call budget ran out (runtime.rs), and  *)
(* with it a send-now that still awaits its delivery: nothing settles it.  *)
CallTimeout(s) == \E t \in Sending(s) :
    /\ ~t.auto
    /\ budget.timeout > 0
    /\ budget' = [budget EXCEPT !.timeout = @ - 1]
    /\ task' = [task EXCEPT ![s] = {}]
    /\ UNCHANGED <<hub, disk, rows, attempts, history>>

-----------------------------------------------------------------------------
(* The engine (external): it takes a message or refuses it, whether or not *)
(* the hub still waits for the answer.                                     *)

EngineAnswers(u) == \E a \in attempts[u], fate \in {"taken", "refused"} :
    /\ a.fate = "pending"
    /\ attempts' = [attempts EXCEPT ![u] = {[a EXCEPT !.fate = fate]}]
    /\ UNCHANGED <<hub, disk, rows, task, history, budget>>

-----------------------------------------------------------------------------
(* Observations, without the session lock                                  *)

(* Queues::observe of row r                                                *)
ObserveRow(s, r) ==
    /\ turns' = [turns EXCEPT ![s] = ObserveTurn(@, r)]
    /\ delivered' = [delivered EXCEPT ![s] =
                       IF s \in records THEN r.receipts ELSE {}]
    /\ UNCHANGED <<state, records, disk, task, attempts, history, budget>>

Read(s) == {u \in Uuids : \E a \in attempts[u] :
                              a.session = s /\ a.fate = "taken"}

(* refresh and seed: the engine's row is stored, and published, which      *)
(* observes it first.                                                      *)
Snapshot(s) ==
    \E st \in RowStates, prompts \in 0..MaxPrompts, receipts \in SUBSET Read(s) :
        LET r == [state |-> st, prompts |-> prompts, receipts |-> receipts]
        IN /\ \A old \in rows[s] : prompts >= old.prompts
           /\ rows' = [rows EXCEPT ![s] = {r}]
           /\ ObserveRow(s, r)

(* seed: the engine no longer lists the session.  Its row goes, unobserved,*)
(* and its queue stays.                                                    *)
Vanish(s) ==
    /\ rows[s] # {}
    /\ rows' = [rows EXCEPT ![s] = {}]
    /\ UNCHANGED <<hub, disk, task, attempts, history, budget>>

(* run_queue's tick observes the current row of every session with entries.*)
Tick(s) == \E r \in rows[s] :
    /\ state[s].entries # <<>>
    /\ ObserveRow(s, r)
    /\ UNCHANGED rows

(* STALE_TURN has passed since the watch's clock started.                  *)
StaleElapses(s) == \E t \in turns[s] :
    /\ t.since = "fresh"
    /\ turns' = [turns EXCEPT ![s] = {[t EXCEPT !.since = "stale"]}]
    /\ UNCHANGED <<state, records, delivered, disk, rows, task, attempts,
                   history, budget>>

-----------------------------------------------------------------------------
(* Dropping queues, under the writer lock but not the session lock: memory *)
(* first, then the document.                                               *)

Drop(S) ==
    /\ state' = [s \in Sessions |-> IF s \in S THEN NoQueue ELSE state[s]]
    /\ records' = records \ S
    /\ turns' = [s \in Sessions |-> IF s \in S THEN {} ELSE turns[s]]
    /\ delivered' = [s \in Sessions |-> IF s \in S THEN {} ELSE delivered[s]]
    /\ discarded' = discarded \cup
         UNION {IdsOf(state[s].entries) \cup {f.id : f \in state[s].inFlight} :
                s \in S}
    /\ IF S \cap records = {} THEN UNCHANGED <<disk, budget>>
       ELSE \/ disk' = DocumentOf(state', records', turns') /\ UNCHANGED budget
            \/ WriteFails
    /\ UNCHANGED <<task, attempts, minted, reported, replaced>>

(* Closing a session removes its row and forgets its queue.                *)
Close(s) ==
    /\ rows[s] # {}
    /\ rows' = [rows EXCEPT ![s] = {}]
    /\ Drop({s})

(* prune_queues: sessions with a record that nothing else knows.           *)
Prune == \E S \in SUBSET {s \in records : rows[s] = {}} :
    /\ S # {}
    /\ Drop(S)
    /\ UNCHANGED rows

-----------------------------------------------------------------------------
\* Mutant: the interrupted entry goes back to the head of its queue.
OpenedReplays(q) ==
    [q EXCEPT !.inFlight = {},
              !.entries  = IF q.inFlight = {} THEN @
                           ELSE LET f == CHOOSE f \in q.inFlight : TRUE
                                IN <<[id |-> f.id, text |-> f.text]>> \o @]

(* Queues::open of the document, for one session                           *)
Opened(q) ==
    IF q.inFlight = {} THEN q
    ELSE MarkUncertain([q EXCEPT !.inFlight = {}], CHOOSE f \in q.inFlight : TRUE)

(* The hub stops at any point and starts again from its document.  Sends   *)
(* the engine still holds stay as they are.                                *)
Restart ==
    /\ budget.crash > 0
    /\ budget' = [budget EXCEPT !.crash = @ - 1]
    /\ state' = [s \in Sessions |-> Opened(disk.queues[s])]
    /\ records' = disk.held
    /\ turns' = [s \in Sessions |->
                   IF s \in disk.awaiting THEN {Restored} ELSE {}]
    /\ delivered' = [s \in Sessions |-> {}]
    /\ rows' = [s \in Sessions |-> {}]
    /\ task' = [s \in Sessions |-> {}]
    /\ reported' = reported \cup
         UNION {{f.id : f \in disk.queues[s].inFlight} : s \in Sessions}
    /\ UNCHANGED <<disk, attempts, minted, discarded, replaced>>

-----------------------------------------------------------------------------
Calls(s) == \/ QueueAdd(s) \/ QueueUpdate(s) \/ QueueRemove(s) \/ QueueResume(s)
            \/ QueueMove(s) \/ QueueClear(s) \/ QueueSendNow(s) \/ CallTimeout(s)

Worker(s) == \/ FlushQueue(s) \/ FlushTake(s) \/ FlushPause(s)
             \/ SettleSent(s) \/ SettleRejected(s) \/ SettleUncertain(s)

Environment(s) == \/ Snapshot(s) \/ Vanish(s) \/ Tick(s)
                  \/ StaleElapses(s) \/ Close(s)

Next ==
    \/ \E s \in Sessions : Calls(s) \/ Worker(s) \/ Environment(s)
    \/ \E u \in Uuids : EngineAnswers(u)
    \/ Prune
    \/ Restart

Spec == Init /\ [][Next]_vars

-----------------------------------------------------------------------------
(* Fairness for liveness: the worker's tick re-observes every session with *)
(* entries every two seconds, time passes, a send returns (the engine      *)
(* client gives up after COMMAND_TIMEOUT) and the worker's tasks run on.   *)
Settles(s) == SettleSent(s) \/ SettleRejected(s) \/ SettleUncertain(s)

FairSpec ==
    /\ Spec
    /\ \A s \in Sessions :
         /\ WF_vars(FlushQueue(s)) /\ WF_vars(FlushTake(s))
         /\ WF_vars(Settles(s))
         /\ WF_vars(Tick(s)) /\ WF_vars(StaleElapses(s))

-----------------------------------------------------------------------------
(* Properties                                                              *)

AttemptsOf(id) == {u \in Uuids : \E a \in attempts[u] : a.id = id}

MayHaveArrived(u) == \E a \in attempts[u] : a.fate # "refused"

(* No queued message is ever handed to the agent twice: of all delivery    *)
(* attempts of one entry at most one was not definitely refused, whatever  *)
(* restarts, refused writes, timeouts, closes and send-nows raced with the *)
(* worker (message_queue.rs, the durability rules: "a crash mid-send can   *)
(* never replay it", "never retried").                                     *)
AtMostOnce ==
    \A id \in Ids : \A u, v \in AttemptsOf(id) :
        MayHaveArrived(u) /\ MayHaveArrived(v) => u = v

(* No accepted message vanishes: an entry queueAdd acknowledged is still   *)
(* queued, or in flight, or the engine took it, or it was shown as         *)
(* queueUncertain, or a client discarded it; or its send-now was cut off   *)
(* by the broker and a later one overwrote its record, the one way the     *)
(* code loses an entry (message_queue.rs transact, settle, open).          *)
NoSilentLoss ==
    \A id \in minted \ (discarded \cup reported \cup replaced) :
        \/ \E s \in Sessions : \/ id \in IdsOf(state[s].entries)
                               \/ \E f \in state[s].inFlight : f.id = id
        \/ \E u \in Uuids : \E a \in attempts[u] :
               a.id = id /\ a.fate = "taken"

(* A restart surfaces the delivery it cut off: the entry that was in       *)
(* flight comes back as queueUncertain on a paused queue, even when        *)
(* bookkeeping writes had failed (message_queue.rs open).                  *)
RestartSurfaces ==
    [][budget'.crash # budget.crash =>
         \A s \in Sessions : \A f \in state[s].inFlight :
             /\ state'[s].paused
             /\ state'[s].uncertain = {[id |-> f.id, uuid |-> f.uuid]}]_vars

(* queueConfirmed never lies: the engine really took exactly the attempt   *)
(* it names, although receipts, reports, restarts and further sends arrive *)
(* in any order (message_queue.rs confirm).                                *)
ConfirmedWasTaken ==
    \A s \in Sessions : \A c \in state[s].confirmed :
        \E a \in attempts[c.uuid] : a.id = c.id /\ a.fate = "taken"

(* A session never holds more than MAX_ENTRIES entries or                  *)
(* MAX_SESSION_BYTES of text, also when a rejected entry is put back into  *)
(* a queue others wanted to fill meanwhile (message_queue.rs add, settle). *)
SessionLimits ==
    \A s \in Sessions : /\ Len(state[s].entries) <= MaxEntries
                        /\ Bytes(state[s]) <= MaxSessionBytes

Waiting(s) ==
    /\ state[s].entries # <<>> /\ ~state[s].paused /\ state[s].uncertain = {}
    /\ \E r \in rows[s] : r.state = "ready"
    /\ \E u \in Uuids : Fresh(u)   \* the bound on attempts is not reached

(* A queue with entries does not wait for ever on a session that stays     *)
(* ready, unless it is paused or has a report: the watched turn ends, or   *)
(* the stale fallback ends it, and the worker sends the head               *)
(* (message_queue.rs:45, STALE_TURN).                                      *)
EventuallySent == \A s \in Sessions : []<>~Waiting(s)

==============================================================================

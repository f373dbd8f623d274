-------------------------- MODULE ManagerReplacement --------------------------
(***************************************************************************)
(* The succession of a fleet manager (services/manager_replacements.rs,    *)
(* manager_replacements/{service,messages,native}.rs) and the wakes of one *)
(* of its workers that fall into it (services/wakes.rs).                   *)
(*                                                                         *)
(* One handoff from manager "old" to manager "new".  Its journal entry is  *)
(* edited under a lock and written before it is changed, so an edit is one *)
(* step and "op" stands for both the memory and the file.  What a service  *)
(* does between two awaits or edits is one step.                           *)
(***************************************************************************)
EXTENDS Naturals, Sequences, SequencesExt

CONSTANTS
    MaxMessages, \* bound: messages clients send
    MaxTurns,    \* bound: turns of the worker
    MaxRequests, \* bound: cancels, reconciliations and resolutions of the owner
    MaxFaults,   \* bound: refusals, timeouts, failed awaits, managers that exit
    MaxRestarts  \* bound: restarts of the hub

ASSUME BoundsAssumption ==
    /\ MaxMessages \in Nat /\ MaxTurns \in Nat /\ MaxRequests \in Nat
    /\ MaxFaults \in Nat /\ MaxRestarts \in Nat

Managers == {"old", "new"}
Processes == {"task", "request"}

\* What is sent: the prompts of the handoff, messages of clients and reports
\* of the worker's turns.
Preparation == [kind |-> "preparation", n |-> 0]
Kickoff == [kind |-> "kickoff", n |-> 0]
Message(n) == [kind |-> "message", n |-> n]
Report(n) == [kind |-> "report", n |-> n]
Texts == {Preparation, Kickoff} \cup {Message(n) : n \in 1..MaxMessages}
                                \cup {Report(n) : n \in 1..MaxTurns}
\* The delivery kind "message" holds for both messages and reports.
Releasable(text) == text.kind \in {"message", "report"}

Statuses == {"pending", "sending", "accepted", "uncertain", "reconciled"}
Phases == {"none", "preparing", "spawning", "transferring", "binding", "activating",
           "complete", "failed", "cancelled", "recovery-required"}
Over == {"complete", "failed", "cancelled"}

VARIABLES
    op,        \* the handoff's journal entry
    signature, \* journal: the worker's turn that counts as reported
    tasks,     \* the task store: the owner of the manager's tasks
    frames,    \* the handoff task and the client request under way
    flights,   \* MessageTracker: sends that are awaited
    groups,    \* Wakes: managers for whom the worker's finish is scheduled
    wakes,     \* Wakes: the delivery under way for each manager
    marks,     \* Wakes: signature and finish it remembers
    worker,    \* the worker's row: its turn and whether it works
    process,   \* the engine: the managers' processes
    late,      \* a spawn nobody waits for any more
    fenced,    \* the service did not come up: it takes no request
    taken,     \* history: how often a text may have reached an agent
    allowed,   \* history: retries the owner authorized
    promised,  \* history: messages whose sender was told they are taken
    cancelled, \* history: a cancel was carried out
    budget     \* bounds left

journal == <<op, signature, tasks>>
observer == <<groups, wakes, marks>>
history == <<taken, allowed, promised, cancelled>>
vars == <<journal, frames, flights, observer, worker, process, late, fenced, history, budget>>

Deliveries == Seq([text : Texts, status : Statuses])
Steps == {"idle", "end", "sent", "resolved", "release", "close", "adopt", "reparent", "ready",
          "drain", "wait", "wait new", "settle", "brief", "receipt", "validated", "spawn",
          "check", "recheck", "intend", "fail", "activate", "kickoff", "evidence", "finish"}
Frames == [pc : Steps, to : Managers, at : Nat,
           ok : {"idle", "receipt", "release", "resolved", "drain"},
           no : {"idle", "end", "resolved"},
           then : {"idle", "end", "brief", "evidence", "finish", "prepare", "reconcile"}]
Idle == [pc |-> "idle", to |-> "old", at |-> 0, ok |-> "idle", no |-> "idle", then |-> "idle"]
NoWake == [pc |-> "idle", turn |-> 0, inline |-> FALSE]

TypeOK ==
    /\ op \in [phase : Phases, intent : BOOLEAN, committed : BOOLEAN,
               bound : BOOLEAN, deliveries : Deliveries, finish : 0..MaxTurns]
    /\ signature \in 0..MaxTurns
    /\ tasks \in Managers
    /\ frames \in [Processes -> Frames]
    /\ flights \subseteq [text : Texts, to : Managers, at : Nat,
                          by : Processes \cup {"client", "wake"}]
    /\ groups \subseteq Managers
    /\ wakes \in [Managers -> [pc : {"idle", "capture", "record", "send", "sent"},
                               turn : 0..MaxTurns, inline : BOOLEAN]]
    /\ marks \in [signature : 0..MaxTurns, finish : 0..MaxTurns]
    /\ worker \in [turn : 0..MaxTurns, busy : BOOLEAN]
    /\ process \in [Managers -> {"absent", "live", "ended"}]
    /\ late \in BOOLEAN /\ fenced \in BOOLEAN
    /\ taken \in [Texts -> Nat] /\ allowed \in [Texts -> 0..MaxRequests]
    /\ promised \subseteq {Message(n) : n \in 1..MaxMessages}
    /\ cancelled \in BOOLEAN
    /\ budget \in [messages : 0..MaxMessages, requests : 0..MaxRequests,
                   faults : 0..MaxFaults, restarts : 0..MaxRestarts]

-----------------------------------------------------------------------------
(* Bounds, frames and outcomes *)

Spend(b) == budget[b] > 0 /\ budget' = [budget EXCEPT ![b] = @ - 1]
Fault == Spend("faults")

\* The steps of a frame that owes nothing any more.
Stops == {"idle", "end"}
At(q, pc) == frames[q].pc = pc
Goes(q, pc) ==
    frames' = [frames EXCEPT ![q] =
                   [Idle EXCEPT !.pc = pc, !.then = IF pc \in Stops THEN @ ELSE frames[q].then]]
Ends(q) == frames' = [frames EXCEPT ![q] = Idle]
\* The end of a function: the task is still in "running", a request just answers.
Ending(q) == IF q = "task" THEN "end" ELSE "idle"
Running == ~At("task", "idle")
\* run: a task that has not ended swallows the action.
Runs(f, pc) == IF f["task"].pc = "idle" THEN [f EXCEPT !["task"].pc = pc] ELSE f

Settled(d) == d.status \in {"accepted", "reconciled"}
Exists(o, status) == \E i \in DOMAIN o.deliveries : o.deliveries[i].status = status
First(places) == CHOOSE i \in places : \A j \in places : i <= j
Places(o, text) == {i \in DOMAIN o.deliveries : o.deliveries[i].text = text}
HasText(o, text) == Places(o, text) # {}
Appended(o, text) == [o EXCEPT !.deliveries = Append(@, [text |-> text, status |-> "pending"])]
Lists(o, text) == IF HasText(o, text) THEN o ELSE Appended(o, text)

Live(m) == process[m] = "live"
Closed(m) == [process EXCEPT ![m] = IF @ = "live" THEN "ended" ELSE @]

\* What a send can come to: only a live session accepts, any may refuse, and
\* an outcome that stays open may or may not have reached the agent.
Outcomes(to) ==
    {x \in [result : {"accepted", "rejected", "uncertain"}, reached : BOOLEAN] :
        /\ x.result = "accepted" => x.reached
        /\ x.result = "rejected" => ~x.reached
        /\ x.reached => Live(to)}
Costs(to, x) == IF x.result = "accepted" \/ (x.result = "rejected" /\ ~Live(to))
                THEN UNCHANGED budget ELSE Fault
Reaches(text, x) == taken' = [taken EXCEPT ![text] = @ + IF x.reached THEN 1 ELSE 0]

-----------------------------------------------------------------------------
(* Routing and holding *)

Held(o, m) == IF m = "old" THEN \/ o.committed \/ o.intent
                                \/ o.phase \notin Over \cup {"none"}
              ELSE /\ o.phase \notin Over \cup {"none"}
                   /\ ~(o.phase = "activating" /\ o.committed)
\* hold_message and record_finish also know the successor that is activated.
Keeps(o, m) == Held(o, m) \/ o.phase = "activating"
Retired(o, m) == m = "old" /\ o.phase = "complete"
\* target, worker_wake_target
Target == IF op.intent \/ op.committed THEN "new" ELSE "old"
\* Mutant: the successor only owns a handoff once its pane is bound.
BoundOwner(o) == IF o.bound THEN "new" ELSE "old"
Owner(o) == IF o.committed THEN "new" ELSE "old"
Available(m) == Held(op, m) \/ Live(m)

\* note_inflight_message: the outcome of a send that the handoff captured.
\* Mutant: a captured send that is refused counts as delivered.
NotedUnlessOpen(o, at, x) ==
    IF at = 0 \/ o.deliveries[at].status \notin {"sending", "uncertain"} THEN o
    ELSE [o EXCEPT !.deliveries[at].status =
                       IF x.result = "rejected" THEN "accepted" ELSE x.result,
                   !.phase = IF x.result = "accepted" THEN @ ELSE "recovery-required"]
Noted(o, at, x) ==
    IF at = 0 \/ o.deliveries[at].status \notin {"sending", "uncertain"} THEN o
    ELSE [o EXCEPT !.deliveries[at].status =
                       IF x.result = "rejected" THEN "pending" ELSE x.result,
                   !.phase = IF x.result = "accepted" THEN @ ELSE "recovery-required"]

-----------------------------------------------------------------------------
(* Messages of clients *)

\* MessageTracker::begin: held durably if a handoff keeps the manager.
Send(n, to) ==
    /\ budget.messages = n /\ Spend("messages")
    /\ process[to] # "absent" /\ ~Retired(op, to)
    /\ IF Keeps(op, to)
       THEN /\ op' = Appended(op, Message(n))
            /\ promised' = promised \cup {Message(n)}
            /\ UNCHANGED flights
       ELSE /\ flights' = flights \cup
                  {[text |-> Message(n), to |-> to, at |-> 0, by |-> "client"]}
            /\ UNCHANGED <<op, promised>>
    /\ UNCHANGED <<signature, tasks, frames, observer, worker, process, late, fenced, taken,
                   allowed, cancelled>>

\* TrackedDelivery::finish of a client's send.
SendEnds(f) ==
    /\ f.by = "client"
    /\ \E x \in Outcomes(f.to) :
         /\ Costs(f.to, x) /\ Reaches(f.text, x)
         /\ op' = Noted(op, f.at, x)
         /\ promised' = IF x.result = "accepted" THEN promised \cup {f.text} ELSE promised
    /\ flights' = flights \ {f}
    /\ UNCHANGED <<signature, tasks, frames, observer, worker, process, late, fenced, allowed,
                   cancelled>>

-----------------------------------------------------------------------------
(* The worker and its wakes *)

WorkerStarts ==
    /\ ~worker.busy /\ worker.turn < MaxTurns
    /\ worker' = [turn |-> worker.turn + 1, busy |-> TRUE]
    /\ marks' = [marks EXCEPT !.finish = 0]
    /\ UNCHANGED <<journal, frames, flights, groups, wakes, process, late, fenced, history, budget>>

\* observe: the transition to idle schedules the finish for its manager.
WorkerEnds ==
    /\ worker.busy
    /\ worker' = [worker EXCEPT !.busy = FALSE]
    /\ groups' = IF Available(Target) THEN groups \cup {Target} ELSE groups
    /\ UNCHANGED <<journal, frames, flights, wakes, marks, process, late, fenced, history, budget>>

\* due and the first checks of deliver_action, up to the awaited capture.
Begins(m, inline) ==
    /\ wakes[m].pc = "idle" /\ m \in groups
    /\ IF Available(m) /\ ~worker.busy /\ Target = m
       THEN /\ wakes' = [wakes EXCEPT ![m] = [pc |-> "capture", turn |-> worker.turn,
                                              inline |-> inline]]
            /\ groups' = groups \ {m}
       ELSE /\ groups' = (groups \ {m}) \cup
                   IF Available(m) /\ ~worker.busy THEN {Target} ELSE {}
            /\ UNCHANGED wakes

WakeBegins(m) ==
    /\ Begins(m, FALSE)
    /\ UNCHANGED <<journal, frames, flights, marks, worker, process, late, fenced, history, budget>>

WakeIdle(m) == wakes' = [wakes EXCEPT ![m] = NoWake]
Current(m) == ~worker.busy /\ worker.turn = wakes[m].turn /\ Target = m

\* The conversation was captured: a resumed worker is dropped, a changed one is
\* scheduled again, a turn that was reported is skipped.
WakeCaptured(m) ==
    /\ wakes[m].pc = "capture"
    /\ IF Current(m) /\ wakes[m].turn # IF marks.signature # 0 THEN marks.signature ELSE signature
       THEN wakes' = [wakes EXCEPT ![m].pc = "record"] /\ UNCHANGED groups
       ELSE /\ WakeIdle(m)
            /\ groups' = groups \cup IF ~worker.busy /\ ~Current(m) THEN {m} ELSE {}
    /\ UNCHANGED <<journal, frames, flights, marks, worker, process, late, fenced, history, budget>>

\* The review was captured: the finish is recorded as evidence.
WakeRecorded(m) ==
    /\ wakes[m].pc = "record"
    /\ IF Current(m)
       THEN /\ wakes' = [wakes EXCEPT ![m].pc = "send"]
            /\ marks' = [marks EXCEPT !.finish = worker.turn]
            /\ op' = IF Keeps(op, m) THEN [op EXCEPT !.finish = worker.turn] ELSE op
            /\ UNCHANGED groups
       ELSE /\ WakeIdle(m)
            /\ groups' = groups \cup IF ~worker.busy THEN {Target} ELSE {}
            /\ UNCHANGED <<marks, op>>
    /\ UNCHANGED <<signature, tasks, frames, flights, worker, process, late, fenced, history, budget>>

\* An accepted report counts as told and withdraws its own evidence.
Told(o, turn) == [o EXCEPT !.finish = IF @ = turn THEN 0 ELSE @]
Tells(turn) == /\ signature' = turn
               /\ marks' = [signature |-> turn,
                            finish |-> IF marks.finish = turn THEN 0 ELSE marks.finish]

\* The validation and the task list were read: a wake that is no longer current
\* is scheduled again or, if that was noticed after the list, dropped.
WakeSends(m) ==
    /\ wakes[m].pc = "send"
    /\ \/ /\ Current(m) /\ Available(m)
          /\ IF Keeps(op, m)
             THEN /\ op' = Told(Appended(op, Report(worker.turn)), worker.turn)
                  /\ Tells(worker.turn) /\ WakeIdle(m)
                  /\ UNCHANGED flights
             ELSE /\ wakes' = [wakes EXCEPT ![m].pc = "sent"]
                  /\ flights' = flights \cup
                        {[text |-> Report(worker.turn), to |-> m, at |-> 0, by |-> "wake"]}
                  /\ UNCHANGED <<op, signature, marks>>
          /\ UNCHANGED groups
       \/ /\ ~Current(m)
          /\ WakeIdle(m)
          /\ \/ groups' = groups \cup IF ~worker.busy THEN {Target} ELSE {}
             \/ UNCHANGED groups
          /\ UNCHANGED <<op, signature, flights, marks>>
       \/ /\ Current(m) /\ ~Available(m)
          /\ WakeIdle(m)
          /\ UNCHANGED <<op, signature, flights, groups, marks>>
    /\ UNCHANGED <<tasks, frames, worker, process, late, fenced, history, budget>>

IsTold(x) == x.result = "accepted"

\* A wake inside a flush takes the handoff task with it when it fails.
WakeSent(f) ==
    /\ f.by = "wake" /\ wakes[f.to].pc = "sent"
    /\ \E x \in Outcomes(f.to) :
         /\ Costs(f.to, x) /\ Reaches(f.text, x)
         /\ IF IsTold(x)
            THEN /\ op' = Told(Noted(op, f.at, x), f.text.n)
                 /\ Tells(f.text.n) /\ UNCHANGED frames
            ELSE /\ op' = Noted(op, f.at, x)
                 /\ frames' = IF wakes[f.to].inline THEN [frames EXCEPT !["task"].pc = "fail"]
                              ELSE frames
                 /\ UNCHANGED <<signature, marks>>
    /\ flights' = flights \ {f}
    /\ WakeIdle(f.to)
    /\ UNCHANGED <<tasks, groups, worker, process, late, fenced, allowed, promised, cancelled>>

-----------------------------------------------------------------------------
(* deliver and release, for the handoff task and for a client request *)

\* deliver returns to the step that called it, which is over or goes on.
Returns(q, f, done) ==
    LET pc == IF done THEN f.ok ELSE f.no
    IN frames' = [frames EXCEPT ![q] =
           IF pc \in Stops THEN [Idle EXCEPT !.pc = pc]
           ELSE [Idle EXCEPT !.pc = pc, !.to = IF pc = "release" THEN f.to ELSE @,
                             !.at = IF pc = "resolved" THEN f.at ELSE 0, !.then = f.then]]

\* Deliver entry i of o: done, somebody else's, or handed over and awaited.
Deliver(q, o, i, to, ok, no, then) ==
    LET status == o.deliveries[i].status
        frame(pc) == [pc |-> pc, to |-> to, at |-> i, ok |-> ok, no |-> no, then |-> then]
    IN IF status = "pending"
       THEN /\ op' = [o EXCEPT !.deliveries[i].status = "sending"]
            /\ frames' = [frames EXCEPT ![q] = frame("sent")]
            /\ flights' = flights \cup
                  {[text |-> o.deliveries[i].text, to |-> to, at |-> 0, by |-> q]}
       ELSE /\ op' = o
            /\ Returns(q, frame("sent"), Settled(o.deliveries[i]))
            /\ UNCHANGED flights

\* The outcome of a delivery: a refusal keeps the text pending, an open outcome
\* is never repeated by the host; both ask for the owner.
\* Mutant: an open outcome is tried again.
RetriesOpenOutcome(o, i, x) ==
    [o EXCEPT !.deliveries[i].status = IF x.result = "accepted" THEN @ ELSE "pending",
              !.phase = IF x.result = "accepted" THEN @ ELSE "recovery-required"]
Delivered(o, i, x) ==
    [o EXCEPT !.deliveries[i].status = IF x.result = "rejected" THEN "pending" ELSE x.result,
              !.phase = IF x.result = "accepted" THEN @ ELSE "recovery-required"]

SentEnds(q) ==
    /\ At(q, "sent")
    /\ LET f == frames[q]
           text == op.deliveries[f.at].text
       IN /\ \E x \in Outcomes(f.to) :
               /\ Costs(f.to, x) /\ Reaches(text, x)
               /\ op' = Delivered(op, f.at, x)
               /\ Returns(q, f, x.result = "accepted")
          /\ flights' = flights \ {[text |-> text, to |-> f.to, at |-> 0, by |-> q]}
    /\ UNCHANGED <<signature, tasks, observer, worker, process, late, fenced, allowed, promised,
                   cancelled>>

\* release: the first message that is not settled, until there is none.
Release(q) ==
    /\ At(q, "release")
    /\ LET open == {i \in DOMAIN op.deliveries :
                       Releasable(op.deliveries[i].text) /\ ~Settled(op.deliveries[i])}
           f == frames[q]
       IN IF open # {}
          THEN Deliver(q, op, First(open), f.to, "release", Ending(q), f.then)
          ELSE Goes(q, f.then) /\ UNCHANGED <<op, flights>>
    /\ UNCHANGED <<signature, tasks, observer, worker, process, late, fenced, history, budget>>

End(q) ==
    /\ At(q, "end")
    /\ Ends(q)
    /\ UNCHANGED <<journal, flights, observer, worker, process, late, fenced, history, budget>>

Releases(q, to, then) ==
    frames' = [frames EXCEPT ![q] = [@ EXCEPT !.pc = "release", !.to = to, !.then = then]]

-----------------------------------------------------------------------------
(* transfer, for the handoff task and for a reconciliation *)

\* adopt: refused, the intent is withdrawn unless the tasks have moved.
Adopt(q) ==
    /\ At(q, "adopt")
    /\ \/ /\ tasks' = "new" /\ Goes(q, "reparent")
          /\ UNCHANGED <<op, budget>>
       \/ /\ tasks = "old" /\ Fault
          /\ op' = [op EXCEPT !.intent = @ /\ op.committed]
          /\ Goes(q, IF q = "task" THEN "fail" ELSE "idle")
          /\ UNCHANGED tasks
    /\ UNCHANGED <<signature, flights, observer, worker, process, late, fenced, history>>

\* The awaited reparent of the workers failed.
ReparentFails(q) ==
    /\ At(q, "reparent")
    /\ Fault /\ Goes(q, IF q = "task" THEN "fail" ELSE "idle")
    /\ UNCHANGED <<journal, flights, observer, worker, process, late, fenced, history>>

-----------------------------------------------------------------------------
(* The handoff task: prepare *)

\* Every step that awaits something may end in an error or a timeout.
TaskFails == Fault /\ Goes("task", "fail")
Preparing == op.phase = "preparing"

\* start: the sends under way are captured with the journal entry.
Start ==
    /\ op.phase = "none" /\ Live("old") /\ At("request", "idle")
    /\ LET old == {f \in flights : f.to = "old"}
           sends == SetToSeq(old)
       IN /\ op' = [op EXCEPT !.phase = "preparing",
                       !.deliveries = [i \in DOMAIN sends |-> [text |-> sends[i].text,
                                                               status |-> "sending"]],
                       !.finish = marks.finish]
          /\ flights' = (flights \ old) \cup {[sends[i] EXCEPT !.at = i] : i \in DOMAIN sends}
          /\ signature' = IF marks.signature # 0 THEN marks.signature
                          ELSE IF signature # 0 THEN signature
                          ELSE IF \E f \in old : f.by = "wake"
                          THEN (CHOOSE f \in old : f.by = "wake").text.n ELSE 0
    /\ Goes("task", "ready")
    /\ UNCHANGED <<tasks, observer, worker, process, late, fenced, history, budget>>

\* No dispatch of the manager is under way any more.
Ready ==
    /\ At("task", "ready")
    /\ \/ frames' = [frames EXCEPT !["task"] = IF Preparing THEN [Idle EXCEPT !.pc = "drain",
                                                                     !.then = "brief"]
                                               ELSE Idle]
          /\ UNCHANGED budget
       \/ TaskFails
    /\ UNCHANGED <<journal, flights, observer, worker, process, late, fenced, history>>

\* flush: the task delivers what is scheduled for a manager itself, waits for
\* the delivery under way, then for the sends to it; the preparation does so
\* for the predecessor alone.
Drain(m) ==
    /\ \/ m = "old" /\ At("task", "drain")
       \/ /\ m = "new" /\ At("task", "wait")
          /\ wakes["old"].pc = "idle" /\ frames["task"].then # "brief"
    /\ IF m \in groups THEN Begins(m, TRUE) ELSE UNCHANGED <<groups, wakes>>
    /\ Goes("task", IF m = "old" THEN "wait" ELSE "wait new")
    /\ UNCHANGED <<journal, flights, marks, worker, process, late, fenced, history, budget>>

Drained ==
    /\ \/ At("task", "wait") /\ wakes["old"].pc = "idle" /\ frames["task"].then = "brief"
       \/ At("task", "wait new") /\ wakes["new"].pc = "idle"
    /\ Goes("task", "settle")
    /\ UNCHANGED <<journal, flights, observer, worker, process, late, fenced, history, budget>>

Settle ==
    /\ At("task", "settle")
    /\ \A f \in flights : f.to = "new" /\ frames["task"].then = "brief"
    /\ IF frames["task"].then = "brief" THEN Goes("task", "brief")
       ELSE Releases("task", "new", frames["task"].then)
    /\ UNCHANGED <<journal, flights, observer, worker, process, late, fenced, history, budget>>

\* A flush that takes too long is dropped, and with it the delivery inside it,
\* whose send, if it was under way, ends with an open outcome.
DrainFails ==
    /\ frames["task"].pc \in {"drain", "wait", "wait new", "settle"}
    /\ Goes("task", "fail") /\ Fault
    /\ LET inline == {m \in Managers : wakes[m].inline}
           sends == {f \in flights : f.by = "wake" /\ f.to \in inline}
       IN /\ wakes' = [m \in Managers |-> IF m \in inline THEN NoWake ELSE wakes[m]]
          /\ flights' = flights \ sends
          /\ IF sends = {} THEN UNCHANGED <<op, taken>>
             ELSE \E f \in sends : \E x \in Outcomes(f.to) :
                    /\ x.result = "uncertain"
                    /\ op' = Noted(op, f.at, x) /\ Reaches(f.text, x)
    /\ UNCHANGED <<signature, tasks, groups, marks, worker, process, late, fenced, allowed, promised,
                   cancelled>>

\* The manager is asked for its handoff.
Brief ==
    /\ At("task", "brief")
    /\ IF Preparing
       THEN LET o == Lists(op, Preparation)
            IN Deliver("task", o, First(Places(o, Preparation)), "old", "receipt", "end", "idle")
       ELSE Ends("task") /\ UNCHANGED <<op, flights>>
    /\ UNCHANGED <<signature, tasks, observer, worker, process, late, fenced, history, budget>>

\* The phase is read, then the receipt and its validation are awaited.
Receipt ==
    /\ At("task", "receipt")
    /\ \/ ~Preparing /\ Ends("task") /\ UNCHANGED budget
       \/ Preparing /\ Live("old") /\ Goes("task", "validated") /\ UNCHANGED budget
       \/ Preparing /\ ~Live("old") /\ Goes("task", "fail") /\ UNCHANGED budget
       \/ TaskFails
    /\ UNCHANGED <<journal, flights, observer, worker, process, late, fenced, history>>

\* verify_source: the manager and its fleet are as the handoff recorded them.
Validated ==
    /\ At("task", "validated")
    /\ \/ /\ Live("old")
          /\ op' = [op EXCEPT !.phase = "spawning"]
          /\ Goes("task", "spawn") /\ UNCHANGED budget
       \/ ~Live("old") /\ Goes("task", "fail") /\ UNCHANGED <<op, budget>>
       \/ TaskFails /\ UNCHANGED op
    /\ UNCHANGED <<signature, tasks, flights, observer, worker, process, late, fenced, history>>

\* The awaited spawn of the parked successor; a timed-out one may come late.
Spawn ==
    /\ At("task", "spawn")
    /\ \/ /\ process' = [process EXCEPT !["new"] = "live"]
          /\ Goes("task", "check") /\ UNCHANGED <<late, fenced, budget>>
       \/ TaskFails /\ late' \in {late, TRUE} /\ UNCHANGED process
    /\ UNCHANGED <<journal, flights, observer, worker, fenced, history>>

SpawnsLate ==
    /\ late /\ late' = FALSE
    /\ process' = [process EXCEPT !["new"] =
                       IF op.phase \in {"failed", "cancelled"} THEN "ended" ELSE "live"]
    /\ UNCHANGED <<journal, frames, flights, observer, worker, fenced, history, budget>>

\* The phase is read before and after the successor is validated; a handoff that
\* was cancelled meanwhile closes the successor.
Check ==
    /\ \/ /\ At("task", "check") /\ op.phase = "spawning"
          /\ Goes("task", IF Live("new") THEN "recheck" ELSE "fail") /\ UNCHANGED process
       \/ /\ At("task", "recheck") /\ op.phase = "spawning"
          /\ Goes("task", "intend") /\ UNCHANGED process
       \/ /\ At("task", "check") \/ At("task", "recheck")
          /\ op.phase # "spawning"
          /\ process' = Closed("new") /\ Ends("task")
    /\ UNCHANGED <<journal, flights, observer, worker, late, fenced, history, budget>>

CheckFails ==
    /\ At("task", "check") \/ At("task", "recheck")
    /\ TaskFails
    /\ UNCHANGED <<journal, flights, observer, worker, process, late, fenced, history>>

\* verify_source read the files again: the transfer is intended.
Intend ==
    /\ At("task", "intend")
    /\ IF Live("old")
       THEN /\ op' = [op EXCEPT !.phase = "transferring", !.intent = TRUE]
            /\ Goes("task", "adopt")
       ELSE Goes("task", "fail") /\ UNCHANGED op
    /\ UNCHANGED <<signature, tasks, flights, observer, worker, process, late, fenced, history, budget>>

\* The awaited reparent of the workers is through: the ownership is committed.
Commit ==
    /\ At("task", "reparent")
    /\ op' = [op EXCEPT !.committed = TRUE, !.phase = "binding"]
    /\ Goes("task", "end")
    /\ UNCHANGED <<signature, tasks, flights, observer, worker, process, late, fenced, history, budget>>

\* fail: what is still being sent becomes uncertain; before a transfer the
\* successor is closed and the held messages go to the predecessor.
Fail ==
    /\ At("task", "fail")
    /\ LET open == Exists(op, "sending") \/ Exists(op, "uncertain")
           Uncertain(d) == IF d.status = "sending" THEN [d EXCEPT !.status = "uncertain"] ELSE d
       IN op' = [op EXCEPT !.deliveries = [i \in DOMAIN @ |-> Uncertain(@[i])],
                           !.phase = IF op.intent \/ open THEN "recovery-required"
                                     ELSE "failed"]
    /\ IF op.intent THEN Ends("task") ELSE Goes("task", "close")
    /\ UNCHANGED <<signature, tasks, flights, observer, worker, process, late, fenced, history,
                   budget>>

\* The awaited close of the parked successor, whose error is ignored; then the
\* held messages are released to the predecessor.
Close(q) ==
    /\ At(q, "close")
    /\ \/ process' = Closed("new") /\ UNCHANGED budget
       \/ Live("new") /\ Fault /\ UNCHANGED process
    /\ Releases(q, "old", Ending(q))
    /\ UNCHANGED <<journal, flights, observer, worker, late, fenced, history>>

-----------------------------------------------------------------------------
(* The handoff task: activate *)

Activate ==
    /\ At("task", "activate")
    /\ IF op.bound /\ ~Exists(op, "uncertain") THEN Goes("task", "kickoff") ELSE Ends("task")
    /\ UNCHANGED <<journal, flights, observer, worker, process, late, fenced, history, budget>>

\* The successor was validated.
KicksOff ==
    /\ At("task", "kickoff") /\ Live("new")
    /\ LET o == [Lists(op, Kickoff) EXCEPT !.phase = "activating"]
       IN Deliver("task", o, First(Places(o, Kickoff)), "new", "drain", "end", "evidence")
    /\ UNCHANGED <<signature, tasks, observer, worker, process, late, fenced, history, budget>>

\* Mutant: what was recorded and not delivered is not looked at.
Overlooks == FALSE
Undelivered == op.finish # 0

KickoffFails ==
    /\ At("task", "kickoff")
    /\ \/ ~Live("new") /\ Goes("task", "fail") /\ UNCHANGED budget
       \/ TaskFails
    /\ UNCHANGED <<journal, flights, observer, worker, process, late, fenced, history>>

\* Completions that were recorded and not delivered keep the predecessor; the
\* awaited close retires it.
Evidence ==
    /\ At("task", "evidence")
    /\ \/ /\ ~Undelivered
          /\ process' = Closed("old")
          /\ frames' = [frames EXCEPT !["task"] = [Idle EXCEPT !.pc = "drain", !.then = "finish"]]
          /\ UNCHANGED budget
       \/ Undelivered /\ Goes("task", "fail") /\ UNCHANGED <<process, budget>>
       \/ ~Undelivered /\ TaskFails /\ UNCHANGED process
    /\ UNCHANGED <<journal, flights, observer, worker, late, fenced, history>>

Finish ==
    /\ At("task", "finish")
    /\ IF ~Undelivered
       THEN op' = [op EXCEPT !.phase = "complete"] /\ Ends("task")
       ELSE Goes("task", "fail") /\ UNCHANGED op
    /\ UNCHANGED <<signature, tasks, flights, observer, worker, process, late, fenced, history,
                   budget>>

-----------------------------------------------------------------------------
(* Requests of the owner's client: one at a time, except bind *)

Admitted == ~fenced /\ op.phase # "none" /\ At("request", "idle") /\ Spend("requests")

\* bind: the client repeats it until the handoff is bound and under way.
\* Mutant: it is not repeated once the handoff is bound.
BindsOnce == ~op.bound
Binds == ~op.bound \/ op.phase = "binding"

Bind ==
    /\ ~fenced /\ op.committed /\ Binds
    /\ op' = [op EXCEPT !.bound = TRUE]
    /\ frames' = IF op.phase = "binding" THEN Runs(frames, "activate") ELSE frames
    /\ UNCHANGED <<signature, tasks, flights, observer, worker, process, late, fenced, history,
                   budget>>

Cancellable == ~op.intent /\ ~Exists(op, "sending") /\ ~Exists(op, "uncertain")

Cancels ==
    /\ Cancellable
    /\ op' = [op EXCEPT !.phase = "cancelled"]
    /\ cancelled' = TRUE
    /\ Goes("request", "close")
    /\ UNCHANGED <<signature, tasks, flights, observer, worker, process, late, fenced, taken,
                   allowed, promised>>

Cancel == Admitted /\ Cancels

\* reconcile: the transfer is carried out again, or the handoff cancelled.
Reconciles ==
    \/ ~op.intent /\ Cancels
    \/ /\ op.intent
       /\ Goes("request", IF Live("new") THEN "adopt" ELSE "idle")
       /\ UNCHANGED <<journal, flights, observer, worker, process, late, fenced, history>>

Reconcile == Admitted /\ ~Running /\ Reconciles

\* The transfer is through: what was recorded is scheduled for the owner again.
Reconciled ==
    /\ At("request", "reparent")
    /\ LET phase == IF Exists(op, "uncertain") THEN "recovery-required" ELSE "binding"
           done == [frames EXCEPT !["request"] = Idle]
       IN /\ op' = [op EXCEPT !.committed = TRUE, !.phase = phase]
          /\ frames' = IF op.bound /\ phase = "binding" THEN Runs(done, "activate") ELSE done
    /\ groups' = groups \cup {Owner(op)}
    /\ marks' = [marks EXCEPT !.signature = IF @ = 0 THEN signature ELSE @]
    /\ UNCHANGED <<signature, tasks, flights, wakes, worker, process, late, fenced, history,
                   budget>>

\* resolve-delivery of entry i of o: the owner accounts for it or has it sent again.
Resolves(o, i, retry) ==
    LET original == o.deliveries[i]
        settled == [o EXCEPT !.deliveries[i].status = "reconciled"]
        next == IF original.text = Preparation /\ ~op.intent THEN "prepare" ELSE "reconcile"
    IN /\ original.status \in {"uncertain", "pending"}
       /\ IF retry
          THEN /\ allowed' = [allowed EXCEPT ![original.text] = @ + 1]
               /\ Deliver("request", Appended(settled, original.text), Len(o.deliveries) + 1,
                          Owner(o), "resolved", "resolved", next)
          ELSE /\ op' = settled
               /\ frames' = [frames EXCEPT !["request"] =
                                 [Idle EXCEPT !.pc = "resolved", !.at = i, !.then = next]]
               /\ UNCHANGED <<flights, allowed>>

Resolve ==
    /\ Admitted /\ ~Running
    /\ \E retry \in BOOLEAN :
         \/ \E i \in DOMAIN op.deliveries : Resolves(op, i, retry)
         \/ /\ op.finish # 0
            /\ Resolves([Appended(op, Report(op.finish)) EXCEPT !.finish = 0],
                        Len(op.deliveries) + 1, retry)
    /\ UNCHANGED <<signature, tasks, observer, worker, process, late, fenced, taken, promised,
                   cancelled>>

\* After the resolution the preparation starts again or the handoff is reconciled.
Resolved ==
    /\ At("request", "resolved")
    /\ IF frames["request"].then = "prepare" /\
          op.deliveries[frames["request"].at].status # "uncertain"
       THEN /\ op' = [op EXCEPT !.phase = "preparing"]
            /\ frames' = Runs([frames EXCEPT !["request"] = Idle], "ready")
            /\ UNCHANGED <<signature, tasks, flights, observer, worker, process, late, fenced,
                           history>>
       ELSE IF Running \/ (~op.intent /\ ~Cancellable)
       THEN /\ Ends("request")
            /\ UNCHANGED <<journal, flights, observer, worker, process, late, fenced, history>>
       ELSE Reconciles
    /\ UNCHANGED budget

-----------------------------------------------------------------------------
(* Processes and the hub *)

Exits(m) ==
    /\ Live(m) /\ Fault
    /\ process' = Closed(m)
    /\ UNCHANGED <<journal, frames, flights, observer, worker, late, fenced, history>>

\* assert_resume and admit
Resumable(m) == IF m = "old" THEN ~Held(op, "old") ELSE op.committed /\ op.phase = "complete"

Resumes(m) ==
    /\ process[m] = "ended" /\ Resumable(m)
    /\ process' = [process EXCEPT ![m] = "live"]
    /\ UNCHANGED <<journal, frames, flights, observer, worker, late, fenced, history, budget>>

\* recover_status: what was being sent is uncertain, nothing is sent again.
Recovered(o) ==
    [o EXCEPT !.bound = @ /\ o.phase \in Over,
              !.phase = IF @ \in Over \cup {"none"} THEN @ ELSE "recovery-required",
              !.deliveries = [i \in DOMAIN @ |->
                  IF @[i].status = "sending" THEN [@[i] EXCEPT !.status = "uncertain"] ELSE @[i]]]

\* The sessions end with the hub.  A transfer that was under way is reconciled
\* first, which needs a live successor: the service stays fenced for inspection.
Restart ==
    /\ Spend("restarts")
    /\ op' = Recovered(op)
    /\ fenced' = (op.intent /\ op.phase # "complete")
    /\ \E reached \in SUBSET {f \in flights : Live(f.to)} :
         taken' = [text \in Texts |-> taken[text] + IF \E f \in reached : f.text = text
                                                    THEN 1 ELSE 0]
    /\ frames' = [q \in Processes |-> Idle]
    /\ flights' = {} /\ late' = FALSE
    /\ wakes' = [m \in Managers |-> NoWake]
    /\ process' = [m \in Managers |-> IF process[m] = "live" THEN "ended" ELSE process[m]]
    /\ worker' = [worker EXCEPT !.busy = FALSE]
    /\ IF op.phase = "none" \/ fenced'
       THEN groups' = {} /\ marks' = [signature |-> 0, finish |-> 0]
       ELSE /\ groups' = {Owner(op)}
            /\ marks' = [signature |-> signature, finish |-> 0]
    /\ UNCHANGED <<signature, tasks, allowed, promised, cancelled>>

-----------------------------------------------------------------------------
Init ==
    /\ op = [phase |-> "none", intent |-> FALSE, committed |-> FALSE,
             bound |-> FALSE, deliveries |-> <<>>, finish |-> 0]
    /\ signature = 0 /\ tasks = "old"
    /\ frames = [q \in Processes |-> Idle]
    /\ flights = {} /\ groups = {}
    /\ wakes = [m \in Managers |-> NoWake]
    /\ marks = [signature |-> 0, finish |-> 0]
    /\ worker = [turn |-> 0, busy |-> FALSE]
    /\ process = [m \in Managers |-> IF m = "old" THEN "live" ELSE "absent"]
    /\ late = FALSE /\ fenced = FALSE
    /\ taken = [text \in Texts |-> 0] /\ allowed = [text \in Texts |-> 0]
    /\ promised = {} /\ cancelled = FALSE
    /\ budget = [messages |-> MaxMessages, requests |-> MaxRequests, faults |-> MaxFaults,
                 restarts |-> MaxRestarts]

Sends == \E n \in 1..MaxMessages, m \in Managers : Send(n, m)
WakeStep(m) == WakeBegins(m) \/ WakeCaptured(m) \/ WakeRecorded(m) \/ WakeSends(m)
FlightEnds == \E f \in flights : SendEnds(f) \/ WakeSent(f)
Transfer(q) == Adopt(q) \/ ReparentFails(q)
Common(q) == SentEnds(q) \/ Release(q) \/ End(q) \/ Transfer(q) \/ Close(q)
Prepare == Ready \/ Brief \/ Receipt \/ Validated \/ Spawn \/ Check \/ CheckFails \/ Intend
           \/ Commit
Flush == (\E m \in Managers : Drain(m)) \/ Drained \/ Settle \/ DrainFails
TaskStep == Common("task") \/ Prepare \/ Flush \/ Fail
            \/ Activate \/ KicksOff \/ KickoffFails \/ Evidence \/ Finish
RequestStep == Common("request") \/ Reconciled \/ Resolved
Requests == Start \/ Cancel \/ Reconcile \/ Resolve

Next ==
    \/ Sends \/ FlightEnds
    \/ WorkerStarts \/ WorkerEnds \/ \E m \in Managers : WakeStep(m)
    \/ TaskStep \/ RequestStep \/ Requests \/ Bind
    \/ SpawnsLate \/ Restart \/ \E m \in Managers : Exits(m) \/ Resumes(m)

Spec == Init /\ [][Next]_vars

\* The hub keeps going: while one of its steps is possible, or the pane's client can
\* repeat its bind, some such step is taken.  Nothing is asked of clients, of the
\* worker, or of a particular task.
Progress == TaskStep \/ RequestStep \/ FlightEnds \/ Bind \/ \E m \in Managers : WakeStep(m)
FairSpec == Spec /\ WF_vars(Progress)

-----------------------------------------------------------------------------
(* Properties *)

\* "nothing was replayed" (manager_replacements.rs:824), "no automatic replay"
\* (service.rs:571): what a handoff sends or holds reaches agents at most once for
\* every attempt the owner authorized, across captures, timeouts and restarts.
NoReplay ==
    \A text \in Texts \ {Report(n) : n \in 1..MaxTurns} : taken[text] <= 1 + allowed[text]

\* A message that its sender was told is taken reached an agent, or the journal
\* still shows it to the owner as open or as accounted for; an entry only counts
\* as accepted when its text was (hold_message, note_inflight_message, deliver).
AcceptedIsKept ==
    /\ \A text \in promised : taken[text] > 0 \/ HasText(op, text)
    /\ \A i \in DOMAIN op.deliveries :
          op.deliveries[i].status = "accepted" => taken[op.deliveries[i].text] > 0

\* The signature of a turn keeps it from being reported again (wakes.rs:553), so it
\* is only remembered when the report was taken or the journal retains it.
SuppressedIsKept ==
    \A n \in {signature, marks.signature} \ {0} :
        taken[Report(n)] > 0 \/ HasText(op, Report(n))

\* Nobody believes in a delivery that neither took place nor is on record, neither
\* the sender of a message nor the wakes.
NothingIsLost == TypeOK /\ AcceptedIsKept /\ SuppressedIsKept

\* A handoff completes only when the tasks have moved, the pane is bound, the successor was
\* kicked off, no recorded completion is left and nothing is being sent or uncertain (activate),
\* except a prompt that the owner had sent again while the handoff went on: resolve_delivery
\* does not keep it from completing meanwhile.
Whole(o) ==
    /\ o.committed /\ o.bound /\ tasks = "new" /\ o.finish = 0
    /\ \A i \in DOMAIN o.deliveries :
          o.deliveries[i].status \in {"sending", "uncertain"} =>
              ~Releasable(o.deliveries[i].text) /\ allowed[o.deliveries[i].text] > 0
    /\ \E i \in DOMAIN o.deliveries : o.deliveries[i].text = Kickoff /\ Settled(o.deliveries[i])
CompletesWhole ==
    [][op.phase # "complete" /\ op'.phase = "complete" /\ ~cancelled => Whole(op')]_vars

\* Once the transfer is committed no send to the predecessor begins any more, unless
\* a cancel was carried out before (held, worker_wake_target, release).
OldNotTold ==
    [][op.committed /\ ~cancelled => \A f \in flights' \ flights : f.to = "new"]_vars

\* A handoff that is started ends, or asks its owner: it never hangs in a phase.
HandoffEnds ==
    (op.phase \notin Over \cup {"none", "recovery-required"}) ~>
        (op.phase \in Over \cup {"recovery-required"} \/ Exists(op, "uncertain") \/ cancelled)

\* "Handoff cancelled; old manager retained" (service.rs:668): once a cancel was
\* carried out the tasks stay with the predecessor.
OldRetained == cancelled => tasks = "old"
=============================================================================

-------------------- MODULE ManagerReplacementOrderProofs --------------------
(***************************************************************************)
(* Proofs about the order of a handoff (ManagerReplacement): that nothing  *)
(* more is sent to the predecessor once the transfer is committed, and     *)
(* that a handoff completes only when it is whole.                         *)
(***************************************************************************)
EXTENDS ManagerReplacementProofs

-----------------------------------------------------------------------------
(* The stages of a handoff                                                 *)

(* Where the task is tells whether the transfer is intended and committed, *)
(* and what it releases goes to the owner of that moment.                  *)
Lasts == {"evidence", "finish"}
Active == op.committed /\ op.bound
Releasing(f) == \/ f.then = "end" /\ ~op.intent
                \/ f.then \in Lasts /\ f.to = "new" /\ Active
Stage(f) ==
    /\ f.pc \in {"ready", "brief", "receipt", "validated", "spawn", "check", "recheck",
                 "intend", "close"} => ~op.intent
    /\ f.pc \in {"adopt", "reparent"} => op.intent /\ ~op.committed
    /\ f.pc = "reparent" => tasks = "new"
    /\ f.pc \in {"activate", "kickoff", "evidence", "finish"} => Active
    /\ f.pc \in Flushes => (f.then = "brief" /\ ~op.intent) \/ (f.then \in Lasts /\ Active)
    /\ f.pc = "release" => Releasing(f)
    /\ f.pc = "sent" =>
          /\ f.no = "end"
          /\ \/ f.ok = "receipt" /\ ~op.intent
             \/ f.ok = "drain" /\ Active
             \/ f.ok = "release" /\ Releasing(f)
(* A request sends again, reconciles, or starts the preparation again.     *)
Serves(r) ==
    /\ r.pc \in {"idle", "sent", "resolved", "adopt", "reparent"}
    /\ r.pc = "sent" => r.ok = "resolved" /\ r.no = "resolved"
    /\ r.pc \in {"sent", "resolved"} /\ r.then = "prepare" => ~op.intent
    /\ r.pc \in {"adopt", "reparent"} => op.intent
    /\ r.pc = "reparent" => tasks = "new"
(* Before the commitment a request and the task do not run together.       *)
Alone == op.committed \/ frames["task"].pc = "idle" \/ frames["request"].pc = "idle"
Moved == op.committed => op.intent /\ tasks = "new"

(* The inductive invariant: unless a cancel was carried out, which a       *)
(* running task does not know of.                                          *)
Orderly == /\ Moved /\ Alone
           /\ Stage(frames["task"]) /\ Serves(frames["request"])
Staged == ~cancelled => Orderly

SameStage == op'.intent = op.intent /\ op'.committed = op.committed /\ op'.bound = op.bound
             /\ tasks' = tasks

LEMMA StagedStays ==
    ASSUME Staged, SameStage, frames' = frames, cancelled' = cancelled
    PROVE  Staged'
  BY DEF Staged, Orderly, Moved, Alone, Stage, Serves, Active, Releasing, SameStage

LEMMA StagedTask ==
    ASSUME Staged, SameStage, cancelled' = cancelled, frames["task"].pc # "idle",
           NEW f, Turns("task", f), Orderly => Stage(f)
    PROVE  Staged'
<1> SUFFICES ASSUME ~cancelled PROVE Orderly'
  BY DEF Staged
<1>1. Orderly /\ Stage(f) /\ frames'["task"] = f /\ frames'["request"] = frames["request"]
  BY Managing DEF Staged, Turns
<1>2. Moved' /\ Alone'
  BY <1>1 DEF Orderly, Moved, Alone, SameStage
<1>3. Stage(frames["task"])'
  BY <1>1 DEF Stage, Active, Releasing, SameStage
<1>4. Serves(frames["request"])'
  BY <1>1 DEF Orderly, Serves, SameStage
<1> QED
  BY <1>2, <1>3, <1>4 DEF Orderly

LEMMA StagedRequest ==
    ASSUME Staged, SameStage, cancelled' = cancelled,
           NEW r, Turns("request", r), Orderly => Serves(r) /\ (r.pc = "idle" \/ Alone),
           frames["request"].pc = "idle" =>
               r.pc = "idle" \/ op.committed \/ frames["task"].pc = "idle"
    PROVE  Staged'
<1> SUFFICES ASSUME ~cancelled PROVE Orderly'
  BY DEF Staged
<1>1. Orderly /\ Serves(r) /\ frames'["request"] = r /\ frames'["task"] = frames["task"]
  BY Managing DEF Staged, Turns
<1>2. Moved' /\ Alone'
  BY <1>1 DEF Orderly, Moved, Alone, SameStage
<1>3. Stage(frames["task"])'
  BY <1>1 DEF Orderly, Stage, Active, Releasing, SameStage
<1>4. Serves(frames["request"])'
  BY <1>1 DEF Serves, SameStage
<1> QED
  BY <1>2, <1>3, <1>4 DEF Orderly

LEMMA StageOver ==
    ASSUME NEW f, f.pc \in {"idle", "end", "fail"}
    PROVE  Stage(f)
  BY DEF Stage, Flushes

LEMMA GoneIs ==
    ASSUME NEW q, NEW pc
    PROVE  /\ Gone(q, pc).pc = pc
           /\ pc \notin Stops => Gone(q, pc).then = frames[q].then
  BY FrameFields DEF Gone

LEMMA StagedGoes ==
    ASSUME Sound, Staged, SameStage, cancelled' = cancelled, frames["task"].pc # "idle",
           NEW pc \in Steps, Goes("task", pc),
           \/ pc \in {"idle", "end", "fail"}
           \/ Orderly => Stage(Gone("task", pc))
    PROVE  Staged'
<1>1. Turns("task", Gone("task", pc))
  BY GoesFacts, Managing DEF Sound
<1>2. Orderly => Stage(Gone("task", pc))
  BY GoneIs, StageOver
<1> QED
  BY <1>1, <1>2, StagedTask

LEMMA StagedEnds ==
    ASSUME Sound, Staged, SameStage, cancelled' = cancelled, frames["task"].pc # "idle",
           Ends("task")
    PROVE  Staged'
<1>1. Turns("task", Idle) /\ Idle.pc = "idle"
  BY EndsFacts, IdleFrame, Managing DEF Sound
<1>2. Stage(Idle)
  BY <1>1, StageOver
<1> QED
  BY <1>1, <1>2, StagedTask

(* A step on the way to the transfer.                                      *)
LEMMA StagedPrepares ==
    ASSUME Sound, Staged, SameStage, cancelled' = cancelled,
           frames["task"].pc \in {"ready", "brief", "receipt", "validated", "spawn", "check",
                                  "recheck", "intend"},
           NEW pc \in {"idle", "end", "fail", "brief", "receipt", "validated", "spawn", "check",
                       "recheck", "intend"},
           Goes("task", pc)
    PROVE  Staged'
<1>1. pc \in Steps
  BY DEF Steps
<1>2. Orderly => ~op.intent
  BY DEF Orderly, Stage
<1>3. Orderly => Stage(Gone("task", pc))
  BY <1>2, GoneIs DEF Stage, Flushes
<1> QED
  BY <1>1, <1>3, StagedGoes

LEMMA SamePhase ==
    ASSUME op \in Ops, NEW ph, op' = [op EXCEPT !.phase = ph], tasks' = tasks
    PROVE  SameStage
  BY DEF Ops, SameStage

(* The frame of a flush.                                                   *)
LEMMA StagedDrain ==
    ASSUME Sound, Staged, SameStage, cancelled' = cancelled, frames["task"].pc # "idle",
           NEW then \in {"brief", "finish"},
           Orderly => IF then = "brief" THEN ~op.intent ELSE Active,
           frames' = [frames EXCEPT !["task"] = [Idle EXCEPT !.pc = "drain", !.then = then]]
    PROVE  Staged'
<1>1. PICK f : f = [Idle EXCEPT !.pc = "drain", !.then = then]
  OBVIOUS
<1>2. f \in Frames /\ f.pc = "drain" /\ f.then = then
  BY <1>1, DrainFrame
<1>3. Turns("task", f)
  BY <1>1, <1>2, TurnsMade, Managing DEF Sound
<1>4. Orderly => Stage(f)
  BY <1>2 DEF Stage, Flushes, Lasts
<1> QED
  BY <1>3, <1>4, StagedTask

(* The steps of the task up to the transfer                                *)
LEMMA StagedPreparation ==
    ASSUME Sound, Staged, Ready \/ Receipt \/ Validated \/ Spawn \/ Check \/ CheckFails
    PROVE  Staged'
<1>0. op \in Ops
  BY DEF Sound
<1>1. ASSUME op' = op, tasks' = tasks PROVE SameStage
  BY <1>1 DEF SameStage
<1>2. CASE Ready
  <2>1. /\ SameStage /\ cancelled' = cancelled /\ frames["task"].pc = "ready"
    BY <1>1, <1>2 DEF Ready, At, journal, history
  <2>2. Orderly => ~op.intent
    BY <2>1 DEF Orderly, Stage
  <2>3. CASE frames' = [frames EXCEPT !["task"] = [Idle EXCEPT !.pc = "drain", !.then = "brief"]]
    BY <2>1, <2>2, <2>3, StagedDrain
  <2>4. CASE frames' = [frames EXCEPT !["task"] = Idle]
    BY <2>1, <2>4, StagedEnds DEF Ends
  <2>5. CASE Goes("task", "fail")
    BY <2>1, <2>5, StagedPrepares
  <2> QED
    BY <1>2, <2>3, <2>4, <2>5 DEF Ready, TaskFails
<1>3. CASE Receipt
  <2>1. /\ SameStage /\ cancelled' = cancelled /\ frames["task"].pc = "receipt"
    BY <1>1, <1>3 DEF Receipt, At, journal, history
  <2>2. Ends("task") \/ Goes("task", "validated") \/ Goes("task", "fail")
    BY <1>3 DEF Receipt, TaskFails
  <2> QED
    BY <2>1, <2>2, StagedEnds, StagedPrepares
<1>4. CASE Validated
  <2>1. /\ cancelled' = cancelled /\ frames["task"].pc = "validated" /\ tasks' = tasks
        /\ op' = op \/ op' = [op EXCEPT !.phase = "spawning"]
        /\ Goes("task", "spawn") \/ Goes("task", "fail")
    BY <1>4 DEF Validated, At, TaskFails, history
  <2>2. SameStage
    BY <1>0, <1>1, <2>1, SamePhase
  <2> QED
    BY <2>1, <2>2, StagedPrepares
<1>5. CASE Spawn
  <2>1. /\ SameStage /\ cancelled' = cancelled /\ frames["task"].pc = "spawn"
    BY <1>1, <1>5 DEF Spawn, At, journal, history
  <2>2. Goes("task", "check") \/ Goes("task", "fail")
    BY <1>5 DEF Spawn, TaskFails
  <2> QED
    BY <2>1, <2>2, StagedPrepares
<1>6. CASE Check
  <2>1. /\ SameStage /\ cancelled' = cancelled /\ frames["task"].pc \in {"check", "recheck"}
    BY <1>1, <1>6 DEF Check, At, journal, history
  <2>2. \/ Ends("task") \/ Goes("task", "recheck") \/ Goes("task", "fail")
        \/ Goes("task", "intend")
    BY <1>6 DEF Check
  <2> QED
    BY <2>1, <2>2, StagedEnds, StagedPrepares
<1>7. CASE CheckFails
  <2>1. /\ SameStage /\ cancelled' = cancelled /\ frames["task"].pc \in {"check", "recheck"}
        /\ Goes("task", "fail")
    BY <1>1, <1>7 DEF CheckFails, At, TaskFails, journal, history
  <2> QED
    BY <2>1, StagedPrepares
<1> QED
  BY <1>2, <1>3, <1>4, <1>5, <1>6, <1>7

(* The stage changes: the intent, the adoption, the commitment.            *)
LEMMA Staging ==
    ASSUME Staged, cancelled' = cancelled, NEW f, Turns("task", f),
           Orderly => Moved' /\ Stage(f)' /\ ~op.committed /\ frames["task"].pc # "idle"
    PROVE  Staged'
<1> SUFFICES ASSUME ~cancelled PROVE Orderly'
  BY DEF Staged
<1>1. /\ Orderly /\ Moved' /\ Stage(f)' /\ frames'["task"] = f
      /\ frames'["request"] = frames["request"] /\ frames["request"].pc = "idle"
  BY Managing DEF Staged, Turns, Orderly, Alone
<1>2. Alone'
  BY <1>1 DEF Alone
<1>3. Stage(frames["task"])'
  BY <1>1 DEF Stage, Active, Releasing
<1>4. Serves(frames["request"])'
  BY <1>1 DEF Serves
<1> QED
  BY <1>1, <1>2, <1>3, <1>4 DEF Orderly

LEMMA StagedIntend ==
    ASSUME Sound, Staged, Intend
    PROVE  Staged'
<1>1. /\ op \in Ops /\ FramesFit /\ frames["task"].pc = "intend" /\ cancelled' = cancelled
      /\ tasks' = tasks
  BY DEF Sound, Intend, At, history
<1>2. CASE op' = [op EXCEPT !.phase = "transferring", !.intent = TRUE] /\ Goes("task", "adopt")
  <2>1. "transferring" \in Phases /\ TRUE \in BOOLEAN /\ "adopt" \in Steps
    BY DEF Phases, Steps
  <2>2. op'.intent /\ op'.committed = op.committed /\ op'.bound = op.bound
    BY <1>1, <1>2, <2>1, PhaseIntentSet
  <2>3. PICK f : f = Gone("task", "adopt")
    OBVIOUS
  <2>4. Turns("task", f) /\ f.pc = "adopt"
    BY <1>1, <1>2, <2>1, <2>3, GoesFacts, Managing
  <2>5. Orderly => ~op.intent /\ ~op.committed
    BY <1>1 DEF Orderly, Stage, Moved
  <2>6. Orderly => Stage(f)' /\ Moved'
    BY <2>2, <2>4, <2>5 DEF Stage, Moved, Flushes
  <2> QED
    BY <1>1, <2>4, <2>5, <2>6, Staging
<1>3. CASE op' = op /\ Goes("task", "fail")
  BY <1>1, <1>3, StagedPrepares DEF SameStage
<1> QED
  BY <1>2, <1>3 DEF Intend

LEMMA StagedCommit ==
    ASSUME Sound, Staged, Commit
    PROVE  Staged'
<1>1. /\ op \in Ops /\ FramesFit /\ frames["task"].pc = "reparent" /\ cancelled' = cancelled
      /\ tasks' = tasks /\ Goes("task", "end")
      /\ op' = [op EXCEPT !.committed = TRUE, !.phase = "binding"]
  BY DEF Sound, Commit, At, history
<1>2. "binding" \in Phases /\ "end" \in Steps
  BY DEF Phases, Steps
<1>3. op'.intent = op.intent /\ op'.committed = TRUE
  BY <1>1, <1>2, CommitSet
<1>4. PICK f : f = Gone("task", "end")
  OBVIOUS
<1>5. Turns("task", f) /\ f.pc = "end"
  BY <1>1, <1>2, <1>4, GoesFacts, Managing
<1>6. Orderly => op.intent /\ ~op.committed /\ tasks = "new"
  BY <1>1 DEF Orderly, Stage
<1>7. Orderly => Stage(f)' /\ Moved'
  BY <1>1, <1>3, <1>5, <1>6 DEF Stage, Moved, Flushes
<1> QED
  BY <1>1, <1>5, <1>6, <1>7, Staging

(* A request whose stage changes while the task is idle, or which only     *)
(* repeats what is committed.                                              *)
LEMMA StagedAdopt ==
    ASSUME Sound, Staged, NEW q \in Processes, Adopt(q)
    PROVE  Staged'
<1>1. /\ op \in Ops /\ FramesFit /\ frames[q].pc = "adopt" /\ cancelled' = cancelled
      /\ op.intent \in BOOLEAN /\ op.committed \in BOOLEAN
  BY Entries DEF Sound, Adopt, At, history
<1>2. CASE tasks' = "new" /\ Goes(q, "reparent") /\ op' = op
  <2>1. PICK f : f = Gone(q, "reparent")
    OBVIOUS
  <2>2. "reparent" \in Steps
    BY DEF Steps
  <2>3. Turns(q, f) /\ f.pc = "reparent"
    BY <1>1, <1>2, <2>1, <2>2, GoesFacts
  <2>4. CASE q = "task"
    <3>1. Orderly => op.intent /\ ~op.committed
      BY <1>1, <2>4 DEF Orderly, Stage
    <3>2. Orderly => Stage(f)' /\ Moved'
      BY <1>2, <2>3, <3>1 DEF Stage, Moved, Flushes
    <3> QED
      BY <1>1, <2>3, <2>4, <3>1, <3>2, Staging
  <2>5. CASE q = "request"
    <3> SUFFICES ASSUME ~cancelled PROVE Orderly'
      BY <1>1 DEF Staged
    <3>1. /\ Orderly /\ op.intent /\ frames'["request"] = f /\ frames'["task"] = frames["task"]
          /\ op.committed \/ frames["task"].pc = "idle"
      BY <1>1, <2>3, <2>5, Managing DEF Staged, Turns, Orderly, Alone, Serves
    <3>2. Moved' /\ Alone'
      BY <1>2, <3>1 DEF Orderly, Moved, Alone
    <3>3. Serves(frames["request"])'
      BY <1>2, <2>3, <3>1 DEF Serves
    <3>4. Stage(frames["task"])'
      BY <1>2, <3>1 DEF Orderly, Stage, Active, Releasing
    <3> QED
      BY <3>2, <3>3, <3>4 DEF Orderly
  <2> QED
    BY <2>4, <2>5 DEF Processes
<1>3. CASE /\ tasks = "old" /\ op' = [op EXCEPT !.intent = @ /\ op.committed]
           /\ Goes(q, IF q = "task" THEN "fail" ELSE "idle") /\ tasks' = tasks
  <2>1. /\ op'.intent = (op.intent /\ op.committed) /\ op'.committed = op.committed
        /\ op'.bound = op.bound
    BY <1>1, <1>3, IntentSet
  <2>2. Orderly => ~op.committed
    BY <1>3 DEF Orderly, Moved
  <2>3. PICK pc : pc = IF q = "task" THEN "fail" ELSE "idle"
    OBVIOUS
  <2>4. pc \in Steps
    BY <2>3 DEF Steps
  <2>5. PICK f : f = Gone(q, pc)
    OBVIOUS
  <2>6. Turns(q, f) /\ f.pc = pc
    BY <1>1, <1>3, <2>3, <2>4, <2>5, GoesFacts
  <2>7. CASE q = "task"
    <3>1. Orderly => Stage(f)' /\ Moved'
      BY <2>1, <2>2, <2>3, <2>6, <2>7 DEF Stage, Moved, Flushes
    <3> QED
      BY <1>1, <2>2, <2>6, <2>7, <3>1, Staging
  <2>8. CASE q = "request"
    <3> SUFFICES ASSUME ~cancelled PROVE Orderly'
      BY <1>1 DEF Staged
    <3>1. /\ Orderly /\ ~op.committed /\ frames'["request"].pc = "idle"
          /\ frames'["task"] = frames["task"] /\ frames["task"].pc = "idle"
      BY <1>1, <2>2, <2>3, <2>6, <2>8, Managing DEF Staged, Turns, Orderly, Alone
    <3>2. Moved' /\ Alone'
      BY <2>1, <3>1 DEF Moved, Alone
    <3>3. Serves(frames["request"])'
      BY <3>1 DEF Serves
    <3>4. Stage(frames["task"])'
      BY <3>1 DEF Stage, Flushes
    <3> QED
      BY <3>2, <3>3, <3>4 DEF Orderly
  <2> QED
    BY <2>7, <2>8 DEF Processes
<1> QED
  BY <1>2, <1>3 DEF Adopt

LEMMA StagedReparentFails ==
    ASSUME Sound, Staged, NEW q \in Processes, ReparentFails(q)
    PROVE  Staged'
<1>1. /\ FramesFit /\ frames[q].pc = "reparent" /\ cancelled' = cancelled /\ SameStage
      /\ Goes(q, IF q = "task" THEN "fail" ELSE "idle")
  BY DEF Sound, ReparentFails, At, SameStage, journal, history
<1>2. "fail" \in Steps /\ "idle" \in Steps
  BY DEF Steps
<1>3. CASE q = "task"
  BY <1>1, <1>2, <1>3, StagedGoes
<1>4. CASE q = "request"
  <2>1. PICK f : f = Gone("request", "idle")
    OBVIOUS
  <2>2. Turns("request", f) /\ f.pc = "idle"
    BY <1>1, <1>2, <1>4, <2>1, GoesFacts, Managing
  <2>3. Serves(f)
    BY <2>2 DEF Serves
  <2> QED
    BY <1>1, <2>2, <2>3, StagedRequest
<1> QED
  BY <1>3, <1>4 DEF Processes

(* What the task has sent, and how it goes on.                             *)
Sending(to, ok, then) ==
    \/ ok = "receipt" /\ ~op.intent
    \/ ok = "drain" /\ then = "evidence" /\ Active
    \/ ok = "release" /\ then = "end" /\ ~op.intent
    \/ ok = "release" /\ then \in Lasts /\ to = "new" /\ Active

LEMMA StageSent ==
    ASSUME NEW to, NEW at, NEW ok, NEW then, Sending(to, ok, then)
    PROVE  Stage(Frame("sent", to, at, ok, "end", then))
<1> DEFINE f == Frame("sent", to, at, ok, "end", then)
<1>1. f.pc = "sent" /\ f.to = to /\ f.ok = ok /\ f.no = "end" /\ f.then = then
  BY FrameFields
<1> HIDE DEF f
<1>2. Stage(f)
  BY <1>1 DEF Sending, Stage, Releasing, Flushes
<1> QED
  BY <1>2 DEF f

LEMMA ReturnedFields ==
    ASSUME NEW to, NEW at, NEW ok, NEW no, NEW then, NEW done
    PROVE  LET pc == IF done THEN ok ELSE no
               r == Returned(to, at, ok, no, then, done)
           IN /\ r.pc = pc
              /\ pc \notin Stops => r.then = then
              /\ pc = "release" => r.to = to
              /\ pc = "resolved" => r.at = at
<1> DEFINE pc == IF done THEN ok ELSE no
           r == Returned(to, at, ok, no, then, done)
<1>1. CASE pc \in Stops
  <2>1. r = Frame(pc, "old", 0, "idle", "idle", "idle")
    BY <1>1 DEF Returned
  <2>2. r.pc = pc
    BY <2>1, FrameFields
  <2> QED
    BY <1>1, <2>2 DEF Stops
<1>2. CASE pc \notin Stops
  <2> DEFINE a == IF pc = "release" THEN to ELSE "old"
             b == IF pc = "resolved" THEN at ELSE 0
  <2>1. r = Frame(pc, a, b, "idle", "idle", then)
    BY <1>2 DEF Returned
  <2> HIDE DEF r, a, b
  <2>2. r.pc = pc /\ r.then = then /\ r.to = a /\ r.at = b
    BY <2>1, FrameFields
  <2> QED
    BY <2>2 DEF a, b, r
<1> QED
  BY <1>1, <1>2

LEMMA StageReturned ==
    ASSUME NEW to, NEW at, NEW ok, NEW then, NEW done, Sending(to, ok, then)
    PROVE  Stage(Returned(to, at, ok, "end", then, done))
<1> DEFINE pc == IF done THEN ok ELSE "end"
           r == Returned(to, at, ok, "end", then, done)
<1>1. /\ r.pc = pc /\ (pc \notin Stops => r.then = then) /\ (pc = "release" => r.to = to)
  BY ReturnedFields
<1>2. pc = "end" \/ (pc = ok /\ ok \in {"receipt", "drain", "release"})
  BY DEF Sending
<1> HIDE DEF r, pc
<1>3. Stage(r)
  <2>1. CASE pc = "end"
    BY <1>1, <2>1, StageOver
  <2>2. CASE pc = ok /\ ok \in {"receipt", "drain", "release"}
    <3>1. r.then = then
      BY <1>1, <2>2 DEF Stops
    <3> QED
      BY <1>1, <2>2, <3>1 DEF Sending, Stage, Releasing, Flushes, Lasts
  <2> QED
    BY <1>2, <2>1, <2>2
<1> QED
  BY <1>3 DEF r

LEMMA StagedDelivers ==
    ASSUME Sound, Staged, cancelled' = cancelled, tasks' = tasks, frames["task"].pc # "idle",
           NEW o \in Ops, o.intent = op.intent, o.committed = op.committed, o.bound = op.bound,
           NEW i \in DOMAIN o.deliveries, NEW to \in Managers, NEW ok \in Oks, NEW then \in Thens,
           ok = "drain" => then = "evidence",
           ok = "release" => then \in {"evidence", "finish", "end", "idle"},
           Deliver("task", o, i, to, ok, "end", then),
           Orderly => Sending(to, ok, then)
    PROVE  Staged'
<1>1. FramesFit /\ "end" \in Nos /\ "task" \in Processes
  BY Managing DEF Sound, Nos
<1>2. /\ op'.intent = o.intent /\ op'.committed = o.committed /\ op'.bound = o.bound
      /\ \/ Handed("task", o, i, to, ok, "end", then)
         \/ PassedOn("task", o, i, to, ok, "end", then)
  BY <1>1, DeliverFacts
<1>3. SameStage
  BY <1>2 DEF SameStage
<1>4. CASE Handed("task", o, i, to, ok, "end", then)
  <2>1. PICK f : f = Frame("sent", to, i, ok, "end", then)
    OBVIOUS
  <2>2. Turns("task", f)
    BY <1>4, <2>1 DEF Handed
  <2>3. Orderly => Stage(f)
    BY <2>1, StageSent
  <2> QED
    BY <1>3, <2>2, <2>3, StagedTask
<1>5. CASE PassedOn("task", o, i, to, ok, "end", then)
  <2>1. PICK f : f = Returned(to, i, ok, "end", then, Settled(o.deliveries[i]))
    OBVIOUS
  <2>2. Turns("task", f)
    BY <1>5, <2>1 DEF PassedOn
  <2>3. Orderly => Stage(f)
    BY <2>1, StageReturned
  <2> QED
    BY <1>3, <2>2, <2>3, StagedTask
<1> QED
  BY <1>2, <1>4, <1>5

(* Unless a cancel was carried out, a request never releases or closes.    *)
LEMMA StagedNever ==
    ASSUME Staged, ~Orderly, cancelled' = cancelled, cancelled \in BOOLEAN
    PROVE  Staged'
  BY DEF Staged

LEMMA StagedBrief ==
    ASSUME Sound, Staged, Brief
    PROVE  Staged'
<1>1. /\ op \in Ops /\ FramesFit /\ frames["task"].pc = "brief" /\ tasks' = tasks
      /\ cancelled' = cancelled
  BY DEF Sound, Brief, At, history
<1>2. PICK o, i : o = Lists(op, Preparation) /\ i = First(Places(o, Preparation))
  OBVIOUS
<1>3. CASE Deliver("task", o, i, "old", "receipt", "end", "idle")
  <2>1. /\ o \in Ops /\ o.intent = op.intent /\ o.committed = op.committed
        /\ o.bound = op.bound /\ i \in DOMAIN o.deliveries
    BY <1>1, <1>2, TextTypes, Listed
  <2>2. "receipt" \in Oks /\ "idle" \in Thens
    BY DEF Oks, Thens
  <2>3. Orderly => Sending("old", "receipt", "idle")
    BY <1>1 DEF Orderly, Stage, Sending
  <2> QED
    BY <1>1, <1>3, <2>1, <2>2, <2>3, Managing, StagedDelivers
<1>4. CASE Ends("task") /\ op' = op
  <2>1. SameStage
    BY <1>1, <1>4 DEF SameStage
  <2> QED
    BY <1>1, <1>4, <2>1, StagedEnds
<1> QED
  BY <1>2, <1>3, <1>4 DEF Brief

LEMMA StagedKicksOff ==
    ASSUME Sound, Staged, KicksOff
    PROVE  Staged'
<1>1. /\ op \in Ops /\ FramesFit /\ frames["task"].pc = "kickoff" /\ tasks' = tasks
      /\ cancelled' = cancelled
  BY DEF Sound, KicksOff, At, history
<1>2. PICK o \in Ops : \E i \in DOMAIN o.deliveries :
         /\ o.intent = op.intent /\ o.committed = op.committed /\ o.bound = op.bound
         /\ Deliver("task", o, i, "new", "drain", "end", "evidence")
  BY <1>1, KickoffEntry
<1>3. "drain" \in Oks /\ "evidence" \in Thens
  BY DEF Oks, Thens
<1>4. Orderly => Sending("new", "drain", "evidence")
  BY <1>1 DEF Orderly, Stage, Sending
<1> QED
  BY <1>1, <1>2, <1>3, <1>4, Managing, StagedDelivers

LEMMA StagedRelease ==
    ASSUME Sound, Staged, NEW q \in Processes, Release(q)
    PROVE  Staged'
<1>1. /\ op \in Ops /\ FramesFit /\ frames[q].pc = "release" /\ tasks' = tasks
      /\ cancelled' = cancelled /\ cancelled \in BOOLEAN
  BY DEF Sound, Release, At, history, HistoryOK
<1>2. CASE q = "request"
  BY <1>1, <1>2, StagedNever DEF Orderly, Serves
<1>3. CASE q = "task"
  <2>1. PICK f : f = frames["task"]
    OBVIOUS
  <2>2. PICK open : open = {i \in DOMAIN op.deliveries :
                       Releasable(op.deliveries[i].text) /\ ~Settled(op.deliveries[i])}
    OBVIOUS
  <2>3. /\ f \in Frames /\ Follow(f) /\ f.to \in Managers /\ f.then \in Thens
        /\ f.then \in {"evidence", "finish", "end", "idle"}
    BY <1>1, <1>3, <2>1, FrameTypes DEF FramesFit, FrameOK, Follow
  <2>4. Orderly => Releasing(f)
    BY <1>1, <1>3, <2>1 DEF Orderly, Stage
  <2>5. CASE open # {} /\ Deliver("task", op, First(open), f.to, "release", "end", f.then)
    <3>1. First(open) \in DOMAIN op.deliveries
      <4>1. open \in SUBSET Nat
        BY <1>1, <2>2, Entries
      <4> QED
        BY <2>2, <2>5, <4>1, FirstIs
    <3>2. "release" \in Oks
      BY DEF Oks
    <3>3. Orderly => Sending(f.to, "release", f.then)
      BY <2>4 DEF Releasing, Sending
    <3> QED
      BY <1>1, <1>3, <2>3, <2>5, <3>1, <3>2, <3>3, StagedDelivers
  <2>6. CASE Goes("task", f.then) /\ op' = op
    <3>1. SameStage
      BY <1>1, <2>6 DEF SameStage
    <3>2. f.then \in Steps
      BY <2>3 DEF Steps
    <3>3. Orderly => Stage(Gone("task", f.then))
      <4>1. Gone("task", f.then).pc = f.then
        BY GoneIs
      <4> QED
        BY <2>4, <4>1 DEF Releasing, Stage, Flushes, Lasts
    <3> QED
      BY <1>1, <1>3, <2>6, <3>1, <3>2, <3>3, StagedGoes
  <2> QED
    BY <1>3, <2>1, <2>2, <2>5, <2>6 DEF Release, Ending
<1> QED
  BY <1>2, <1>3 DEF Processes

LEMMA StagedSentEnds ==
    ASSUME Sound, Staged, NEW q \in Processes, SentEnds(q)
    PROVE  Staged'
<1>1. /\ op \in Ops /\ FramesFit /\ frames[q].pc = "sent" /\ tasks' = tasks
      /\ cancelled' = cancelled
  BY DEF Sound, SentEnds, At
<1>2. PICK f : f = frames[q]
  OBVIOUS
<1>3. PICK x \in Outcomes(f.to) :
         /\ op' = Delivered(op, f.at, x)
         /\ Returns(q, f, x.result = "accepted")
  BY <1>2 DEF SentEnds
<1>4. /\ f \in Frames /\ Follow(f) /\ f.at \in DOMAIN op.deliveries
  BY <1>1, <1>2 DEF FramesFit, FrameOK
<1>5. Follows(op, op') /\ SameStage
  BY <1>1, <1>3, <1>4, OutcomesFacts, DeliveredFacts DEF Marks, SameStage
<1>6. PICK done \in BOOLEAN : done = (x.result = "accepted")
  OBVIOUS
<1>7. PICK r : r = Returned(f.to, f.at, f.ok, f.no, f.then, done)
  OBVIOUS
<1>8. Turns(q, r)
  <2>1. f.at \in DOMAIN op'.deliveries
    BY <1>4, <1>5 DEF Follows
  <2>2. /\ f.ok = "drain" => f.then = "evidence"
        /\ f.ok = "release" => f.then \in {"evidence", "finish", "end", "idle"}
    BY <1>1, <1>2, <1>4 DEF Follow
  <2> QED
    BY <1>1, <1>3, <1>4, <1>6, <1>7, <2>1, <2>2, ReturnsFacts
<1>9. CASE q = "task"
  <2>1. Orderly => f.no = "end" /\ Sending(f.to, f.ok, f.then)
    BY <1>1, <1>2, <1>4, <1>9 DEF Orderly, Stage, Sending, Releasing, Follow
  <2>2. Orderly => Stage(r)
    BY <1>7, <2>1, StageReturned
  <2> QED
    BY <1>1, <1>5, <1>8, <1>9, <2>2, StagedTask
<1>10. CASE q = "request"
  <2>1. Orderly => r.pc = "resolved" /\ r.then = f.then
    <3>1. Orderly => f.ok = "resolved" /\ f.no = "resolved"
      BY <1>1, <1>2, <1>10 DEF Orderly, Serves
    <3>2. LET pc == IF done THEN f.ok ELSE f.no
          IN r.pc = pc /\ (pc \notin Stops => r.then = f.then)
      BY <1>7, ReturnedFields
    <3> QED
      BY <3>1, <3>2 DEF Stops
  <2>2. Orderly => Serves(r) /\ Alone
    BY <1>1, <1>2, <1>10, <2>1 DEF Orderly, Serves
  <2> QED
    BY <1>1, <1>5, <1>8, <1>10, <2>2, StagedRequest
<1> QED
  BY <1>9, <1>10 DEF Processes

LEMMA StagedEnd ==
    ASSUME Sound, Staged, NEW q \in Processes, End(q)
    PROVE  Staged'
<1>1. /\ FramesFit /\ frames[q].pc = "end" /\ SameStage /\ cancelled' = cancelled
      /\ cancelled \in BOOLEAN /\ Ends(q)
  BY DEF Sound, End, At, SameStage, journal, history, HistoryOK
<1>2. CASE q = "task"
  BY <1>1, <1>2, StagedEnds
<1>3. CASE q = "request"
  BY <1>1, <1>3, StagedNever DEF Orderly, Serves
<1> QED
  BY <1>2, <1>3 DEF Processes

LEMMA StagedClose ==
    ASSUME Sound, Staged, NEW q \in Processes, Close(q)
    PROVE  Staged'
<1>1. /\ FramesFit /\ frames[q].pc = "close" /\ SameStage /\ cancelled' = cancelled
      /\ cancelled \in BOOLEAN /\ Releases(q, "old", Ending(q))
  BY DEF Sound, Close, At, SameStage, journal, history, HistoryOK
<1>2. CASE q = "task"
  <2>1. Releases("task", "old", "end")
    BY <1>1, <1>2 DEF Ending
  <2>2. PICK f \in Frames : /\ f.pc = "release" /\ f.then = "end"
                            /\ frames' = [frames EXCEPT !["task"] = f]
    BY <1>1, <2>1, ReleasesFrame, Managing
  <2>3. Turns("task", f)
    BY <1>1, <2>2, TurnsMade, Managing
  <2>4. Orderly => Stage(f)
    BY <1>1, <1>2, <2>2 DEF Orderly, Stage, Releasing, Flushes
  <2> QED
    BY <1>1, <1>2, <2>3, <2>4, StagedTask
<1>3. CASE q = "request"
  BY <1>1, <1>3, StagedNever DEF Orderly, Serves
<1> QED
  BY <1>2, <1>3 DEF Processes

LEMMA StagedActivation ==
    ASSUME Sound, Staged, Activate \/ KickoffFails \/ Evidence \/ Finish
    PROVE  Staged'
<1>0. op \in Ops /\ "kickoff" \in Steps /\ "fail" \in Steps
  BY DEF Sound, Steps
<1>1. CASE Activate
  <2>1. /\ SameStage /\ cancelled' = cancelled /\ frames["task"].pc = "activate"
        /\ Goes("task", "kickoff") \/ Ends("task")
    BY <1>1 DEF Activate, At, SameStage, journal, history
  <2>2. Orderly => Stage(Gone("task", "kickoff"))
    <3>1. Gone("task", "kickoff").pc = "kickoff" /\ (Orderly => Active)
      BY <2>1, GoneIs DEF Orderly, Stage
    <3> QED
      BY <3>1 DEF Stage, Flushes
  <2> QED
    BY <1>0, <2>1, <2>2, StagedGoes, StagedEnds
<1>2. CASE KickoffFails
  <2>1. /\ SameStage /\ cancelled' = cancelled /\ frames["task"].pc = "kickoff"
        /\ Goes("task", "fail")
    BY <1>2 DEF KickoffFails, At, SameStage, TaskFails, journal, history
  <2> QED
    BY <1>0, <2>1, StagedGoes
<1>3. CASE Evidence
  <2>1. /\ SameStage /\ cancelled' = cancelled /\ frames["task"].pc = "evidence"
    BY <1>3 DEF Evidence, At, SameStage, journal, history
  <2>2. Orderly => Active
    BY <2>1 DEF Orderly, Stage
  <2>3. CASE frames' = [frames EXCEPT !["task"] = [Idle EXCEPT !.pc = "drain", !.then = "finish"]]
    BY <2>1, <2>2, <2>3, StagedDrain
  <2>4. CASE Goes("task", "fail")
    BY <1>0, <2>1, <2>4, StagedGoes
  <2> QED
    BY <1>3, <2>3, <2>4 DEF Evidence, TaskFails
<1>4. CASE Finish
  <2>1. /\ cancelled' = cancelled /\ frames["task"].pc = "finish" /\ tasks' = tasks
        /\ op' = op \/ op' = [op EXCEPT !.phase = "complete"]
        /\ Ends("task") \/ Goes("task", "fail")
    BY <1>4 DEF Finish, At, history
  <2>2. SameStage
    BY <1>0, <2>1, SamePhase DEF SameStage
  <2> QED
    BY <1>0, <2>1, <2>2, StagedGoes, StagedEnds
<1> QED
  BY <1>1, <1>2, <1>3, <1>4

LEMMA StagedFail ==
    ASSUME Sound, Staged, Fail
    PROVE  Staged'
<1>1. /\ op \in Ops /\ FramesFit /\ frames["task"].pc = "fail" /\ cancelled' = cancelled
      /\ tasks' = tasks
      /\ IF op.intent THEN Ends("task") ELSE Goes("task", "close")
  BY DEF Sound, Fail, At, history
<1>2. SameStage
  BY <1>1, FailFacts DEF SameStage
<1>3. CASE Ends("task")
  BY <1>1, <1>2, <1>3, StagedEnds
<1>4. CASE ~op.intent /\ Goes("task", "close")
  <2>1. "close" \in Steps
    BY DEF Steps
  <2>2. Stage(Gone("task", "close"))
    BY <1>4, GoneIs DEF Stage, Flushes
  <2> QED
    BY <1>1, <1>2, <1>4, <2>1, <2>2, StagedGoes
<1> QED
  BY <1>1, <1>3, <1>4

LEMMA StagedFlush ==
    ASSUME Sound, Staged, Drained \/ Settle \/ \E m \in Managers : Drain(m)
    PROVE  Staged'
<1>0. FramesFit /\ {"wait", "wait new", "settle", "brief"} \subseteq Steps
  BY DEF Sound, Steps
<1>1. ASSUME NEW pc \in {"wait", "wait new", "settle"}, frames["task"].pc \in Flushes
      PROVE  Orderly => Stage(Gone("task", pc))
  <2>1. PICK f, g : f = Gone("task", pc) /\ g = frames["task"]
    OBVIOUS
  <2>2. f.pc = pc /\ f.then = g.then
    BY <2>1, GoneIs DEF Stops
  <2>3. Orderly => (g.then = "brief" /\ ~op.intent) \/ (g.then \in Lasts /\ Active)
    BY <1>1, <2>1 DEF Orderly, Stage
  <2>4. Orderly => Stage(f)
    BY <2>2, <2>3 DEF Stage, Flushes
  <2> QED
    BY <2>1, <2>4
<1>2. CASE Drained
  <2>1. /\ SameStage /\ cancelled' = cancelled /\ frames["task"].pc \in {"wait", "wait new"}
        /\ Goes("task", "settle")
    BY <1>2 DEF Drained, At, SameStage, journal, history
  <2> QED
    BY <1>0, <1>1, <2>1, StagedGoes DEF Flushes
<1>3. ASSUME NEW m \in Managers, Drain(m)
      PROVE  Staged'
  <2>1. /\ SameStage /\ cancelled' = cancelled /\ frames["task"].pc \in {"drain", "wait"}
        /\ Goes("task", "wait") \/ Goes("task", "wait new")
    BY <1>3 DEF Drain, At, SameStage, journal, history
  <2> QED
    BY <1>0, <1>1, <2>1, StagedGoes DEF Flushes
<1>4. CASE Settle
  <2>1. /\ SameStage /\ cancelled' = cancelled /\ frames["task"].pc = "settle"
        /\ IF frames["task"].then = "brief" THEN Goes("task", "brief")
           ELSE Releases("task", "new", frames["task"].then)
        /\ Follow(frames["task"])
    BY <1>0, <1>4, Managing DEF Settle, At, SameStage, journal, history, FramesFit, FrameOK
  <2>2. CASE frames["task"].then = "brief" /\ Goes("task", "brief")
    <3>1. Orderly => Stage(Gone("task", "brief"))
      BY <2>1, <2>2, GoneIs DEF Orderly, Stage, Flushes, Lasts
    <3> QED
      BY <1>0, <2>1, <2>2, <3>1, StagedGoes
  <2>3. CASE frames["task"].then # "brief" /\ Releases("task", "new", frames["task"].then)
    <3>1. PICK then : then = frames["task"].then
      OBVIOUS
    <3>2. then \in {"evidence", "finish", "end", "idle"}
      BY <2>1, <2>3, <3>1 DEF Follow, Flushes
    <3>3. PICK f \in Frames : /\ f.pc = "release" /\ f.to = "new" /\ f.then = then
                              /\ frames' = [frames EXCEPT !["task"] = f]
      <4>1. Releases("task", "new", then) /\ FramesFit
        BY <1>0, <2>3, <3>1
      <4>2. \E f \in Frames : /\ Follow(f) /\ f.pc = "release" /\ f.to = "new" /\ f.then = then
                              /\ frames' = [frames EXCEPT !["task"] = f]
        BY <3>2, <4>1, ReleasesFrame, Managing
      <4> QED
        BY <4>2
    <3>4. Turns("task", f)
      BY <1>0, <3>3, TurnsMade, Managing
    <3>5. Orderly => then \in Lasts /\ Active
      BY <2>1, <2>3, <3>1 DEF Orderly, Stage, Flushes
    <3>6. Orderly => Stage(f)
      BY <3>3, <3>5 DEF Stage, Releasing, Flushes
    <3> QED
      BY <2>1, <3>4, <3>6, StagedTask
  <2> QED
    BY <2>1, <2>2, <2>3
<1> QED
  BY <1>2, <1>3, <1>4

LEMMA StagedDrainFails ==
    ASSUME Sound, Staged, DrainFails
    PROVE  Staged'
<1>1. /\ op \in Ops /\ FlightsFit /\ frames["task"].pc # "idle" /\ cancelled' = cancelled
      /\ tasks' = tasks /\ Goes("task", "fail") /\ "fail" \in Steps
  BY DEF Sound, DrainFails, Steps
<1>2. op' = op \/ \E f \in flights : \E x \in Outcomes(f.to) : op' = Noted(op, f.at, x)
  BY DEF DrainFails
<1>3. ASSUME NEW f \in flights, NEW x \in Outcomes(f.to), op' = Noted(op, f.at, x)
      PROVE  op'.intent = op.intent /\ op'.committed = op.committed /\ op'.bound = op.bound
  <2>1. f.at \in Nat /\ (f.at # 0 => f.at \in DOMAIN op.deliveries)
    BY <1>1 DEF FlightsFit, Flight, FlightOK
  <2> QED
    BY <1>1, <1>3, <2>1, OutcomesFacts, NotedFacts
<1>4. SameStage
  BY <1>1, <1>2, <1>3 DEF SameStage
<1> QED
  BY <1>1, <1>4, StagedGoes

(* Steps of clients, of the worker, of its wakes and of the host           *)
LEMMA StagedElsewhere ==
    ASSUME Sound, Staged,
           \/ WorkerStarts \/ WorkerEnds \/ SpawnsLate
           \/ \E m \in Managers : Exits(m) \/ Resumes(m) \/ WakeBegins(m) \/ WakeCaptured(m)
    PROVE  Staged'
<1>1. frames' = frames /\ op' = op /\ tasks' = tasks /\ cancelled' = cancelled
  BY DEF WorkerStarts, WorkerEnds, SpawnsLate, Exits, Resumes, WakeBegins, WakeCaptured,
         journal, history
<1> QED
  BY <1>1, StagedStays DEF SameStage

LEMMA StagedSend ==
    ASSUME Sound, Staged, NEW n \in 1..MaxMessages, NEW m \in Managers, Send(n, m)
    PROVE  Staged'
<1>1. /\ op \in Ops /\ frames' = frames /\ tasks' = tasks /\ cancelled' = cancelled
      /\ op' = op \/ op' = Appended(op, Message(n))
  BY DEF Sound, Send
<1>2. PICK t \in Texts : t = Message(n)
  BY TextTypes
<1>3. PICK p : p = Appended(op, t)
  OBVIOUS
<1>4. p.intent = op.intent /\ p.committed = op.committed /\ p.bound = op.bound
  BY <1>1, <1>3, Appending
<1>5. op' = op \/ op' = p
  BY <1>1, <1>2, <1>3
<1>6. SameStage
  BY <1>1, <1>4, <1>5 DEF SameStage
<1> QED
  BY <1>1, <1>6, StagedStays

(* The outcome of a send that no frame awaits.                             *)
LEMMA HeardStage ==
    ASSUME Sound, NEW f \in flights, NEW x \in Outcomes(f.to), tasks' = tasks,
           op' = Noted(op, f.at, x) \/ op' = Told(Noted(op, f.at, x), f.text.n)
    PROVE  SameStage
<1>1. op \in Ops /\ f.at \in Nat /\ (f.at # 0 => f.at \in DOMAIN op.deliveries)
  BY DEF Sound, FlightsFit, Flight, FlightOK
<1>2. PICK p : p = Noted(op, f.at, x)
  OBVIOUS
<1>3. /\ p \in Ops /\ p.intent = op.intent /\ p.committed = op.committed
      /\ p.bound = op.bound
  BY <1>1, <1>2, OutcomesFacts, NotedFacts
<1>4. CASE op' = p
  BY <1>3, <1>4 DEF SameStage
<1>5. CASE op' = Told(p, f.text.n)
  BY <1>3, <1>5, ToldFacts DEF SameStage
<1> QED
  BY <1>2, <1>4, <1>5

LEMMA StagedSendEnds ==
    ASSUME Sound, Staged, NEW f \in flights, SendEnds(f)
    PROVE  Staged'
<1>1. /\ frames' = frames /\ tasks' = tasks /\ cancelled' = cancelled
      /\ \E x \in Outcomes(f.to) : op' = Noted(op, f.at, x)
  BY DEF SendEnds
<1> QED
  BY <1>1, HeardStage, StagedStays

LEMMA StagedWakeSent ==
    ASSUME Sound, Staged, NEW f \in flights, WakeSent(f)
    PROVE  Staged'
<1>1. /\ tasks' = tasks /\ cancelled' = cancelled /\ FramesFit /\ WakesFit /\ f.to \in Managers
  BY DEF Sound, WakeSent, FlightsFit, Flight
<1>2. /\ \E x \in Outcomes(f.to) : \/ op' = Noted(op, f.at, x)
                                  \/ op' = Told(Noted(op, f.at, x), f.text.n)
      /\ \/ frames' = frames
         \/ wakes[f.to].inline /\ frames' = [frames EXCEPT !["task"].pc = "fail"]
  BY DEF WakeSent
<1>3. SameStage
  BY <1>1, <1>2, HeardStage
<1>4. CASE frames' = frames
  BY <1>1, <1>3, <1>4, StagedStays
<1>5. CASE wakes[f.to].inline /\ frames' = [frames EXCEPT !["task"].pc = "fail"]
  <2>1. PICK g : g = [frames["task"] EXCEPT !.pc = "fail"]
    OBVIOUS
  <2>2. frames["task"] \in Frames /\ frames["task"].pc # "idle"
    BY <1>1, <1>5, Managing DEF WakesFit, FramesFit
  <2>3. g \in Frames /\ g.pc = "fail"
    BY <2>1, <2>2 DEF Frames, Steps
  <2>4. Turns("task", g)
    BY <1>1, <1>5, <2>1, <2>3, TurnsMade, Managing
  <2>5. Stage(g)
    BY <2>3, StageOver
  <2> QED
    BY <1>1, <1>3, <2>2, <2>4, <2>5, StagedTask
<1> QED
  BY <1>2, <1>4, <1>5

LEMMA StagedWake ==
    ASSUME Sound, Staged, NEW m \in Managers, WakeRecorded(m) \/ WakeSends(m)
    PROVE  Staged'
<1>1. /\ op \in Ops /\ worker.turn \in 0..MaxTurns
      /\ frames' = frames /\ tasks' = tasks /\ cancelled' = cancelled
  BY DEF Sound, WatchOK, WakeRecorded, WakeSends, history
<1>2. CASE WakeRecorded(m)
  <2>1. PICK p : p = [op EXCEPT !.finish = worker.turn]
    OBVIOUS
  <2>2. p.intent = op.intent /\ p.committed = op.committed /\ p.bound = op.bound
    BY <1>1, <2>1, FinishSet
  <2>3. op' = op \/ op' = p
    BY <1>2, <2>1 DEF WakeRecorded
  <2>4. SameStage
    BY <1>1, <2>2, <2>3 DEF SameStage
  <2> QED
    BY <1>1, <2>4, StagedStays
<1>3. CASE WakeSends(m)
  <2>1. op' = op \/ op' = Told(Appended(op, Report(worker.turn)), worker.turn)
    BY <1>3 DEF WakeSends
  <2>2. wakes[m].pc = "send" /\ wakes[m].turn >= 1 /\ wakes[m].turn <= worker.turn
    BY <1>3 DEF WakeSends, Sound, WakesFit
  <2>3. wakes[m].turn \in 0..MaxTurns
    BY DEF Sound, WatchOK, Wake
  <2>4. Report(worker.turn) \in Texts
    BY <1>1, <2>2, <2>3, TextTypes, BoundsAssumption
  <2>5. PICK p : p = Appended(op, Report(worker.turn))
    OBVIOUS
  <2>6. /\ p \in Ops /\ p.intent = op.intent /\ p.committed = op.committed
        /\ p.bound = op.bound
    BY <1>1, <2>4, <2>5, Appending
  <2>7. op' = op \/ op' = Told(p, worker.turn)
    BY <2>1, <2>5
  <2>8. SameStage
    BY <1>1, <2>6, <2>7, ToldFacts DEF SameStage
  <2> QED
    BY <1>1, <2>8, StagedStays
<1> QED
  BY <1>2, <1>3

(* Requests                                                                *)
LEMMA StagedReconciles ==
    ASSUME Sound, Staged, Reconciles \/ Cancels, frames["request"].pc # "idle" \/ ~Running
    PROVE  Staged'
<1>1. CASE Cancels
  BY <1>1 DEF Cancels, Staged
<1>2. CASE /\ op.intent /\ Goes("request", IF Live("new") THEN "adopt" ELSE "idle")
           /\ UNCHANGED <<journal, flights, observer, worker, process, late, fenced, history>>
  <2>1. SameStage /\ cancelled' = cancelled /\ FramesFit
    BY <1>2 DEF Sound, SameStage, journal, history
  <2>2. PICK pc \in {"adopt", "idle"} : Goes("request", pc)
    BY <1>2
  <2>3. PICK r : r = Gone("request", pc)
    OBVIOUS
  <2>4. pc \in Steps
    BY DEF Steps
  <2>5. Turns("request", r) /\ r.pc = pc
    BY <2>1, <2>2, <2>3, <2>4, GoesFacts, Managing
  <2>6. Orderly => Serves(r) /\ Alone
    BY <1>2, <2>5 DEF Orderly, Serves
  <2> QED
    BY <2>1, <2>5, <2>6, StagedRequest DEF Running, At
<1> QED
  BY <1>1, <1>2 DEF Reconciles

(* The request is over, and the task may be started.                       *)
LEMMA RunsTask ==
    ASSUME FramesFit, NEW pc \in {"ready", "activate"},
           NEW done \in {[frames EXCEPT !["request"] = Idle], frames},
           frames' = done \/ frames' = Runs(done, pc)
    PROVE  /\ frames'["request"] = done["request"]
           /\ \/ frames'["task"] = frames["task"]
              \/ frames["task"].pc = "idle" /\ frames'["task"].pc = pc
<1>1. /\ done \in [Processes -> Frames] /\ done["task"] = frames["task"]
  BY IdleFrame, Managing DEF FramesFit
<1>2. Plain(pc)
  BY PlainSteps
<1>3. CASE frames' = done
  BY <1>1, <1>3
<1>4. CASE frames' = Runs(done, pc)
  <2>1. \A q \in Processes :
           \/ frames'[q] = done[q]
           \/ q = "task" /\ done[q].pc = "idle" /\ frames'[q].pc = pc
    BY <1>1, <1>2, <1>4, RunsFacts
  <2> QED
    BY <1>1, <2>1, Managing
<1> QED
  BY <1>3, <1>4

LEMMA StagedReconciled ==
    ASSUME Sound, Staged, Reconciled
    PROVE  Staged'
<1>1. /\ op \in Ops /\ FramesFit /\ frames["request"].pc = "reparent" /\ tasks' = tasks
      /\ cancelled' = cancelled
  BY DEF Sound, Reconciled, At, history
<1> SUFFICES ASSUME ~cancelled PROVE Orderly'
  BY <1>1 DEF Staged
<1>2. /\ Orderly /\ op.intent /\ tasks = "new" /\ Stage(frames["task"])
      /\ op.committed \/ frames["task"].pc = "idle"
  BY <1>1 DEF Staged, Orderly, Serves, Alone
<1>3. PICK phase \in {"recovery-required", "binding"} :
         op' = [op EXCEPT !.committed = TRUE, !.phase = phase]
  BY DEF Reconciled
<1>4. phase \in Phases
  BY DEF Phases
<1>5. op'.intent = op.intent /\ op'.committed = TRUE /\ op'.bound = op.bound
  BY <1>1, <1>3, <1>4, CommitSet
<1>6. PICK done \in {[frames EXCEPT !["request"] = Idle], frames} :
         /\ done["request"] = Idle
         /\ frames' = done \/ (op.bound /\ frames' = Runs(done, "activate"))
  BY <1>1, IdleFrame, Managing DEF Reconciled, FramesFit
<1>7. /\ frames'["request"] = Idle /\ Idle.pc = "idle"
      /\ \/ frames'["task"] = frames["task"]
         \/ frames["task"].pc = "idle" /\ frames'["task"].pc = "activate" /\ op.bound
  <2>1. CASE frames' = done
    BY <1>1, <1>6, <2>1, IdleFrame, Managing DEF FramesFit
  <2>2. CASE op.bound /\ frames' = Runs(done, "activate")
    BY <1>1, <1>6, <2>2, RunsTask, IdleFrame
  <2> QED
    BY <1>6, <2>1, <2>2
<1>8. Moved' /\ Alone' /\ Serves(frames["request"])'
  BY <1>1, <1>2, <1>5, <1>7 DEF Moved, Alone, Serves
<1>9. Stage(frames["task"])'
  <2>1. CASE frames'["task"].pc = "activate" /\ op.bound
    BY <1>5, <2>1 DEF Stage, Active, Flushes
  <2>2. CASE frames'["task"] = frames["task"] /\ frames["task"].pc = "idle"
    BY <2>2 DEF Stage, Flushes
  <2>3. CASE frames'["task"] = frames["task"] /\ op.committed
    BY <1>1, <1>2, <1>5, <2>3 DEF Stage, Active, Releasing
  <2> QED
    BY <1>2, <1>7, <2>1, <2>2, <2>3
<1> QED
  BY <1>8, <1>9 DEF Orderly

LEMMA StagedResolved ==
    ASSUME Sound, Staged, Resolved
    PROVE  Staged'
<1>1. op \in Ops /\ FramesFit /\ frames["request"].pc = "resolved"
  BY DEF Sound, Resolved, At
<1>2. CASE /\ frames["request"].then = "prepare" /\ op' = [op EXCEPT !.phase = "preparing"]
           /\ frames' = Runs([frames EXCEPT !["request"] = Idle], "ready")
           /\ UNCHANGED <<signature, tasks, flights, observer, worker, process, late, fenced,
                          history>>
  <2>1. SameStage /\ cancelled' = cancelled
    BY <1>1, <1>2, SamePhase DEF history
  <2> SUFFICES ASSUME ~cancelled PROVE Orderly'
    BY <2>1 DEF Staged
  <2>2. Orderly /\ ~op.intent
    BY <1>1, <1>2 DEF Staged, Orderly, Serves
  <2>3. [frames EXCEPT !["request"] = Idle]["request"] = Idle
    BY <1>1, Managing DEF FramesFit
  <2>4. /\ frames'["request"] = Idle /\ Idle.pc = "idle"
        /\ \/ frames'["task"] = frames["task"]
           \/ frames'["task"].pc = "ready"
    BY <1>1, <1>2, <2>3, RunsTask, IdleFrame
  <2>5. Moved' /\ Alone' /\ Serves(frames["request"])'
    BY <2>1, <2>2, <2>4 DEF Orderly, Moved, Alone, Serves, SameStage
  <2>6. Stage(frames["task"])'
    BY <2>1, <2>2, <2>4 DEF Orderly, Stage, Active, Releasing, SameStage, Flushes
  <2> QED
    BY <2>5, <2>6 DEF Orderly
<1>3. CASE /\ Ends("request")
           /\ UNCHANGED <<journal, flights, observer, worker, process, late, fenced, history>>
  <2>1. SameStage /\ cancelled' = cancelled
    BY <1>3 DEF SameStage, journal, history
  <2>2. Turns("request", Idle) /\ Idle.pc = "idle"
    BY <1>1, <1>3, EndsFacts, IdleFrame, Managing
  <2>3. Serves(Idle)
    BY <2>2 DEF Serves
  <2> QED
    BY <2>1, <2>2, <2>3, StagedRequest
<1>4. CASE Reconciles
  BY <1>1, <1>4, StagedReconciles
<1> QED
  BY <1>2, <1>3, <1>4 DEF Resolved

LEMMA StagedBind ==
    ASSUME Sound, Staged, Bind
    PROVE  Staged'
<1>1. /\ op \in Ops /\ FramesFit /\ tasks' = tasks /\ cancelled' = cancelled
      /\ op.committed /\ op' = [op EXCEPT !.bound = TRUE]
      /\ frames' = frames \/ frames' = Runs(frames, "activate")
  BY DEF Sound, Bind, history
<1>2. op'.intent = op.intent /\ op'.committed = op.committed /\ op'.bound = TRUE
  BY <1>1, BoundSet
<1> SUFFICES ASSUME ~cancelled PROVE Orderly'
  BY <1>1 DEF Staged
<1>3. /\ Orderly /\ frames'["request"] = frames["request"]
      /\ frames'["task"] = frames["task"] \/ frames'["task"].pc = "activate"
  BY <1>1, RunsTask DEF Staged
<1>4. Moved' /\ Alone' /\ Serves(frames["request"])'
  BY <1>1, <1>2, <1>3 DEF Orderly, Moved, Alone, Serves
<1>5. Stage(frames["task"])'
  BY <1>1, <1>2, <1>3 DEF Orderly, Stage, Active, Releasing, Flushes
<1> QED
  BY <1>4, <1>5 DEF Orderly

LEMMA StagedResolves ==
    ASSUME Sound, Staged, NEW o \in Ops, o.intent = op.intent, o.committed = op.committed,
           o.bound = op.bound, NEW i \in DOMAIN o.deliveries, NEW retry, Resolves(o, i, retry),
           frames["request"].pc = "idle", ~Running, tasks' = tasks, cancelled' = cancelled
    PROVE  Staged'
<1>1. FramesFit /\ frames["task"].pc = "idle" /\ i \in Nat
  BY Entries DEF Sound, Running, At
<1>2. PICK s, text, then : s = Settling(o, i) /\ text = o.deliveries[i].text
                           /\ then = Onward(o, i)
  OBVIOUS
<1>3. /\ s \in Ops /\ s.intent = o.intent /\ s.committed = o.committed /\ s.bound = o.bound
      /\ Len(s.deliveries) = Len(o.deliveries) /\ DOMAIN s.deliveries = DOMAIN o.deliveries
  BY <1>2, SettlingFacts DEF Marks
<1>4. text \in Texts /\ then \in Thens /\ (then = "prepare" => ~op.intent)
  BY <1>2, Entries DEF Onward, Thens
<1>5. CASE Deliver("request", Appended(s, text), Len(o.deliveries) + 1, Owner(o), "resolved",
                   "resolved", then)
  <2>1. PICK p : p = Appended(s, text)
    OBVIOUS
  <2>0. PICK n : n = Len(s.deliveries) + 1
    OBVIOUS
  <2>2. /\ p \in Ops /\ n \in DOMAIN p.deliveries
        /\ p.intent = s.intent /\ p.committed = s.committed /\ p.bound = s.bound
    <3>1. p \in Ops /\ n \in DOMAIN p.deliveries
      BY <1>3, <1>4, <2>1, <2>0, Appending, AppendedLast
    <3>2. p.intent = s.intent /\ p.committed = s.committed /\ p.bound = s.bound
      BY <1>3, <1>4, <2>1, Appending
    <3> QED
      BY <3>1, <3>2
  <2>3. PICK to \in Managers : to = Owner(o)
    BY Targets
  <2>4. Deliver("request", p, n, to, "resolved", "resolved", then)
    BY <1>3, <1>5, <2>1, <2>3, <2>0
  <2>5. "resolved" \in Oks /\ "resolved" \in Nos
    BY DEF Oks, Nos
  <2>6. /\ op'.intent = p.intent /\ op'.committed = p.committed /\ op'.bound = p.bound
        /\ \/ Handed("request", p, n, to, "resolved", "resolved", then)
           \/ PassedOn("request", p, n, to, "resolved", "resolved", then)
    BY <1>1, <1>4, <2>2, <2>4, <2>5, DeliverFacts, Managing
  <2>7. SameStage
    BY <1>3, <2>2, <2>6 DEF SameStage
  <2>8. CASE Handed("request", p, n, to, "resolved", "resolved", then)
    <3>1. PICK r : r = Frame("sent", to, n, "resolved", "resolved", then)
      OBVIOUS
    <3>2. Turns("request", r)
      BY <2>8, <3>1 DEF Handed
    <3>3. r.pc = "sent" /\ r.ok = "resolved" /\ r.no = "resolved" /\ r.then = then
      BY <3>1, FrameFields
    <3>4. Serves(r) /\ Alone
      BY <1>1, <1>4, <3>3 DEF Serves, Alone
    <3> QED
      BY <1>1, <2>7, <3>2, <3>4, StagedRequest
  <2>9. CASE PassedOn("request", p, n, to, "resolved", "resolved", then)
    <3>1. PICK done : done = Settled(p.deliveries[n])
      OBVIOUS
    <3>2. PICK r : r = Returned(to, n, "resolved", "resolved", then, done)
      OBVIOUS
    <3>3. Turns("request", r)
      BY <2>9, <3>1, <3>2 DEF PassedOn
    <3>4. r.pc = "resolved" /\ r.then = then
      BY <3>2, ReturnedFields DEF Stops
    <3>5. Serves(r) /\ Alone
      BY <1>1, <1>4, <3>4 DEF Serves, Alone
    <3> QED
      BY <1>1, <2>7, <3>3, <3>5, StagedRequest
  <2> QED
    BY <2>6, <2>8, <2>9
<1>6. CASE /\ op' = s
           /\ frames' = [frames EXCEPT !["request"] =
                 [Idle EXCEPT !.pc = "resolved", !.at = i, !.then = then]]
  <2>1. PICK r : r = [Idle EXCEPT !.pc = "resolved", !.at = i, !.then = then]
    OBVIOUS
  <2>2. r \in Frames /\ r = Frame("resolved", "old", i, "idle", "idle", then)
    BY <1>1, <1>3, <1>4, <2>1, ResolvedFrame
  <2>3. r.pc = "resolved" /\ r.then = then
    BY <2>2, FrameFields
  <2>4. Turns("request", r)
    BY <1>1, <1>6, <2>1, <2>2, TurnsMade, Managing
  <2>5. SameStage /\ Serves(r) /\ Alone
    BY <1>1, <1>3, <1>4, <1>6, <2>3 DEF SameStage, Serves, Alone
  <2> QED
    BY <1>1, <2>4, <2>5, StagedRequest
<1> QED
  BY <1>2, <1>5, <1>6, ResolvesIs

(* The entry that a recorded completion is resolved as.                    *)
LEMMA Recorded ==
    ASSUME op \in Ops, op.finish # 0
    PROVE  \E o \in Ops :
              /\ o = [Appended(op, Report(op.finish)) EXCEPT !.finish = 0]
              /\ Len(op.deliveries) + 1 \in DOMAIN o.deliveries
              /\ o.deliveries = Appended(op, Report(op.finish)).deliveries
              /\ o.intent = op.intent /\ o.committed = op.committed /\ o.bound = op.bound
<1>1. op.finish \in 1..MaxTurns /\ 0 \in 0..MaxTurns
  BY Entries, BoundsAssumption
<1>2. PICK t \in Texts : t = Report(op.finish)
  BY <1>1, TextTypes
<1>3. PICK p : p = Appended(op, t)
  OBVIOUS
<1>4. /\ p \in Ops /\ Len(op.deliveries) + 1 \in DOMAIN p.deliveries
      /\ p.intent = op.intent /\ p.committed = op.committed /\ p.bound = op.bound
  BY <1>3, Appending, AppendedLast
<1>5. PICK o : o = [p EXCEPT !.finish = 0]
  OBVIOUS
<1>6. /\ o \in Ops /\ o.deliveries = p.deliveries
      /\ o.intent = p.intent /\ o.committed = p.committed /\ o.bound = p.bound
  BY <1>1, <1>4, <1>5, FinishSet
<1> QED
  BY <1>2, <1>3, <1>4, <1>5, <1>6

LEMMA StagedResolve ==
    ASSUME Sound, Staged, Resolve
    PROVE  Staged'
<1>1. /\ op \in Ops /\ frames["request"].pc = "idle" /\ ~Running
      /\ tasks' = tasks /\ cancelled' = cancelled
  BY DEF Sound, Resolve, Admitted, At
<1>2. ASSUME NEW i \in DOMAIN op.deliveries, NEW retry \in BOOLEAN, Resolves(op, i, retry)
      PROVE  Staged'
  BY <1>1, <1>2, StagedResolves
<1>3. ASSUME NEW retry \in BOOLEAN, op.finish # 0,
             Resolves([Appended(op, Report(op.finish)) EXCEPT !.finish = 0],
                      Len(op.deliveries) + 1, retry)
      PROVE  Staged'
  <2>1. PICK n : n = Len(op.deliveries) + 1
    OBVIOUS
  <2>2. PICK o \in Ops :
           /\ o = [Appended(op, Report(op.finish)) EXCEPT !.finish = 0] /\ n \in DOMAIN o.deliveries
           /\ o.intent = op.intent /\ o.committed = op.committed /\ o.bound = op.bound
    BY <1>1, <1>3, <2>1, Recorded
  <2>3. Resolves(o, n, retry)
    BY <1>3, <2>1, <2>2
  <2> QED
    BY <1>1, <2>2, <2>3, StagedResolves
<1> QED
  BY <1>2, <1>3 DEF Resolve

LEMMA StagedStart ==
    ASSUME Sound, Staged, Start
    PROVE  Staged'
<1>1. /\ FramesFit /\ NoneYet /\ op.phase = "none" /\ Goes("task", "ready")
      /\ tasks' = tasks /\ cancelled' = cancelled /\ "ready" \in Steps
  BY StartIs DEF Sound, history, Steps
<1>2. op'.intent = op.intent /\ op'.committed = op.committed
  BY StartFacts DEF Starting
<1>3. /\ ~op.intent /\ ~op.committed /\ frames["task"].pc = "idle"
      /\ frames["request"].pc = "idle"
  BY <1>1, Managing DEF NoneYet
<1>4. Turns("task", Gone("task", "ready")) /\ Gone("task", "ready").pc = "ready"
  BY <1>1, GoesFacts, Managing
<1>5. frames'["task"].pc = "ready" /\ frames'["request"].pc = "idle"
  BY <1>3, <1>4, Managing DEF Turns
<1>6. Orderly'
  BY <1>2, <1>3, <1>5 DEF Orderly, Moved, Alone, Serves, Stage, Flushes
<1> QED
  BY <1>6 DEF Staged

LEMMA StagedRestart ==
    ASSUME Sound, Staged, Restart
    PROVE  Staged'
<1>1. /\ op' = Recovered(op) /\ op \in Ops /\ tasks' = tasks /\ cancelled' = cancelled
      /\ frames'["task"] = Idle /\ frames'["request"] = Idle
  BY Managing DEF Restart, Sound
<1>2. op'.intent = op.intent /\ op'.committed = op.committed
  BY <1>1, RecoveredFacts
<1>3. frames'["task"].pc = "idle" /\ frames'["request"].pc = "idle"
  BY <1>1, IdleFrame
<1>4. Orderly => Orderly'
  BY <1>1, <1>2, <1>3 DEF Orderly, Moved, Alone, Serves, Stage, Flushes
<1> QED
  BY <1>1, <1>4 DEF Staged

LEMMA StagedInit == Init => Staged
<1> SUFFICES ASSUME Init PROVE Orderly
  BY DEF Staged
<1>1. /\ ~op.intent /\ ~op.committed /\ frames["task"].pc = "idle"
      /\ frames["request"].pc = "idle"
  BY IdleFrame, Managing DEF Init
<1> QED
  BY <1>1 DEF Orderly, Moved, Alone, Serves, Stage, Flushes

LEMMA StagedStep ==
    ASSUME Sound, Staged, [Next]_vars
    PROVE  Staged'
<1>1. CASE Sends \/ FlightEnds
  BY <1>1, StagedSend, StagedSendEnds, StagedWakeSent DEF Sends, FlightEnds
<1>2. CASE \/ WorkerStarts \/ WorkerEnds \/ SpawnsLate
           \/ \E m \in Managers : Exits(m) \/ Resumes(m) \/ WakeStep(m)
  BY <1>2, StagedElsewhere, StagedWake DEF WakeStep
<1>3. ASSUME NEW q \in Processes, Common(q) PROVE Staged'
  BY <1>3, StagedSentEnds, StagedRelease, StagedEnd, StagedAdopt, StagedReparentFails,
     StagedClose DEF Common, Transfer
<1>4. CASE Prepare
  BY <1>4, StagedPreparation, StagedBrief, StagedIntend, StagedCommit DEF Prepare
<1>5. CASE Flush
  BY <1>5, StagedFlush, StagedDrainFails DEF Flush
<1>6. CASE Fail \/ Activate \/ KicksOff \/ KickoffFails \/ Evidence \/ Finish
  BY <1>6, StagedFail, StagedActivation, StagedKicksOff
<1>7. CASE Reconciled \/ Resolved \/ Bind \/ Start \/ Resolve \/ Restart
  BY <1>7, StagedReconciled, StagedResolved, StagedBind, StagedStart, StagedResolve,
     StagedRestart
<1>8. CASE Cancel
  BY <1>8 DEF Cancel, Cancels, Staged
<1>10. CASE Reconcile
  BY <1>10, StagedReconciles DEF Reconcile
<1>9. CASE UNCHANGED vars
  BY <1>9, StagedStays DEF vars, journal, history, SameStage
<1> QED
  BY <1>1, <1>2, <1>3, <1>4, <1>5, <1>6, <1>7, <1>8, <1>9, <1>10, Managing
     DEF Next, TaskStep, RequestStep, Requests

-----------------------------------------------------------------------------
(* Nothing more is sent to the predecessor                                 *)

Toward(g) == g \notin flights => g.to = "new"

LEMMA DeliversToward ==
    ASSUME FramesFit, NEW q \in Processes, NEW o \in Ops, NEW i \in DOMAIN o.deliveries,
           NEW to \in Managers, NEW ok \in Oks, NEW no \in Nos, NEW then \in Thens,
           ok = "drain" => then = "evidence",
           ok = "release" => then \in {"evidence", "finish", "end", "idle"},
           Deliver(q, o, i, to, ok, no, then), to = "new"
    PROVE  \A g \in flights' : Toward(g)
<1>1. \/ Handed(q, o, i, to, ok, no, then)
      \/ PassedOn(q, o, i, to, ok, no, then)
  BY DeliverFacts
<1> QED
  BY <1>1 DEF Handed, PassedOn, Toward

LEMMA OldUntold ==
    ASSUME Sound, Orderly, op.committed, [Next]_vars
    PROVE  \A g \in flights' : Toward(g)
<1>0. /\ op \in Ops /\ FramesFit /\ op.intent
      /\ Stage(frames["task"]) /\ Serves(frames["request"])
  BY DEF Sound, Orderly, Moved
<1>1. ASSUME flights' \subseteq flights PROVE \A g \in flights' : Toward(g)
  BY <1>1 DEF Toward
<1>2. ASSUME NEW n \in 1..MaxMessages, NEW m \in Managers, Send(n, m)
      PROVE  \A g \in flights' : Toward(g)
  <2>1. m = "new" \/ Keeps(op, m)
    BY DEF Keeps, Held, Managers
  <2> QED
    BY <1>1, <1>2, <2>1 DEF Send, Toward
<1>3. ASSUME NEW m \in Managers, WakeSends(m)
      PROVE  \A g \in flights' : Toward(g)
  <2>1. Target = "new"
    BY DEF Target
  <2>2. \/ flights' = flights
        \/ /\ Current(m)
           /\ flights' = flights \cup
                 {[text |-> Report(worker.turn), to |-> m, at |-> 0, by |-> "wake"]}
    BY <1>3 DEF WakeSends
  <2> QED
    BY <1>1, <2>1, <2>2 DEF Current, Toward
<1>4. ASSUME NEW f \in flights, SendEnds(f) \/ WakeSent(f)
      PROVE  flights' \subseteq flights
  BY <1>4 DEF SendEnds, WakeSent
<1>5. ASSUME NEW q \in Processes, SentEnds(q) PROVE flights' \subseteq flights
  BY <1>5 DEF SentEnds
<1>6. ASSUME Quiet PROVE flights' \subseteq flights
  BY <1>6 DEF Quiet
<1>7. ASSUME NEW q \in Processes, Release(q)
      PROVE  \A g \in flights' : Toward(g)
  <2>1. q = "task" /\ frames["task"].pc = "release"
    BY <1>0, <1>7 DEF Release, At, Serves, Processes
  <2>2. PICK f : f = frames["task"]
    OBVIOUS
  <2>3. f.to = "new" /\ f.then \in {"evidence", "finish"}
    BY <1>0, <2>1, <2>2 DEF Stage, Releasing, Lasts
  <2>4. PICK open : open = {i \in DOMAIN op.deliveries :
                       Releasable(op.deliveries[i].text) /\ ~Settled(op.deliveries[i])}
    OBVIOUS
  <2>5. CASE open # {} /\ Deliver("task", op, First(open), f.to, "release", "end", f.then)
    <3>1. First(open) \in DOMAIN op.deliveries
      <4>1. open \in SUBSET Nat
        BY <1>0, <2>4, Entries
      <4> QED
        BY <2>4, <2>5, <4>1, FirstIs
    <3>2. "release" \in Oks /\ "end" \in Nos /\ f.then \in Thens /\ f.to \in Managers
      BY <2>3 DEF Oks, Nos, Thens, Managers
    <3> QED
      BY <1>0, <2>3, <2>5, <3>1, <3>2, DeliversToward, Managing
  <2>6. CASE flights' = flights
    BY <1>1, <2>6
  <2> QED
    BY <1>7, <2>1, <2>2, <2>4, <2>5, <2>6 DEF Release, Ending
<1>8. CASE Brief
  BY <1>0, <1>8 DEF Brief, At, Stage
<1>9. CASE KicksOff
  <2>1. PICK o \in Ops : \E i \in DOMAIN o.deliveries :
           Deliver("task", o, i, "new", "drain", "end", "evidence")
    BY <1>0, <1>9, KickoffEntry
  <2>2. "drain" \in Oks /\ "end" \in Nos /\ "evidence" \in Thens
    BY DEF Oks, Nos, Thens
  <2> QED
    BY <1>0, <2>1, <2>2, DeliversToward, Managing
<1>10. ASSUME NEW o \in Ops, o.committed = op.committed, NEW i \in DOMAIN o.deliveries,
              NEW retry, Resolves(o, i, retry)
       PROVE  \A g \in flights' : Toward(g)
  <2>1. PICK s, text, then : s = Settling(o, i) /\ text = o.deliveries[i].text
                             /\ then = Onward(o, i)
    OBVIOUS
  <2>2. s \in Ops /\ Len(s.deliveries) = Len(o.deliveries)
    BY <2>1, SettlingFacts
  <2>3. text \in Texts /\ then \in Thens /\ Owner(o) = "new"
    BY <1>10, <2>1, Entries DEF Onward, Thens, Owner
  <2>4. CASE Deliver("request", Appended(s, text), Len(o.deliveries) + 1, "new", "resolved",
                     "resolved", then)
    <3>1. PICK p : p = Appended(s, text)
      OBVIOUS
    <3>2. PICK n : n = Len(s.deliveries) + 1
      OBVIOUS
    <3>3. p \in Ops /\ n \in DOMAIN p.deliveries
      BY <2>2, <2>3, <3>1, <3>2, Appending, AppendedLast
    <3>4. Deliver("request", p, n, "new", "resolved", "resolved", then)
      BY <2>2, <2>4, <3>1, <3>2
    <3>5. "resolved" \in Oks /\ "resolved" \in Nos
      BY DEF Oks, Nos
    <3> QED
      BY <1>0, <2>3, <3>3, <3>4, <3>5, DeliversToward, Managing
  <2>5. CASE flights' = flights
    BY <1>1, <2>5
  <2> QED
    <3>1. \/ Deliver("request", Appended(s, text), Len(o.deliveries) + 1, Owner(o), "resolved",
                     "resolved", then)
          \/ flights' = flights
      BY <1>10, <2>1, ResolvesIs
    <3> QED
      BY <2>3, <2>4, <2>5, <3>1
<1>11. CASE Resolve
  <2>1. ASSUME NEW i \in DOMAIN op.deliveries, NEW retry \in BOOLEAN, Resolves(op, i, retry)
        PROVE  \A g \in flights' : Toward(g)
    BY <1>0, <1>10, <2>1
  <2>2. ASSUME NEW retry \in BOOLEAN, op.finish # 0,
               Resolves([Appended(op, Report(op.finish)) EXCEPT !.finish = 0],
                        Len(op.deliveries) + 1, retry)
        PROVE  \A g \in flights' : Toward(g)
    <3>1. PICK n : n = Len(op.deliveries) + 1
      OBVIOUS
    <3>2. PICK o \in Ops :
             /\ o = [Appended(op, Report(op.finish)) EXCEPT !.finish = 0]
             /\ n \in DOMAIN o.deliveries /\ o.committed = op.committed
      BY <1>0, <2>2, <3>1, Recorded
    <3>3. Resolves(o, n, retry)
      BY <2>2, <3>1, <3>2
    <3> QED
      BY <1>10, <3>2, <3>3
  <2> QED
    BY <1>11, <2>1, <2>2 DEF Resolve
<1>12. CASE Start
  BY <1>12 DEF Start, Sound, NoneYet
<1>13. CASE Fail \/ Restart \/ DrainFails
  BY <1>1, <1>13 DEF Fail, Restart, DrainFails
<1>14. CASE \/ WorkerStarts \/ WorkerEnds \/ SpawnsLate
            \/ \E m \in Managers : Exits(m) \/ Resumes(m)
  BY <1>1, <1>6, <1>14, QuietHost
<1>15. CASE \E m \in Managers : WakeStep(m)
  BY <1>1, <1>3, <1>6, <1>15, QuietHost DEF WakeStep
<1>16. ASSUME NEW q \in Processes, Common(q) PROVE \A g \in flights' : Toward(g)
  BY <1>1, <1>5, <1>6, <1>7, <1>16, QuietCommon DEF Common, Transfer
<1>17. CASE Prepare
  BY <1>1, <1>6, <1>8, <1>17, QuietPrepares DEF Prepare
<1>18. CASE Flush
  BY <1>1, <1>6, <1>13, <1>18, QuietFlush DEF Flush
<1>19. CASE Activate \/ KickoffFails \/ Evidence \/ Finish
  BY <1>1, <1>6, <1>19, QuietCompletes
<1>20. CASE Reconciled \/ Resolved \/ Cancel \/ Reconcile \/ Bind
  BY <1>1, <1>6, <1>20, QuietRequests
<1>21. CASE Sends \/ FlightEnds
  BY <1>1, <1>2, <1>4, <1>21 DEF Sends, FlightEnds
<1>22. CASE UNCHANGED vars
  BY <1>1, <1>22 DEF vars
<1> QED
  BY <1>9, <1>11, <1>12, <1>13, <1>14, <1>15, <1>16, <1>17, <1>18, <1>19, <1>20, <1>21, <1>22,
     Managing DEF Next, TaskStep, RequestStep, Requests

LEMMA HandoffStaged == Spec => []Staged
  BY SoundStep, StagedInit, StagedStep, HandoffSound, PTL DEF Spec

(* Once the transfer is committed, and unless a cancel was carried out     *)
(* before, no send to the predecessor begins: its own and its clients' are *)
(* held (held), the wakes know the successor (worker_wake_target), and     *)
(* every release that is still to come goes to the successor, because a    *)
(* task that released to the predecessor had failed before the transfer    *)
(* was intended, and no request releases unless it cancels.                *)
THEOREM OldHearsNothing == Spec => OldNotTold
<1>1. Sound /\ Staged /\ [Next]_vars =>
          [op.committed /\ ~cancelled => \A f \in flights' \ flights : f.to = "new"]_vars
  <2> SUFFICES ASSUME Sound, Staged, [Next]_vars, op.committed, ~cancelled,
                      NEW f \in flights' \ flights
               PROVE  f.to = "new"
    OBVIOUS
  <2>1. Orderly
    BY DEF Staged
  <2> QED
    BY <2>1, OldUntold DEF Toward
<1> QED
  BY <1>1, HandoffSound, HandoffStaged, PTL DEF Spec, OldNotTold

-----------------------------------------------------------------------------
(* Who awaits an entry that is open                                        *)

Opens == {"sending", "uncertain"}
Awaited(q, i) == frames[q].pc = "sent" /\ frames[q].at = i
Free(i) == \A q \in Processes : ~Awaited(q, i)

(* An awaited entry is open, by one process alone, and not by a captured   *)
(* send, which itself is not of a pending one; and a prompt that is being  *)
(* sent is awaited.                                                        *)
AwaitedOpen == \A q \in Processes : \A i \in DOMAIN op.deliveries :
                   Awaited(q, i) => op.deliveries[i].status \in Opens
AwaitedOnce == \A i : ~(Awaited("task", i) /\ Awaited("request", i))
CapturedOpen == \A f \in flights : f.at # 0 =>
                    op.deliveries[f.at].status # "pending" /\ Free(f.at)
PromptsAwaited == \A i \in DOMAIN op.deliveries :
                      op.deliveries[i].status = "sending" /\ ~Releasable(op.deliveries[i].text)
                          => ~Free(i)
Awaiting == AwaitedOpen /\ AwaitedOnce /\ CapturedOpen /\ PromptsAwaited

(* Entries keep what is known of them: an open one that nobody awaits may  *)
(* be settled or, without a send that captured it, wait again.             *)
Retains(i, s, t) ==
    \/ t = s
    \/ s \in Opens /\ t = "uncertain"
    \/ t = "reconciled" /\ Free(i)
    \/ /\ s \in Opens /\ t \in {"pending", "accepted"} /\ Free(i)
       /\ t = "pending" => \A f \in flights' : f.at # i
Rests(o, p) ==
    /\ Follows(o, p)
    /\ \A i \in DOMAIN p.deliveries :
          \/ i \in DOMAIN o.deliveries
             /\ Retains(i, o.deliveries[i].status, p.deliveries[i].status)
          \/ i \notin DOMAIN o.deliveries /\ p.deliveries[i].status \in {"pending", "reconciled"}

(* Nobody begins to await, or ends it.                                     *)
SameAwaits == /\ \A q \in Processes : \A i : Awaited(q, i)' <=> Awaited(q, i)
              /\ \A f \in flights' : f.at # 0 => f \in flights

LEMMA AwaitsOf ==
    ASSUME \A q \in Processes : frames[q].pc = "sent" \/ frames'[q].pc = "sent" =>
               frames'[q] = frames[q]
    PROVE  \A q \in Processes : \A i : Awaited(q, i)' <=> Awaited(q, i)
  BY DEF Awaited

LEMMA RestsSame ==
    ASSUME NEW o, NEW p, p.deliveries = o.deliveries
    PROVE  Rests(o, p)
  BY DEF Rests, Follows, Retains

LEMMA AwaitingRests ==
    ASSUME Sound, Awaiting, Rests(op, op'), SameAwaits
    PROVE  Awaiting'
<1>0. /\ \A q \in Processes : frames[q].pc = "sent" => frames[q].at \in DOMAIN op.deliveries
      /\ \A f \in flights : f.at # 0 => f.at \in DOMAIN op.deliveries
  BY DEF Sound, FramesFit, FrameOK, FlightsFit, FlightOK
<1>1. \A i : Free(i)' <=> Free(i)
  BY DEF Free, SameAwaits
<1>2. AwaitedOpen'
  <2> SUFFICES ASSUME NEW q \in Processes, NEW i \in DOMAIN op'.deliveries, Awaited(q, i)'
               PROVE  op'.deliveries[i].status \in Opens
    BY DEF AwaitedOpen
  <2>1. Awaited(q, i) /\ i \in DOMAIN op.deliveries /\ ~Free(i)
    BY <1>0 DEF SameAwaits, Awaited, Free
  <2>2. op.deliveries[i].status \in Opens
    BY <2>1 DEF Awaiting, AwaitedOpen
  <2> QED
    BY <2>1, <2>2 DEF Rests, Retains, Opens
<1>3. AwaitedOnce'
  BY Managing DEF Awaiting, AwaitedOnce, SameAwaits
<1>4. CapturedOpen'
  <2> SUFFICES ASSUME NEW f \in flights', f.at # 0
               PROVE  op'.deliveries[f.at].status # "pending" /\ Free(f.at)'
    BY DEF CapturedOpen
  <2>1. f \in flights /\ f.at \in DOMAIN op.deliveries /\ f.at \in DOMAIN op'.deliveries
    BY <1>0 DEF SameAwaits, Rests, Follows
  <2>2. op.deliveries[f.at].status # "pending" /\ Free(f.at)
    BY <2>1 DEF Awaiting, CapturedOpen
  <2> QED
    BY <1>1, <2>1, <2>2 DEF Rests, Retains, Opens
<1>5. PromptsAwaited'
  <2> SUFFICES ASSUME NEW i \in DOMAIN op'.deliveries, op'.deliveries[i].status = "sending",
                      ~Releasable(op'.deliveries[i].text)
               PROVE  ~Free(i)'
    BY DEF PromptsAwaited
  <2>1. i \in DOMAIN op.deliveries /\ op.deliveries[i].status = "sending"
        /\ op'.deliveries[i].text = op.deliveries[i].text
    BY DEF Rests, Retains, Follows
  <2> QED
    BY <1>1, <2>1 DEF Awaiting, PromptsAwaited
<1> QED
  BY <1>2, <1>3, <1>4, <1>5 DEF Awaiting

(* A process hands an entry over.                                          *)
LEMMA AwaitingHanded ==
    ASSUME Sound, Awaiting, NEW q \in Processes, frames[q].pc # "sent", NEW o \in Ops,
           Rests(op, o), NEW i \in DOMAIN o.deliveries, NEW to, NEW ok, NEW no, NEW then,
           flights \subseteq flights', Handed(q, o, i, to, ok, no, then)
    PROVE  Awaiting'
<1>0. /\ \A p \in Processes : frames[p].pc = "sent" => frames[p].at \in DOMAIN op.deliveries
      /\ \A f \in flights : f.at # 0 => f.at \in DOMAIN op.deliveries
  BY DEF Sound, FramesFit, FrameOK, FlightsFit, FlightOK
<1>1. /\ o.deliveries[i].status = "pending" /\ Marks(o, op', i, "sending")
      /\ frames'[q].pc = "sent" /\ frames'[q].at = i
      /\ \A p \in Processes : p # q => frames'[p] = frames[p]
      /\ \A f \in flights' : f.at # 0 => f \in flights
  <2>1. PICK r : r = Frame("sent", to, i, ok, no, then)
    OBVIOUS
  <2>2. r.pc = "sent" /\ r.at = i
    BY <2>1, FrameFields
  <2>3. Turns(q, r)
    BY <2>1 DEF Handed
  <2> QED
    BY <2>2, <2>3 DEF Handed, Turns
<1>2. /\ \A j : Awaited(q, j)' <=> j = i
      /\ \A p \in Processes : p # q => \A j : Awaited(p, j)' <=> Awaited(p, j)
      /\ \A j : ~Awaited(q, j)
  BY <1>1 DEF Awaited
<1>3. ASSUME NEW p \in Processes, NEW j, Awaited(p, j)
      PROVE  j \in DOMAIN op.deliveries /\ j \in DOMAIN o.deliveries /\ j # i
             /\ o.deliveries[j].status \in Opens
  <2>1. j \in DOMAIN op.deliveries /\ op.deliveries[j].status \in Opens /\ ~Free(j)
    BY <1>0, <1>3 DEF Awaited, Awaiting, AwaitedOpen, Free
  <2>2. j \in DOMAIN o.deliveries /\ o.deliveries[j].status \in Opens
    BY <2>1 DEF Rests, Follows, Retains, Opens
  <2> QED
    BY <1>1, <2>1, <2>2 DEF Opens
<1>4. AwaitedOpen'
  <2> SUFFICES ASSUME NEW p \in Processes, NEW j \in DOMAIN op'.deliveries, Awaited(p, j)'
               PROVE  op'.deliveries[j].status \in Opens
    BY DEF AwaitedOpen
  <2>1. CASE p = q
    BY <1>1, <1>2, <2>1 DEF Marks, Opens
  <2>2. CASE p # q
    BY <1>1, <1>2, <1>3, <2>2 DEF Marks
  <2> QED
    BY <2>1, <2>2
<1>5. AwaitedOnce'
  BY <1>2, <1>3, Managing DEF AwaitedOnce
<1>6. CapturedOpen'
  <2> SUFFICES ASSUME NEW f \in flights', f.at # 0
               PROVE  op'.deliveries[f.at].status # "pending" /\ Free(f.at)'
    BY DEF CapturedOpen
  <2>1. f \in flights /\ f.at \in DOMAIN op.deliveries
    BY <1>0, <1>1
  <2>2. op.deliveries[f.at].status # "pending" /\ Free(f.at)
    BY <2>1 DEF Awaiting, CapturedOpen
  <2>4. f.at \in DOMAIN o.deliveries /\ o.deliveries[f.at].status # "pending"
    <3>1. f \in flights'
      OBVIOUS
    <3> QED
      BY <2>1, <2>2, <3>1 DEF Rests, Follows, Retains, Opens
  <2>5. f.at # i
    BY <1>1, <2>4
  <2>6. Free(f.at)'
    BY <1>2, <2>2, <2>5 DEF Free
  <2> QED
    BY <1>1, <2>4, <2>5, <2>6 DEF Marks
<1>7. PromptsAwaited'
  <2> SUFFICES ASSUME NEW j \in DOMAIN op'.deliveries, op'.deliveries[j].status = "sending",
                      ~Releasable(op'.deliveries[j].text)
               PROVE  ~Free(j)'
    BY DEF PromptsAwaited
  <2>1. CASE j = i
    BY <1>2, <2>1 DEF Free
  <2>2. CASE j # i
    <3>1. j \in DOMAIN o.deliveries /\ o.deliveries[j].status = "sending"
          /\ op'.deliveries[j].text = o.deliveries[j].text
      BY <1>1, <2>2 DEF Marks
    <3>2. j \in DOMAIN op.deliveries /\ op.deliveries[j].status = "sending"
          /\ o.deliveries[j].text = op.deliveries[j].text
      BY <3>1 DEF Rests, Follows, Retains
    <3>3. ~Free(j)
      BY <3>1, <3>2 DEF Awaiting, PromptsAwaited
    <3> QED
      BY <1>2, <3>3 DEF Free
  <2> QED
    BY <2>1, <2>2
<1> QED
  BY <1>4, <1>5, <1>6, <1>7 DEF Awaiting

(* A process learns what became of the entry it awaited.                   *)
LEMMA AwaitingEnds ==
    ASSUME Sound, Awaiting, NEW q \in Processes, NEW i \in DOMAIN op.deliveries, Awaited(q, i),
           NEW s, s # "sending", Marks(op, op', i, s), NEW r, Turns(q, r), r.pc # "sent",
           flights' \subseteq flights
    PROVE  Awaiting'
<1>1. /\ \A j : ~Awaited(q, j)'
      /\ \A p \in Processes : p # q => \A j : Awaited(p, j)' <=> Awaited(p, j)
      /\ \A j : Awaited(q, j) => j = i
  BY DEF Awaited, Turns
<1>2. \A p \in Processes : p # q => ~Awaited(p, i)
  BY Managing DEF Awaiting, AwaitedOnce
<1>3. AwaitedOpen'
  BY <1>1, <1>2 DEF AwaitedOpen, Awaiting, Marks
<1>4. AwaitedOnce'
  BY <1>1, Managing DEF AwaitedOnce
<1>5. CapturedOpen'
  <2> SUFFICES ASSUME NEW f \in flights', f.at # 0
               PROVE  op'.deliveries[f.at].status # "pending" /\ Free(f.at)'
    BY DEF CapturedOpen
  <2>1. f \in flights /\ f.at \in DOMAIN op.deliveries
    BY DEF Sound, FlightsFit, FlightOK
  <2>2. op.deliveries[f.at].status # "pending" /\ Free(f.at)
    BY <2>1 DEF Awaiting, CapturedOpen
  <2>3. f.at # i
    BY <2>2 DEF Free
  <2> QED
    BY <1>1, <2>1, <2>2, <2>3 DEF Free, Marks
<1>6. PromptsAwaited'
  <2> SUFFICES ASSUME NEW j \in DOMAIN op'.deliveries, op'.deliveries[j].status = "sending",
                      ~Releasable(op'.deliveries[j].text)
               PROVE  ~Free(j)'
    BY DEF PromptsAwaited
  <2>1. j # i /\ j \in DOMAIN op.deliveries /\ op.deliveries[j].status = "sending"
        /\ op'.deliveries[j].text = op.deliveries[j].text
    BY DEF Marks
  <2>2. ~Free(j)
    BY <2>1 DEF Awaiting, PromptsAwaited
  <2> QED
    BY <1>1, <2>1, <2>2 DEF Free
<1> QED
  BY <1>3, <1>4, <1>5, <1>6 DEF Awaiting

(* The steps after which everybody awaits what they awaited                *)
Resting == Rests(op, op') /\ SameAwaits

LEMMA RestingFrom ==
    ASSUME Rests(op, op'), flights' \subseteq flights,
           \A q \in Processes : frames[q].pc = "sent" \/ frames'[q].pc = "sent" =>
               frames'[q] = frames[q]
    PROVE  Resting
  BY AwaitsOf DEF Resting, SameAwaits

LEMMA RestingQuiet ==
    ASSUME Quiet
    PROVE  Resting
  BY RestsSame, RestingFrom DEF Quiet

LEMMA RestsAppended ==
    ASSUME NEW a, NEW o \in Ops, Rests(a, o), NEW text \in Texts
    PROVE  Rests(a, Appended(o, text))
<1>1. PICK p : p = Appended(o, text)
  OBVIOUS
<1>2. PICK n : n = Len(o.deliveries) + 1
  OBVIOUS
<1>3. /\ Follows(o, p) /\ DOMAIN p.deliveries = 1..n /\ n \notin DOMAIN o.deliveries
      /\ \A j \in DOMAIN o.deliveries : p.deliveries[j] = o.deliveries[j]
      /\ p.deliveries[n] = [text |-> text, status |-> "pending"]
  BY <1>1, <1>2, Appending
<1>4. DOMAIN p.deliveries = DOMAIN o.deliveries \cup {n}
  <2>1. DOMAIN o.deliveries = 1..Len(o.deliveries) /\ Len(o.deliveries) \in Nat
    BY Entries
  <2> QED
    BY <1>2, <1>3, <2>1
<1>5. Follows(a, p)
  BY <1>3, FollowsThrough DEF Rests
<1>6. DOMAIN a.deliveries \subseteq DOMAIN o.deliveries
  BY DEF Rests, Follows
<1>7. ASSUME NEW i \in DOMAIN p.deliveries
      PROVE  \/ i \in DOMAIN a.deliveries
                /\ Retains(i, a.deliveries[i].status, p.deliveries[i].status)
             \/ i \notin DOMAIN a.deliveries /\ p.deliveries[i].status \in {"pending", "reconciled"}
  <2>1. CASE i = n
    BY <1>3, <1>6, <2>1
  <2>2. CASE i \in DOMAIN o.deliveries
    <3>1. p.deliveries[i] = o.deliveries[i]
      BY <1>3, <2>2
    <3> QED
      BY <2>2, <3>1 DEF Rests
  <2> QED
    BY <1>4, <2>1, <2>2
<1> QED
  BY <1>1, <1>5, <1>7 DEF Rests

LEMMA RestsSettling ==
    ASSUME NEW a, NEW o \in Ops, Rests(a, o), NEW i \in DOMAIN o.deliveries, Free(i)
    PROVE  Rests(a, Settling(o, i))
<1>1. PICK p : p = Settling(o, i)
  OBVIOUS
<1>2. Follows(o, p) /\ Marks(o, p, i, "reconciled")
  BY <1>1, SettlingFacts
<1>3. Follows(a, p)
  BY <1>2, FollowsThrough DEF Rests
<1> QED
  BY <1>1, <1>2, <1>3 DEF Rests, Marks, Retains

LEMMA RestsShut ==
    ASSUME NEW o, NEW p, Shut(o, p)
    PROVE  Rests(o, p)
<1>1. Follows(o, p)
  BY ShutFollows
<1> QED
  BY <1>1 DEF Rests, Shut, Retains, Opens

(* The outcome of a send that no frame awaits.                             *)
LEMMA RestsNoted ==
    ASSUME Sound, Awaiting, NEW f \in flights, NEW x \in Outcomes(f.to),
           flights' \subseteq flights \ {f}, NEW p, p.deliveries = Noted(op, f.at, x).deliveries
    PROVE  Rests(op, p)
<1>1. op \in Ops /\ f \in Flight /\ FlightOK(f)
  BY DEF Sound, FlightsFit
<1>2. /\ f.at \in Nat
      /\ f.at # 0 => f.at \in DOMAIN op.deliveries
      /\ x \in [result : {"accepted", "rejected", "uncertain"}, reached : BOOLEAN]
      /\ x.result \in {"accepted", "rejected", "uncertain"}
  BY <1>1, OutcomesFacts DEF Flight, FlightOK
<1>3. PICK n : n = Noted(op, f.at, x)
  OBVIOUS
<1>4. Follows(op, n) /\ Captured(op, n, f.at, x)
  BY <1>1, <1>2, <1>3, NotedFacts
<1>5. CASE n = op
  BY <1>3, <1>5, RestsSame
<1>6. ASSUME f.at # 0, op.deliveries[f.at].status \in {"sending", "uncertain"}, NEW s,
             s = IF x.result = "rejected" THEN "pending" ELSE x.result, Marks(op, n, f.at, s)
      PROVE  Rests(op, p)
  <2>1. Free(f.at)
    BY <1>6 DEF Awaiting, CapturedOpen
  <2>2. \A g \in flights' : g.at # f.at
    BY <1>6 DEF Sound, FlightsFit
  <2>3. s \in {"accepted", "pending", "uncertain"}
    BY <1>2, <1>6
  <2>4. Retains(f.at, op.deliveries[f.at].status, s)
    BY <1>6, <2>1, <2>2, <2>3 DEF Retains, Opens
  <2>5. \A i : Retains(i, op.deliveries[i].status, op.deliveries[i].status)
    BY DEF Retains
  <2>6. Rests(op, n)
    BY <1>4, <1>6, <2>4, <2>5 DEF Rests, Marks
  <2> QED
    BY <1>3, <2>6 DEF Rests, Follows
<1> QED
  BY <1>4, <1>5, <1>6 DEF Captured

LEMMA RestingSend ==
    ASSUME Sound, NEW n \in 1..MaxMessages, NEW m \in Managers, Send(n, m)
    PROVE  Resting
<1>1. op \in Ops /\ Message(n) \in Texts /\ frames' = frames
  BY TextTypes DEF Sound, Send
<1>2. Rests(op, op')
  <2>1. Rests(op, op)
    BY RestsSame
  <2> QED
    BY <1>1, <2>1, RestsAppended, RestsSame DEF Send
<1>3. \A f \in flights' : f.at # 0 => f \in flights
  BY DEF Send
<1> QED
  BY <1>1, <1>2, <1>3, AwaitsOf DEF Resting, SameAwaits

LEMMA RestingSendEnds ==
    ASSUME Sound, Awaiting, NEW f \in flights, SendEnds(f)
    PROVE  Resting
<1>1. flights' = flights \ {f} /\ frames' = frames
  BY DEF SendEnds
<1>2. PICK x \in Outcomes(f.to) : op' = Noted(op, f.at, x)
  BY DEF SendEnds
<1>3. Rests(op, op')
  BY <1>1, <1>2, RestsNoted
<1> QED
  BY <1>1, <1>3, RestingFrom

(* A wake inside a flush takes the task with it, which awaits no entry.    *)
LEMMA WakeFrames ==
    ASSUME Sound, NEW f \in flights, WakeSent(f)
    PROVE  \/ frames' = frames
           \/ \E g : Turns("task", g) /\ g.pc = "fail" /\ frames["task"].pc # "sent"
<1>1. FramesFit /\ WakesFit /\ f.to \in Managers
  BY DEF Sound, FlightsFit, Flight
<1>2. \/ frames' = frames
      \/ wakes[f.to].inline /\ frames' = [frames EXCEPT !["task"].pc = "fail"]
  BY DEF WakeSent
<1>3. CASE wakes[f.to].inline /\ frames' = [frames EXCEPT !["task"].pc = "fail"]
  <2>1. PICK g : g = [frames["task"] EXCEPT !.pc = "fail"]
    OBVIOUS
  <2>2. frames["task"] \in Frames /\ frames["task"].pc # "sent"
    BY <1>1, <1>3, Managing DEF WakesFit, FramesFit
  <2>3. g \in Frames /\ g.pc = "fail"
    BY <2>1, <2>2 DEF Frames, Steps
  <2>4. Turns("task", g)
    BY <1>1, <1>3, <2>1, <2>3, TurnsMade, Managing
  <2> QED
    BY <2>2, <2>3, <2>4
<1> QED
  BY <1>2, <1>3

LEMMA RestingWakeSent ==
    ASSUME Sound, Awaiting, NEW f \in flights, WakeSent(f)
    PROVE  Resting
<1>1. op \in Ops /\ flights' = flights \ {f} /\ f \in Flight /\ FlightOK(f)
  BY DEF Sound, WakeSent, FlightsFit
<1>2. PICK x \in Outcomes(f.to) : \/ op' = Noted(op, f.at, x)
                                  \/ op' = Told(Noted(op, f.at, x), f.text.n)
  BY DEF WakeSent
<1>3. PICK p : p = Noted(op, f.at, x)
  OBVIOUS
<1>4. p \in Ops
  <2>1. f.at \in Nat /\ (f.at # 0 => f.at \in DOMAIN op.deliveries)
    BY <1>1 DEF Flight, FlightOK
  <2>2. x \in [result : {"accepted", "rejected", "uncertain"}, reached : BOOLEAN]
    BY OutcomesFacts
  <2> QED
    BY <1>1, <1>3, <2>1, <2>2, NotedFacts
<1>5. op'.deliveries = p.deliveries
  BY <1>2, <1>3, <1>4, ToldFacts
<1>6. Rests(op, op')
  BY <1>1, <1>3, <1>5, RestsNoted
<1>7. \A q \in Processes : frames[q].pc = "sent" \/ frames'[q].pc = "sent" =>
          frames'[q] = frames[q]
  <2>1. CASE frames' = frames
    BY <2>1
  <2>2. ASSUME NEW g, Turns("task", g), g.pc = "fail", frames["task"].pc # "sent"
        PROVE  \A q \in Processes : frames[q].pc = "sent" \/ frames'[q].pc = "sent" =>
                   frames'[q] = frames[q]
    BY <2>2, QuietTurn, Managing
  <2> QED
    BY <2>1, <2>2, WakeFrames
<1> QED
  BY <1>1, <1>6, <1>7, RestingFrom

LEMMA RestingWakeSends ==
    ASSUME Sound, NEW m \in Managers, WakeSends(m)
    PROVE  Resting
<1>1. op \in Ops /\ WatchOK /\ HistoryOK /\ WakesFit /\ frames' = frames
      /\ wakes[m].pc = "send"
  BY DEF Sound, WakeSends
<1>2. CASE Current(m) /\ op' = Told(Appended(op, Report(worker.turn)), worker.turn)
           /\ flights' = flights
  <2>1. worker.turn \in 1..MaxTurns
    <3>1. wakes[m].turn >= 1 /\ worker.turn = wakes[m].turn
      BY <1>1, <1>2 DEF WakesFit, Current
    <3> QED
      BY <1>1, <3>1, Numbers
  <2>2. PICK text \in Texts : text = Report(worker.turn)
    BY <2>1, TextTypes
  <2>3. PICK p : p = Appended(op, text)
    OBVIOUS
  <2>4. p \in Ops
    BY <1>1, <2>3, Appending
  <2>5. Rests(op, p)
    <3>1. Rests(op, op)
      BY RestsSame
    <3> QED
      BY <1>1, <2>3, <3>1, RestsAppended
  <2>6. op'.deliveries = p.deliveries
    BY <1>2, <2>2, <2>3, <2>4, ToldFacts
  <2>7. Rests(op, op')
    BY <2>5, <2>6 DEF Rests, Follows
  <2> QED
    BY <1>1, <1>2, <2>7, RestingFrom
<1>3. CASE op' = op
  <2>1. \A f \in flights' : f.at # 0 => f \in flights
    BY DEF WakeSends
  <2> QED
    BY <1>1, <1>3, <2>1, RestsSame, AwaitsOf DEF Resting, SameAwaits
<1> QED
  BY <1>2, <1>3 DEF WakeSends

LEMMA RestingDrainFails ==
    ASSUME Sound, Awaiting, DrainFails
    PROVE  Resting
<1>1. FramesFit /\ Goes("task", "fail") /\ frames["task"].pc # "sent" /\ flights' \subseteq flights
  BY DEF Sound, DrainFails
<1>2. \A q \in Processes : frames[q].pc = "sent" \/ frames'[q].pc = "sent" =>
          frames'[q] = frames[q]
  <2>1. PICK g : g = Gone("task", "fail")
    OBVIOUS
  <2>2. Turns("task", g) /\ g.pc = "fail"
    BY <1>1, <2>1, PlainSteps, GoesFacts, Managing
  <2> QED
    BY <1>1, <2>2, QuietTurn, Managing
<1>3. PICK sends : /\ flights' = flights \ sends /\ sends \subseteq flights
                   /\ \/ op' = op
                      \/ \E f \in sends : \E x \in Outcomes(f.to) : op' = Noted(op, f.at, x)
  BY DEF DrainFails
<1>4. Rests(op, op')
  <2>1. CASE op' = op
    BY <2>1, RestsSame
  <2>2. ASSUME NEW f \in sends, NEW x \in Outcomes(f.to), op' = Noted(op, f.at, x)
        PROVE  Rests(op, op')
    <3>1. f \in flights /\ flights' \subseteq flights \ {f}
      BY <1>3, <2>2
    <3> QED
      BY <2>2, <3>1, RestsNoted
  <2> QED
    BY <1>3, <2>1, <2>2
<1> QED
  BY <1>1, <1>2, <1>4, RestingFrom

LEMMA RestingFail ==
    ASSUME Sound, Fail
    PROVE  Resting
<1>1. op \in Ops /\ FramesFit /\ flights' = flights /\ frames["task"].pc = "fail"
      /\ (Ends("task") \/ Goes("task", "close"))
  BY DEF Sound, Fail, At
<1>2. Rests(op, op')
  BY <1>1, FailFacts, RestsShut
<1>3. \E g : Turns("task", g) /\ g.pc # "sent"
  BY <1>1, PlainSteps, GoesFacts, EndsFacts, IdleFrame, Managing
<1>4. \A q \in Processes : frames[q].pc = "sent" \/ frames'[q].pc = "sent" =>
          frames'[q] = frames[q]
  BY <1>1, <1>3, QuietTurn, Managing
<1> QED
  BY <1>1, <1>2, <1>4, RestingFrom

(* A delivery hands its entry over, or passes it on.                       *)
LEMMA RestingPassedOn ==
    ASSUME NEW q \in Processes, frames[q].pc # "sent", NEW o, Rests(op, o), NEW i,
           NEW to, NEW ok \in Oks, NEW no \in Nos, NEW then, PassedOn(q, o, i, to, ok, no, then)
    PROVE  Resting
<1>1. op' = o /\ flights' = flights
  BY DEF PassedOn
<1>2. PICK r : r = Returned(to, i, ok, no, then, Settled(o.deliveries[i]))
  OBVIOUS
<1>3. Turns(q, r) /\ r.pc \in {ok, no}
  BY <1>2 DEF PassedOn
<1>4. r.pc # "sent"
  BY <1>3 DEF Oks, Nos
<1> QED
  BY <1>1, <1>3, <1>4, QuietTurn, RestingFrom

LEMMA AwaitingDelivers ==
    ASSUME Sound, Awaiting, NEW q \in Processes, frames[q].pc # "sent", NEW o \in Ops,
           Rests(op, o), NEW i \in DOMAIN o.deliveries, NEW to \in Managers, NEW ok \in Oks,
           NEW no \in Nos, NEW then \in Thens, ok = "drain" => then = "evidence",
           ok = "release" => then \in {"evidence", "finish", "end", "idle"},
           Deliver(q, o, i, to, ok, no, then)
    PROVE  Awaiting'
<1>1. FramesFit
  BY DEF Sound
<1>2. \/ Handed(q, o, i, to, ok, no, then)
      \/ PassedOn(q, o, i, to, ok, no, then)
  BY <1>1, DeliverFacts
<1>3. CASE Handed(q, o, i, to, ok, no, then)
  <2>1. flights \subseteq flights'
    BY <1>3 DEF Handed
  <2> QED
    BY <1>3, <2>1, AwaitingHanded
<1>4. CASE PassedOn(q, o, i, to, ok, no, then)
  BY <1>4, RestingPassedOn, AwaitingRests DEF Resting
<1> QED
  BY <1>2, <1>3, <1>4

(* The entry that a release sends next, or how it goes on.                 *)
LEMMA ReleaseEntry ==
    ASSUME Sound, NEW q \in Processes, Release(q)
    PROVE  /\ frames[q].pc = "release" /\ frames[q].to \in Managers /\ frames[q].then \in Thens
           /\ frames[q].then \in {"evidence", "finish", "end", "idle"}
           /\ \/ \E i \in DOMAIN op.deliveries :
                    /\ Releasable(op.deliveries[i].text) /\ ~Settled(op.deliveries[i])
                    /\ Deliver(q, op, i, frames[q].to, "release", Ending(q), frames[q].then)
              \/ /\ \A i \in DOMAIN op.deliveries :
                       Releasable(op.deliveries[i].text) => Settled(op.deliveries[i])
                 /\ Goes(q, frames[q].then) /\ op' = op /\ flights' = flights
<1>1. op \in Ops /\ FramesFit /\ frames[q].pc = "release"
  BY DEF Sound, Release, At
<1>2. PICK f : f = frames[q]
  OBVIOUS
<1>3. /\ f.to \in Managers /\ f.then \in Thens
      /\ f.then \in {"evidence", "finish", "end", "idle"}
  BY <1>1, <1>2, FrameTypes DEF FramesFit, FrameOK, Follow
<1>4. PICK open : open = {i \in DOMAIN op.deliveries :
                     Releasable(op.deliveries[i].text) /\ ~Settled(op.deliveries[i])}
  OBVIOUS
<1>5. CASE open # {} /\ Deliver(q, op, First(open), f.to, "release", Ending(q), f.then)
  <2>1. First(open) \in open
    <3>1. open \in SUBSET Nat
      BY <1>1, <1>4, Entries
    <3> QED
      BY <1>5, <3>1, FirstIs
  <2>2. PICK i : i = First(open)
    OBVIOUS
  <2>3. /\ i \in DOMAIN op.deliveries
        /\ Releasable(op.deliveries[i].text) /\ ~Settled(op.deliveries[i])
    BY <1>4, <2>1, <2>2
  <2>4. Deliver(q, op, i, f.to, "release", Ending(q), f.then)
    BY <1>5, <2>2
  <2> QED
    BY <1>1, <1>2, <1>3, <2>3, <2>4
<1>6. CASE open = {} /\ Goes(q, f.then) /\ op' = op /\ flights' = flights
  BY <1>1, <1>2, <1>3, <1>4, <1>6
<1> QED
  BY <1>2, <1>4, <1>5, <1>6 DEF Release

LEMMA AwaitingRelease ==
    ASSUME Sound, Awaiting, NEW q \in Processes, Release(q)
    PROVE  Awaiting'
<1>1. /\ op \in Ops /\ FramesFit /\ Rests(op, op) /\ Ending(q) \in Nos /\ "release" \in Oks
  BY RestsSame DEF Sound, Ending, Nos, Oks
<1>2. PICK to \in Managers, then \in Thens :
         /\ frames[q].pc = "release" /\ then \in {"evidence", "finish", "end", "idle"}
         /\ \/ \E i \in DOMAIN op.deliveries :
                  Deliver(q, op, i, to, "release", Ending(q), then)
            \/ Goes(q, then) /\ op' = op /\ flights' = flights
  BY ReleaseEntry
<1>3. ASSUME NEW i \in DOMAIN op.deliveries, Deliver(q, op, i, to, "release", Ending(q), then)
      PROVE  Awaiting'
  BY <1>1, <1>2, <1>3, AwaitingDelivers
<1>4. CASE Goes(q, then) /\ op' = op /\ flights' = flights
  <2>1. PICK g : g = Gone(q, then)
    OBVIOUS
  <2>2. then \in Steps /\ then # "sent"
    BY <1>2 DEF Steps
  <2>3. Turns(q, g) /\ g.pc = then
    BY <1>1, <1>4, <2>1, <2>2, GoesFacts
  <2>4. Resting
    BY <1>1, <1>2, <1>4, <2>2, <2>3, QuietTurn, RestingFrom
  <2> QED
    BY <2>4, AwaitingRests DEF Resting
<1> QED
  BY <1>2, <1>3, <1>4

LEMMA RestsLists ==
    ASSUME op \in Ops, NEW text \in Texts
    PROVE  Rests(op, Lists(op, text))
<1>1. Rests(op, op)
  BY RestsSame
<1> QED
  BY <1>1, RestsAppended DEF Lists

LEMMA AwaitingBrief ==
    ASSUME Sound, Awaiting, Brief
    PROVE  Awaiting'
<1>1. /\ op \in Ops /\ FramesFit /\ frames["task"].pc = "brief" /\ Preparation \in Texts
  BY TextTypes DEF Sound, Brief, At
<1>2. PICK o, i : o = Lists(op, Preparation) /\ i = First(Places(o, Preparation))
  OBVIOUS
<1>3. CASE Deliver("task", o, i, "old", "receipt", "end", "idle")
  <2>1. o \in Ops /\ i \in DOMAIN o.deliveries /\ Rests(op, o)
    BY <1>1, <1>2, Listed, RestsLists
  <2>2. "receipt" \in Oks /\ "end" \in Nos /\ "idle" \in Thens
    BY DEF Oks, Nos, Thens
  <2> QED
    BY <1>1, <1>3, <2>1, <2>2, Managing, AwaitingDelivers
<1>4. CASE Ends("task") /\ op' = op /\ flights' = flights
  <2>1. Turns("task", Idle) /\ Idle.pc = "idle"
    BY <1>1, <1>4, EndsFacts, IdleFrame, Managing
  <2>2. Resting
    BY <1>1, <1>4, <2>1, QuietTurn, RestsSame, RestingFrom, Managing
  <2> QED
    BY <2>2, AwaitingRests DEF Resting
<1> QED
  BY <1>2, <1>3, <1>4 DEF Brief

(* The kickoff's entry.                                                    *)
LEMMA KickoffRests ==
    ASSUME op \in Ops, KicksOff
    PROVE  \E o \in Ops : \E i \in DOMAIN o.deliveries :
              /\ Rests(op, o) /\ o.deliveries[i].text = Kickoff
              /\ Deliver("task", o, i, "new", "drain", "end", "evidence")
<1>1. PICK o \in Ops : \E i \in DOMAIN o.deliveries :
         /\ o.deliveries[i].text = Kickoff /\ o.deliveries = Lists(op, Kickoff).deliveries
         /\ Deliver("task", o, i, "new", "drain", "end", "evidence")
  BY KickoffEntry
<1>2. Rests(op, Lists(op, Kickoff))
  BY TextTypes, RestsLists
<1>3. Rests(op, o)
  BY <1>1, <1>2 DEF Rests, Follows
<1> QED
  BY <1>1, <1>3

LEMMA AwaitingKicksOff ==
    ASSUME Sound, Awaiting, KicksOff
    PROVE  Awaiting'
<1>1. op \in Ops /\ frames["task"].pc = "kickoff"
  BY DEF Sound, KicksOff, At
<1>2. PICK o \in Ops : \E i \in DOMAIN o.deliveries :
         /\ Rests(op, o) /\ Deliver("task", o, i, "new", "drain", "end", "evidence")
  BY <1>1, KickoffRests
<1>3. "drain" \in Oks /\ "end" \in Nos /\ "evidence" \in Thens
  BY DEF Oks, Nos, Thens
<1> QED
  BY <1>1, <1>2, <1>3, Managing, AwaitingDelivers

(* A frame that is told the outcome of its entry.                          *)
LEMMA SentEntry ==
    ASSUME Sound, NEW q \in Processes, SentEnds(q)
    PROVE  LET f == frames[q]
           IN /\ f.at \in DOMAIN op.deliveries /\ Awaited(q, f.at) /\ flights' \subseteq flights
              /\ \E done \in BOOLEAN :
                 \E s \in {"accepted", "pending", "uncertain"} :
                    /\ done <=> s = "accepted"
                    /\ Marks(op, op', f.at, s)
                    /\ Turns(q, Returned(f.to, f.at, f.ok, f.no, f.then, done))
                    /\ Returned(f.to, f.at, f.ok, f.no, f.then, done).pc # "sent"
<1>1. op \in Ops /\ FramesFit /\ frames[q].pc = "sent" /\ flights' \subseteq flights
  BY DEF Sound, SentEnds, At
<1>2. PICK f : f = frames[q]
  OBVIOUS
<1>3. PICK x \in Outcomes(f.to) :
         /\ op' = Delivered(op, f.at, x)
         /\ Returns(q, f, x.result = "accepted")
  BY <1>2 DEF SentEnds
<1>4. /\ f \in Frames /\ Follow(f) /\ f.at \in DOMAIN op.deliveries
  BY <1>1, <1>2 DEF FramesFit, FrameOK
<1>5. PICK s : s = IF x.result = "rejected" THEN "pending" ELSE x.result
  OBVIOUS
<1>6. /\ x.result \in {"accepted", "rejected", "uncertain"}
      /\ Follows(op, op') /\ Marks(op, op', f.at, s)
  BY <1>1, <1>3, <1>4, <1>5, OutcomesFacts, DeliveredFacts
<1>7. s \in {"accepted", "pending", "uncertain"} /\ ((x.result = "accepted") <=> s = "accepted")
  BY <1>5, <1>6
<1>8. PICK done \in BOOLEAN : done = (x.result = "accepted")
  OBVIOUS
<1>9. PICK r : r = Returned(f.to, f.at, f.ok, f.no, f.then, done)
  OBVIOUS
<1>10. Turns(q, r) /\ r.pc # "sent"
  <2>1. f.at \in DOMAIN op'.deliveries
    BY <1>4, <1>6 DEF Follows
  <2>2. /\ f.ok = "drain" => f.then = "evidence"
        /\ f.ok = "release" => f.then \in {"evidence", "finish", "end", "idle"}
    BY <1>1, <1>2, <1>4 DEF Follow
  <2> QED
    BY <1>1, <1>3, <1>4, <1>8, <1>9, <2>1, <2>2, ReturnsFacts
<1>11. Awaited(q, f.at)
  BY <1>1, <1>2 DEF Awaited
<1> QED
  BY <1>1, <1>2, <1>4, <1>6, <1>7, <1>8, <1>9, <1>10, <1>11

LEMMA AwaitingSentEnds ==
    ASSUME Sound, Awaiting, NEW q \in Processes, SentEnds(q)
    PROVE  Awaiting'
<1>1. PICK i \in DOMAIN op.deliveries : \E s, r :
         /\ Awaited(q, i) /\ flights' \subseteq flights /\ s # "sending"
         /\ Marks(op, op', i, s) /\ Turns(q, r) /\ r.pc # "sent"
  BY SentEntry
<1>2. PICK s, r : /\ Awaited(q, i) /\ flights' \subseteq flights /\ s # "sending"
                  /\ Marks(op, op', i, s) /\ Turns(q, r) /\ r.pc # "sent"
  BY <1>1
<1> QED
  BY <1>2, AwaitingEnds

(* The owner's resolution: the entry is accounted for, and may be sent     *)
(* again as a new one.                                                     *)
LEMMA ResolvedEntry ==
    ASSUME op \in Ops, Resolve
    PROVE  \E o \in Ops : \E i \in DOMAIN o.deliveries : \E retry \in BOOLEAN :
              Rests(op, o) /\ Resolves(o, i, retry)
<1>1. Rests(op, op)
  BY RestsSame
<1>2. ASSUME NEW retry \in BOOLEAN, op.finish # 0,
             Resolves([Appended(op, Report(op.finish)) EXCEPT !.finish = 0],
                      Len(op.deliveries) + 1, retry)
      PROVE  \E o \in Ops : \E i \in DOMAIN o.deliveries : \E again \in BOOLEAN :
                Rests(op, o) /\ Resolves(o, i, again)
  <2>1. PICK n : n = Len(op.deliveries) + 1
    OBVIOUS
  <2>2. PICK o \in Ops :
           /\ o = [Appended(op, Report(op.finish)) EXCEPT !.finish = 0] /\ n \in DOMAIN o.deliveries
           /\ o.deliveries = Appended(op, Report(op.finish)).deliveries
    BY <1>2, <2>1, Recorded
  <2>3. Resolves(o, n, retry)
    BY <1>2, <2>1, <2>2
  <2>4. Report(op.finish) \in Texts
    <3>1. op.finish \in 1..MaxTurns
      BY <1>2, Entries, BoundsAssumption
    <3> QED
      BY <3>1, TextTypes
  <2>5. Rests(op, Appended(op, Report(op.finish)))
    BY <1>1, <2>4, RestsAppended
  <2>6. Rests(op, o)
    BY <2>2, <2>5 DEF Rests, Follows
  <2> QED
    BY <2>2, <2>3, <2>6
<1> QED
  BY <1>1, <1>2 DEF Resolve

(* An entry that is resolved again is a new one, and pending.              *)
Again(o, p, n, text) ==
    /\ Rests(op, p) /\ p.deliveries[n].text = text /\ n \in DOMAIN p.deliveries
    /\ allowed' = [allowed EXCEPT ![text] = @ + 1] /\ text \in Texts
    /\ Deliver("request", p, n, Owner(o), "resolved", "resolved", "prepare")
       \/ Deliver("request", p, n, Owner(o), "resolved", "resolved", "reconcile")

LEMMA ResolvesEntry ==
    ASSUME Sound, NEW o \in Ops, Rests(op, o), NEW i \in DOMAIN o.deliveries, NEW retry,
           Resolves(o, i, retry), \A j : Free(j)
    PROVE  \/ \E p \in Ops : \E n \in DOMAIN p.deliveries : \E text : Again(o, p, n, text)
           \/ /\ Rests(op, op') /\ flights' = flights /\ allowed' = allowed
              /\ \E r : Turns("request", r) /\ r.pc = "resolved"
<1>1. FramesFit /\ i \in Nat
  BY Entries DEF Sound
<1>2. PICK s, text, then : s = Settling(o, i) /\ text = o.deliveries[i].text
                           /\ then = Onward(o, i)
  OBVIOUS
<1>3. /\ s \in Ops /\ Rests(op, s) /\ Len(s.deliveries) = Len(o.deliveries)
      /\ DOMAIN s.deliveries = DOMAIN o.deliveries
  BY <1>2, SettlingFacts, RestsSettling DEF Marks
<1>4. text \in Texts /\ then \in {"prepare", "reconcile"} /\ then \in Thens
  BY <1>2, Entries DEF Onward, Thens
<1>5. CASE /\ allowed' = [allowed EXCEPT ![text] = @ + 1]
           /\ Deliver("request", Appended(s, text), Len(o.deliveries) + 1, Owner(o), "resolved",
                      "resolved", then)
  <2>1. PICK p : p = Appended(s, text)
    OBVIOUS
  <2>2. PICK n : n = Len(s.deliveries) + 1
    OBVIOUS
  <2>3. p \in Ops /\ n \in DOMAIN p.deliveries
    BY <1>3, <1>4, <2>1, <2>2, Appending, AppendedLast
  <2>4. p.deliveries[n] = [text |-> text, status |-> "pending"]
    BY <1>3, <1>4, <2>1, <2>2, Appending
  <2>5. Rests(op, p)
    BY <1>3, <1>4, <2>1, RestsAppended
  <2>6. Deliver("request", p, n, Owner(o), "resolved", "resolved", then)
    BY <1>3, <1>5, <2>1, <2>2
  <2>7. Again(o, p, n, text)
    BY <1>4, <1>5, <2>3, <2>4, <2>5, <2>6 DEF Again
  <2> QED
    BY <2>3, <2>7
<1>6. CASE /\ op' = s /\ flights' = flights /\ allowed' = allowed
           /\ frames' = [frames EXCEPT !["request"] =
                 [Idle EXCEPT !.pc = "resolved", !.at = i, !.then = then]]
  <2>1. PICK r : r = [Idle EXCEPT !.pc = "resolved", !.at = i, !.then = then]
    OBVIOUS
  <2>2. r \in Frames /\ r = Frame("resolved", "old", i, "idle", "idle", then)
    BY <1>1, <1>4, <2>1, ResolvedFrame
  <2>3. r.pc = "resolved"
    BY <2>2, FrameFields
  <2>4. Turns("request", r)
    BY <1>1, <1>6, <2>1, <2>2, TurnsMade, Managing
  <2> QED
    BY <1>3, <1>6, <2>3, <2>4
<1> QED
  BY <1>2, <1>5, <1>6, ResolvesIs

LEMMA AwaitingResolve ==
    ASSUME Sound, Awaiting, Resolve
    PROVE  Awaiting'
<1>1. /\ op \in Ops /\ frames["request"].pc = "idle" /\ frames["task"].pc = "idle"
  BY DEF Sound, Resolve, Admitted, At, Running
<1>2. \A j : Free(j)
  BY <1>1 DEF Free, Awaited, Processes
<1>3. PICK o \in Ops : \E i \in DOMAIN o.deliveries : \E retry \in BOOLEAN :
         Rests(op, o) /\ Resolves(o, i, retry)
  BY <1>1, ResolvedEntry
<1>4. ASSUME NEW p \in Ops, NEW n \in DOMAIN p.deliveries, NEW text, Again(o, p, n, text)
      PROVE  Awaiting'
  <2>1. PICK then \in {"prepare", "reconcile"} :
           Deliver("request", p, n, Owner(o), "resolved", "resolved", then)
    BY <1>4 DEF Again
  <2>2. "resolved" \in Oks /\ "resolved" \in Nos /\ then \in Thens /\ Owner(o) \in Managers
    BY Targets DEF Oks, Nos, Thens
  <2> QED
    BY <1>1, <1>4, <2>1, <2>2, Managing, AwaitingDelivers DEF Again
<1>5. ASSUME Rests(op, op'), flights' = flights, NEW r, Turns("request", r), r.pc = "resolved"
      PROVE  Awaiting'
  <2>1. Resting
    BY <1>1, <1>5, QuietTurn, RestingFrom, Managing
  <2> QED
    BY <2>1, AwaitingRests DEF Resting
<1> QED
  BY <1>2, <1>3, <1>4, <1>5, ResolvesEntry

LEMMA AwaitingStart ==
    ASSUME Sound, Start
    PROVE  Awaiting'
<1>0. PICK s : s = SetToSeq(Old)
  OBVIOUS
<1>1. op \in Ops /\ NoneYet /\ FramesFit /\ FlightsFit
  BY DEF Sound
<1>2. op.phase = "none" /\ Goes("task", "ready")
  BY StartIs
<1>3. /\ op.deliveries = <<>>
      /\ \A q \in Processes : frames[q].pc = "idle"
  BY <1>1, <1>2 DEF NoneYet
<1>4. /\ DOMAIN op'.deliveries = DOMAIN s
      /\ \A i \in DOMAIN s : op'.deliveries[i].status = "sending"
                             /\ op'.deliveries[i].text = s[i].text
      /\ \A g \in flights' : g \in flights \/ \E i \in DOMAIN s : g.at = i
  BY <1>0, StartFacts DEF Starting
<1>5. \A i : \A q \in Processes : ~Awaited(q, i)'
  <2>1. Turns("task", Gone("task", "ready")) /\ Gone("task", "ready").pc = "ready"
    BY <1>1, <1>2, PlainSteps, GoesFacts, Managing
  <2>2. \A q \in Processes : frames'[q].pc # "sent"
    BY <1>3, <2>1 DEF Turns
  <2> QED
    BY <2>2 DEF Awaited
<1>6. AwaitedOpen' /\ AwaitedOnce'
  BY <1>5, Managing DEF AwaitedOpen, AwaitedOnce
<1>7. CapturedOpen'
  <2> SUFFICES ASSUME NEW f \in flights', f.at # 0
               PROVE  op'.deliveries[f.at].status # "pending"
    BY <1>5 DEF CapturedOpen, Free
  <2>1. f \notin flights
    BY <1>1, <1>3 DEF FlightsFit, FlightOK
  <2> QED
    BY <1>4, <2>1
<1>8. PromptsAwaited'
  <2> SUFFICES ASSUME NEW i \in DOMAIN op'.deliveries
               PROVE  Releasable(op'.deliveries[i].text)
    BY DEF PromptsAwaited
  <2>1. s[i] \in flights /\ op'.deliveries[i].text = s[i].text
    BY <1>0, <1>1, <1>4, OldListed DEF Old
  <2>2. PICK f \in flights : f = s[i]
    BY <2>1
  <2>3. f \in Flight /\ FlightOK(f)
    BY <1>1 DEF FlightsFit
  <2>4. f.by \in {"client", "wake"}
    BY <1>3, <2>3 DEF Flight, FlightOK
  <2> QED
    BY <2>1, <2>2, <2>3, <2>4 DEF FlightOK, Releasable
<1> QED
  BY <1>6, <1>7, <1>8 DEF Awaiting

LEMMA AwaitingRestart ==
    ASSUME Sound, Restart
    PROVE  Awaiting'
<1>1. /\ op \in Ops /\ op' = Recovered(op) /\ flights' = {}
      /\ \A q \in Processes : frames'[q].pc = "idle"
  BY IdleFrame DEF Sound, Restart
<1>2. Shut(op, op')
  BY <1>1, RecoveredFacts
<1>3. \A i : \A q \in Processes : ~Awaited(q, i)'
  BY <1>1 DEF Awaited
<1>4. PromptsAwaited'
  BY <1>2 DEF PromptsAwaited, Shut
<1> QED
  BY <1>1, <1>3, <1>4, Managing DEF Awaiting, AwaitedOpen, AwaitedOnce, CapturedOpen

LEMMA AwaitingInit == Init => Awaiting
<1> SUFFICES ASSUME Init PROVE Awaiting
  OBVIOUS
<1>1. op.deliveries = <<>> /\ flights = {} /\ \A q \in Processes : frames[q].pc = "idle"
  BY IdleFrame DEF Init
<1> QED
  BY <1>1, Managing DEF Awaiting, AwaitedOpen, AwaitedOnce, CapturedOpen, PromptsAwaited, Awaited

LEMMA AwaitingStep ==
    ASSUME Sound, Awaiting, [Next]_vars
    PROVE  Awaiting'
<1>1. ASSUME Resting PROVE Awaiting'
  BY <1>1, AwaitingRests DEF Resting
<1>2. ASSUME Quiet PROVE Awaiting'
  BY <1>1, <1>2, RestingQuiet
<1>3. CASE Sends
  BY <1>1, <1>3, RestingSend DEF Sends
<1>4. CASE FlightEnds
  BY <1>1, <1>4, RestingSendEnds, RestingWakeSent DEF FlightEnds
<1>5. CASE \/ WorkerStarts \/ WorkerEnds \/ SpawnsLate
           \/ \E m \in Managers : Exits(m) \/ Resumes(m)
  BY <1>2, <1>5, QuietHost
<1>6. CASE \E m \in Managers : WakeStep(m)
  BY <1>1, <1>2, <1>6, QuietHost, RestingWakeSends DEF WakeStep
<1>7. ASSUME NEW q \in Processes, Common(q) PROVE Awaiting'
  BY <1>2, <1>7, AwaitingSentEnds, AwaitingRelease, QuietCommon DEF Common, Transfer
<1>8. CASE Prepare
  BY <1>2, <1>8, AwaitingBrief, QuietPrepares DEF Prepare
<1>9. CASE Flush
  BY <1>1, <1>2, <1>9, QuietFlush, RestingDrainFails DEF Flush
<1>10. CASE Fail \/ Activate \/ KicksOff \/ KickoffFails \/ Evidence \/ Finish
  BY <1>1, <1>2, <1>10, RestingFail, AwaitingKicksOff, QuietCompletes
<1>11. CASE Reconciled \/ Resolved \/ Cancel \/ Reconcile \/ Bind
  BY <1>2, <1>11, QuietRequests
<1>12. CASE Start \/ Resolve \/ Restart
  BY <1>12, AwaitingStart, AwaitingResolve, AwaitingRestart
<1>13. CASE UNCHANGED vars
  <2>1. op' = op /\ frames' = frames /\ flights' = flights
    BY <1>13 DEF vars, journal
  <2>2. Resting
    BY <2>1, RestsSame, RestingFrom
  <2> QED
    BY <1>1, <2>2
<1> QED
  BY <1>3, <1>4, <1>5, <1>6, <1>7, <1>8, <1>9, <1>10, <1>11, <1>12, <1>13, Managing
     DEF Next, TaskStep, RequestStep, Requests

LEMMA HandoffAwaiting == Spec => []Awaiting
  BY SoundStep, AwaitingInit, AwaitingStep, HandoffSound, PTL DEF Spec

-----------------------------------------------------------------------------
(* What a handoff leaves open on its way to completion                     *)

(* The successor has taken its kickoff; it is about to, or has it sent.    *)
Later(f) == \/ f.pc \in Lasts
            \/ f.pc \in Flushes \cup {"release"} /\ f.then \in Lasts
            \/ f.pc = "sent" /\ f.ok = "release" /\ f.then \in Lasts
Past(f) == f.pc = "kickoff" \/ (f.pc = "sent" /\ f.ok = "drain") \/ Later(f)

(* An open entry is to be released, was sent again by the owner, or is the *)
(* one that is awaited.                                                    *)
Accounted(o, f) ==
    \A i \in DOMAIN o.deliveries : o.deliveries[i].status \in Opens =>
        \/ Releasable(o.deliveries[i].text)
        \/ allowed[o.deliveries[i].text] > 0
        \/ f.pc = "sent" /\ f.at = i
Kicked(o) ==
    \E i \in DOMAIN o.deliveries : o.deliveries[i].text = Kickoff /\ Settled(o.deliveries[i])
Emptied(o) ==
    \A i \in DOMAIN o.deliveries :
        o.deliveries[i].status \in Opens => ~Releasable(o.deliveries[i].text)
Clears(o, f) ==
    /\ Past(f) => Accounted(o, f)
    /\ f.pc = "sent" /\ f.ok = "drain" => o.deliveries[f.at].text = Kickoff
    /\ Later(f) => Kicked(o)
    /\ f.pc = "finish" => Emptied(o)
(* A request sends what its owner wants sent again.                        *)
Asks(r) == r.pc = "sent" => allowed[op.deliveries[r.at].text] > 0
Cleared == ~cancelled => Clears(op, frames["task"]) /\ Asks(frames["request"])

(* Nothing is opened, and what is settled stays so.                        *)
Eases(o, p) ==
    /\ Follows(o, p)
    /\ \A i \in DOMAIN p.deliveries : p.deliveries[i].status \in Opens =>
           i \in DOMAIN o.deliveries /\ o.deliveries[i].status \in Opens
    /\ \A i \in DOMAIN o.deliveries : Settled(o.deliveries[i]) => Settled(p.deliveries[i])
(* A task that goes from t to f owes nothing new.                          *)
Calm(t, f) == \/ f = t
              \/ ~Past(f)
              \/ /\ Past(t) /\ t.pc # "sent" /\ f.pc \notin {"sent", "finish"}
                 /\ Later(f) => Later(t)

LEMMA RestsEases ==
    ASSUME NEW o, NEW p, Rests(o, p)
    PROVE  Eases(o, p)
<1>1. \A i \in DOMAIN p.deliveries : p.deliveries[i].status \in Opens =>
          i \in DOMAIN o.deliveries /\ o.deliveries[i].status \in Opens
  BY DEF Rests, Retains, Opens
<1>2. ASSUME NEW i \in DOMAIN o.deliveries, Settled(o.deliveries[i])
      PROVE  Settled(p.deliveries[i])
  <2>1. i \in DOMAIN p.deliveries /\ o.deliveries[i].status \notin Opens
    BY <1>2 DEF Rests, Follows, Settled, Opens
  <2>2. p.deliveries[i].status \in {o.deliveries[i].status, "reconciled"}
    BY <2>1 DEF Rests, Retains
  <2> QED
    BY <1>2, <2>2 DEF Settled
<1> QED
  BY <1>1, <1>2 DEF Eases, Rests

LEMMA AccountedEases ==
    ASSUME NEW p, Eases(op, p), NEW t, Accounted(op, t), NEW f, f = t \/ t.pc # "sent"
    PROVE  Accounted(p, f)
  BY DEF Eases, Follows, Accounted

LEMMA KickedEases ==
    ASSUME NEW p, Eases(op, p), Kicked(op)
    PROVE  Kicked(p)
  BY DEF Eases, Follows, Kicked

LEMMA EmptiedEases ==
    ASSUME NEW p, Eases(op, p), Emptied(op)
    PROVE  Emptied(p)
  BY DEF Eases, Follows, Emptied

LEMMA AsksStill ==
    ASSUME Sound, Asks(frames["request"]), Follows(op, op'), allowed' = allowed,
           \A i : Awaited("request", i)' => Awaited("request", i)
    PROVE  Asks(frames["request"])'
<1>1. PICK r, s : r = frames["request"] /\ s = frames'["request"]
  OBVIOUS
<1>2. r.pc = "sent" => r.at \in DOMAIN op.deliveries
  BY <1>1, Managing DEF Sound, FramesFit, FrameOK
<1>3. s.pc = "sent" => r.pc = "sent" /\ r.at = s.at
  BY <1>1 DEF Awaited
<1>4. s.pc = "sent" => allowed[op'.deliveries[s.at].text] > 0
  BY <1>1, <1>2, <1>3 DEF Asks, Follows
<1> QED
  BY <1>1, <1>4 DEF Asks

LEMMA ClearedTo ==
    ASSUME Sound, Cleared, Follows(op, op'), allowed' = allowed, cancelled => cancelled',
           NEW f, f = frames'["task"], ~cancelled => Clears(op', f),
           \A i : Awaited("request", i)' => Awaited("request", i)
    PROVE  Cleared'
<1> SUFFICES ASSUME ~cancelled'
             PROVE  Clears(op, frames["task"])' /\ Asks(frames["request"])'
  BY DEF Cleared
<1>1. Clears(op', f) /\ Asks(frames["request"])
  BY DEF Cleared
<1>2. Asks(frames["request"])'
  BY <1>1, AsksStill
<1>3. Clears(op, frames["task"])'
  BY <1>1 DEF Clears, Accounted
<1> QED
  BY <1>2, <1>3

LEMMA ClearedTask ==
    ASSUME Sound, Cleared, Follows(op, op'), allowed' = allowed, cancelled => cancelled',
           NEW f, Turns("task", f), ~cancelled => Clears(op', f)
    PROVE  Cleared'
<1>1. f = frames'["task"] /\ \A i : Awaited("request", i)' => Awaited("request", i)
  BY Managing DEF Turns, Awaited
<1> QED
  BY <1>1, ClearedTo

LEMMA ClearedCalm ==
    ASSUME Sound, Cleared, Eases(op, op'), allowed' = allowed, cancelled => cancelled',
           Calm(frames["task"], frames'["task"]),
           \A i : Awaited("request", i)' => Awaited("request", i)
    PROVE  Cleared'
<1>1. PICK t, f : t = frames["task"] /\ f = frames'["task"]
  OBVIOUS
<1>2. t.pc = "sent" => t.at \in DOMAIN op.deliveries
  BY <1>1, Managing DEF Sound, FramesFit, FrameOK
<1>3. ASSUME ~cancelled PROVE Clears(op', f)
  <2>1. Clears(op, t) /\ Calm(t, f)
    BY <1>1, <1>3 DEF Cleared
  <2>2. Past(f) => Accounted(op', f)
    <3>1. Past(f) => Past(t) /\ (f = t \/ t.pc # "sent")
      BY <2>1 DEF Calm
    <3> QED
      BY <2>1, <3>1, AccountedEases DEF Clears
  <2>3. f.pc = "sent" /\ f.ok = "drain" => op'.deliveries[f.at].text = Kickoff
    <3>1. f.pc = "sent" /\ f.ok = "drain" => f = t
      BY <2>1 DEF Calm, Past
    <3> QED
      BY <1>2, <2>1, <3>1 DEF Clears, Eases, Follows
  <2>4. Later(f) => Kicked(op')
    <3>1. Later(f) => Later(t)
      BY <2>1 DEF Calm, Past
    <3> QED
      BY <2>1, <3>1, KickedEases DEF Clears
  <2>5. f.pc = "finish" => Emptied(op')
    <3>1. f.pc = "finish" => f = t
      BY <2>1 DEF Calm, Past, Later, Lasts
    <3> QED
      BY <2>1, <3>1, EmptiedEases DEF Clears
  <2> QED
    BY <2>2, <2>3, <2>4, <2>5 DEF Clears
<1> QED
  BY <1>1, <1>3, ClearedTo DEF Eases

(* The steps that leave the entries alone.                                 *)
Calmly == Calm(frames["task"], frames'["task"])

LEMMA ClearedQuiet ==
    ASSUME Sound, Cleared, Quiet, cancelled => cancelled', Calmly
    PROVE  Cleared'
<1>1. Eases(op, op') /\ allowed' = allowed
  BY RestsSame, RestsEases DEF Quiet
<1>2. \A i : Awaited("request", i)' => Awaited("request", i)
  BY Managing DEF Quiet, Awaited
<1> QED
  BY <1>1, <1>2, ClearedCalm DEF Calmly

LEMMA CalmSame ==
    ASSUME frames'["task"] = frames["task"]
    PROVE  Calmly
  BY DEF Calmly, Calm

LEMMA Unpast ==
    ASSUME NEW f,
           \/ f.pc \in Steps \ (Lasts \cup Flushes \cup {"kickoff", "sent", "release"})
           \/ f.pc \in Flushes \cup {"release"} /\ f.then \notin Lasts
    PROVE  ~Past(f)
  BY DEF Past, Later, Lasts, Flushes

Resigns == {"idle", "end", "fail", "close", "adopt", "reparent", "ready", "brief", "receipt",
            "validated", "spawn", "check", "recheck", "intend", "activate", "resolved"}

LEMMA CalmTurn ==
    ASSUME NEW q \in Processes, NEW f, Turns(q, f), f.pc \in Resigns \/ ~Past(f)
    PROVE  Calmly
<1>1. f.pc \in Resigns => ~Past(f)
  BY Unpast DEF Resigns, Steps, Lasts, Flushes
<1>2. CASE q = "task"
  BY <1>1, <1>2 DEF Turns, Calmly, Calm
<1>3. CASE q = "request"
  BY <1>3, CalmSame, Managing DEF Turns
<1> QED
  BY <1>2, <1>3 DEF Processes

LEMMA CalmGoes ==
    ASSUME FramesFit, NEW q \in Processes, NEW pc \in Resigns, Goes(q, pc)
    PROVE  Calmly
<1>1. PICK f : f = Gone(q, pc)
  OBVIOUS
<1>2. pc \in Steps
  BY DEF Resigns, Steps
<1>3. Turns(q, f) /\ f.pc = pc
  BY <1>1, <1>2, GoesFacts
<1> QED
  BY <1>3, CalmTurn

LEMMA CalmEnds ==
    ASSUME FramesFit, NEW q \in Processes, Ends(q)
    PROVE  Calmly
<1>1. Turns(q, Idle) /\ Idle.pc \in Resigns
  BY EndsFacts, IdleFrame DEF Resigns
<1> QED
  BY <1>1, CalmTurn

(* A flush goes on, and knows what follows it.                             *)
LEMMA CalmFlows ==
    ASSUME FramesFit, NEW pc \in Flushes, Goes("task", pc), frames["task"].pc \in Flushes
    PROVE  Calmly
<1>1. PICK f, t : f = Gone("task", pc) /\ t = frames["task"]
  OBVIOUS
<1>2. pc \in Steps
  BY PlainSteps
<1>3. Turns("task", f) /\ f.pc = pc /\ f.then = t.then
  BY <1>1, <1>2, GoesFacts, GoneIs, Managing DEF Flushes, Stops
<1>4. Calm(t, f)
  BY <1>1, <1>3 DEF Calm, Past, Later, Flushes, Lasts
<1> QED
  BY <1>1, <1>3, <1>4 DEF Calmly, Turns

LEMMA CalmCommon ==
    ASSUME Sound, NEW q \in Processes, End(q) \/ Adopt(q) \/ ReparentFails(q) \/ Close(q)
    PROVE  Calmly
<1>0. FramesFit
  BY DEF Sound
<1>1. CASE End(q)
  BY <1>0, <1>1, CalmEnds DEF End
<1>2. CASE Adopt(q) \/ ReparentFails(q)
  <2>1. \E pc \in Resigns : Goes(q, pc)
    BY <1>2 DEF Adopt, ReparentFails, Resigns
  <2> QED
    BY <1>0, <2>1, CalmGoes
<1>3. CASE Close(q)
  <2>1. PICK then : then = Ending(q)
    OBVIOUS
  <2>2. then \in {"evidence", "finish", "end", "idle"} /\ then \notin Lasts
        /\ Releases(q, "old", then)
    BY <1>3, <2>1 DEF Ending, Close, Lasts
  <2>3. PICK f \in Frames : /\ f.pc = "release" /\ f.then = then
                            /\ frames' = [frames EXCEPT ![q] = f]
    BY <1>0, <2>2, ReleasesFrame, Managing
  <2>4. Turns(q, f) /\ ~Past(f)
    BY <1>0, <2>2, <2>3, TurnsMade, Unpast
  <2> QED
    BY <2>4, CalmTurn
<1> QED
  BY <1>1, <1>2, <1>3

LEMMA CalmPrepares ==
    ASSUME Sound, Ready \/ Receipt \/ Validated \/ Spawn \/ Check \/ CheckFails \/ Intend \/ Commit
    PROVE  Calmly
<1>0. FramesFit
  BY DEF Sound
<1>1. ASSUME NEW pc \in Resigns, Goes("task", pc) PROVE Calmly
  BY <1>0, <1>1, CalmGoes, Managing
<1>2. ASSUME Ends("task") PROVE Calmly
  BY <1>0, <1>2, CalmEnds, Managing
<1>3. {"fail", "validated", "spawn", "check", "recheck", "intend", "adopt", "end"} \subseteq Resigns
  BY DEF Resigns
<1>4. CASE Ready
  <2>1. CASE frames' = [frames EXCEPT !["task"] = [Idle EXCEPT !.pc = "drain", !.then = "brief"]]
    <3>1. PICK f : f = [Idle EXCEPT !.pc = "drain", !.then = "brief"]
      OBVIOUS
    <3>2. f \in Frames /\ f.pc = "drain" /\ f.then = "brief"
      BY <3>1, DrainFrame
    <3>3. Turns("task", f) /\ ~Past(f)
      BY <1>0, <2>1, <3>1, <3>2, TurnsMade, Unpast, Managing DEF Flushes, Lasts
    <3> QED
      BY <3>3, CalmTurn, Managing
  <2>2. CASE frames' = [frames EXCEPT !["task"] = Idle]
    BY <1>2, <2>2 DEF Ends
  <2> QED
    BY <1>1, <1>3, <1>4, <2>1, <2>2 DEF Ready, TaskFails
<1>5. CASE Receipt
  BY <1>1, <1>2, <1>3, <1>5 DEF Receipt, TaskFails
<1>6. CASE Validated \/ Spawn \/ CheckFails
  BY <1>1, <1>3, <1>6 DEF Validated, Spawn, CheckFails, TaskFails
<1>7. CASE Check
  BY <1>1, <1>2, <1>3, <1>7 DEF Check
<1>8. CASE Intend \/ Commit
  BY <1>1, <1>3, <1>8 DEF Intend, Commit
<1> QED
  BY <1>4, <1>5, <1>6, <1>7, <1>8

LEMMA CalmFlush ==
    ASSUME Sound, Drained \/ Settle \/ \E m \in Managers : Drain(m)
    PROVE  Calmly
<1>0. FramesFit /\ Follow(frames["task"])
  BY Managing DEF Sound, FramesFit, FrameOK
<1>1. CASE Drained \/ \E m \in Managers : Drain(m)
  <2>1. \E pc \in Flushes : Goes("task", pc)
    BY <1>1 DEF Drained, Drain, Flushes
  <2>2. frames["task"].pc \in Flushes
    BY <1>1 DEF Drained, Drain, At, Flushes
  <2> QED
    BY <1>0, <2>1, <2>2, CalmFlows
<1>2. CASE Settle
  <2>1. PICK t : t = frames["task"]
    OBVIOUS
  <2>2. /\ t.pc = "settle"
        /\ IF t.then = "brief" THEN Goes("task", "brief") ELSE Releases("task", "new", t.then)
    BY <1>2, <2>1 DEF Settle, At
  <2>3. CASE Goes("task", "brief")
    BY <1>0, <2>3, CalmGoes, Managing DEF Resigns
  <2>4. CASE t.then # "brief" /\ Releases("task", "new", t.then)
    <3>1. t.then \in Lasts
      BY <1>0, <2>1, <2>2, <2>4 DEF Follow, Flushes, Lasts
    <3>2. PICK then : then = t.then
      OBVIOUS
    <3>3. then \in {"evidence", "finish", "end", "idle"} /\ Releases("task", "new", then)
      BY <2>4, <3>1, <3>2 DEF Lasts
    <3>4. PICK f \in Frames : /\ f.pc = "release" /\ f.then = then
                              /\ frames' = [frames EXCEPT !["task"] = f]
      BY <1>0, <3>3, ReleasesFrame, Managing
    <3>5. Turns("task", f)
      BY <1>0, <3>4, TurnsMade, Managing
    <3>6. Calm(t, f)
      BY <2>2, <3>1, <3>2, <3>4 DEF Calm, Past, Later, Flushes, Lasts
    <3> QED
      BY <2>1, <3>5, <3>6 DEF Calmly, Turns
  <2> QED
    BY <2>2, <2>3, <2>4
<1> QED
  BY <1>1, <1>2

LEMMA CalmCompletes ==
    ASSUME Sound, KickoffFails \/ Evidence \/ Finish
    PROVE  Calmly
<1>0. FramesFit /\ "fail" \in Resigns
  BY DEF Sound, Resigns
<1>1. ASSUME Goes("task", "fail") PROVE Calmly
  BY <1>0, <1>1, CalmGoes, Managing
<1>2. CASE KickoffFails
  BY <1>1, <1>2 DEF KickoffFails, TaskFails
<1>3. CASE Evidence
  <2>1. CASE frames' = [frames EXCEPT !["task"] = [Idle EXCEPT !.pc = "drain", !.then = "finish"]]
    <3>1. PICK f, t : f = [Idle EXCEPT !.pc = "drain", !.then = "finish"] /\ t = frames["task"]
      OBVIOUS
    <3>2. f \in Frames /\ f.pc = "drain" /\ f.then = "finish"
      BY <3>1, DrainFrame
    <3>3. Turns("task", f) /\ t.pc = "evidence"
      BY <1>0, <1>3, <2>1, <3>1, <3>2, TurnsMade, Managing DEF Evidence, At
    <3>4. Calm(t, f)
      BY <3>2, <3>3 DEF Calm, Past, Later, Flushes, Lasts
    <3> QED
      BY <3>1, <3>3, <3>4 DEF Calmly, Turns
  <2> QED
    BY <1>1, <1>3, <2>1 DEF Evidence, TaskFails
<1>4. CASE Finish
  BY <1>0, <1>1, <1>4, CalmEnds, Managing DEF Finish
<1> QED
  BY <1>2, <1>3, <1>4

LEMMA CalmRequests ==
    ASSUME Sound, Cancel \/ Reconcile \/ Reconciled \/ Resolved \/ Bind
    PROVE  Calmly
<1>0. FramesFit /\ {"ready", "activate"} \subseteq Resigns
  BY DEF Sound, Resigns
<1>1. ASSUME Reconciles \/ Cancels PROVE Calmly
  <2>1. \E pc \in Resigns : Goes("request", pc)
    BY <1>1 DEF Reconciles, Cancels, Resigns
  <2> QED
    BY <1>0, <2>1, CalmGoes, Managing
<1>2. ASSUME NEW pc \in {"ready", "activate"},
             NEW done \in {[frames EXCEPT !["request"] = Idle], frames},
             frames' = done \/ frames' = Runs(done, pc)
      PROVE  Calmly
  <2>1. frames'["task"] = frames["task"] \/ frames'["task"].pc = pc
    BY <1>0, <1>2, RunsTask
  <2>2. frames'["task"].pc = pc => ~Past(frames'["task"])
    BY Unpast DEF Steps, Lasts, Flushes
  <2> QED
    BY <2>1, <2>2 DEF Calmly, Calm
<1>3. CASE Cancel \/ Reconcile
  BY <1>1, <1>3 DEF Cancel, Reconcile
<1>4. CASE Reconciled
  BY <1>2, <1>4 DEF Reconciled
<1>5. CASE Resolved
  <2>1. CASE frames' = Runs([frames EXCEPT !["request"] = Idle], "ready")
    BY <1>2, <2>1
  <2>2. CASE Ends("request")
    BY <1>0, <2>2, CalmEnds, Managing
  <2> QED
    BY <1>1, <1>5, <2>1, <2>2 DEF Resolved
<1>6. CASE Bind
  BY <1>2, <1>6 DEF Bind
<1> QED
  BY <1>3, <1>4, <1>5, <1>6

LEMMA CalmHost ==
    ASSUME \/ WorkerStarts \/ WorkerEnds \/ SpawnsLate
           \/ \E m \in Managers : \/ WakeBegins(m) \/ WakeCaptured(m) \/ WakeRecorded(m)
                                  \/ Exits(m) \/ Resumes(m)
    PROVE  Calmly /\ cancelled' = cancelled
<1>1. frames' = frames /\ cancelled' = cancelled
  BY DEF WorkerStarts, WorkerEnds, SpawnsLate, WakeBegins, WakeCaptured, WakeRecorded, Exits,
         Resumes, history
<1> QED
  BY <1>1, CalmSame

(* The steps that change the entries.                                      *)
LEMMA ClearedResting ==
    ASSUME Sound, Cleared, Resting, allowed' = allowed, cancelled' = cancelled, Calmly
    PROVE  Cleared'
  BY RestsEases, ClearedCalm, Managing DEF Resting, SameAwaits, Calmly

LEMMA ClearedSending ==
    ASSUME Sound, Awaiting, Cleared,
           \/ \E n \in 1..MaxMessages, m \in Managers : Send(n, m)
           \/ \E f \in flights : SendEnds(f)
           \/ \E m \in Managers : WakeSends(m)
    PROVE  Cleared'
<1>1. frames' = frames /\ allowed' = allowed /\ cancelled' = cancelled
  BY DEF Send, SendEnds, WakeSends, history
<1>2. Resting
  BY RestingSend, RestingSendEnds, RestingWakeSends
<1> QED
  BY <1>1, <1>2, CalmSame, ClearedResting

LEMMA ClearedWakeSent ==
    ASSUME Sound, Awaiting, Cleared, NEW f \in flights, WakeSent(f)
    PROVE  Cleared'
<1>1. allowed' = allowed /\ cancelled' = cancelled
  BY DEF WakeSent
<1>2. Calmly
  <2>1. ASSUME NEW g, Turns("task", g), g.pc = "fail" PROVE Calmly
    BY <2>1, CalmTurn, Managing DEF Resigns
  <2>2. frames' = frames \/ \E g : Turns("task", g) /\ g.pc = "fail"
    BY WakeFrames
  <2> QED
    BY <2>1, <2>2, CalmSame
<1> QED
  BY <1>1, <1>2, RestingWakeSent, ClearedResting

LEMMA ClearedDrainFails ==
    ASSUME Sound, Awaiting, Cleared, DrainFails
    PROVE  Cleared'
<1>1. /\ allowed' = allowed /\ cancelled' = cancelled /\ Goes("task", "fail") /\ FramesFit
      /\ "fail" \in Resigns
  BY DEF Sound, DrainFails, Resigns
<1> QED
  BY <1>1, CalmGoes, RestingDrainFails, ClearedResting, Managing

LEMMA ClearedFail ==
    ASSUME Sound, Cleared, Fail
    PROVE  Cleared'
<1>1. allowed' = allowed /\ cancelled' = cancelled /\ FramesFit /\ "close" \in Resigns
  BY DEF Sound, Fail, Resigns, history
<1>2. Ends("task") \/ Goes("task", "close")
  BY DEF Fail
<1>3. Calmly
  BY <1>1, <1>2, CalmEnds, CalmGoes, Managing
<1> QED
  BY <1>1, <1>3, RestingFail, ClearedResting

LEMMA ClearedRestart ==
    ASSUME Sound, Cleared, Restart
    PROVE  Cleared'
<1>1. /\ op \in Ops /\ op' = Recovered(op) /\ allowed' = allowed /\ cancelled' = cancelled
      /\ \A q \in Processes : frames'[q].pc = "idle"
  BY IdleFrame DEF Sound, Restart
<1>2. Eases(op, op')
  BY <1>1, RecoveredFacts, RestsShut, RestsEases
<1>3. Calm(frames["task"], frames'["task"])
  BY <1>1, Managing DEF Calm, Past, Later, Lasts, Flushes
<1>4. \A i : Awaited("request", i)' => Awaited("request", i)
  BY <1>1, Managing DEF Awaited
<1> QED
  BY <1>1, <1>2, <1>3, <1>4, ClearedCalm

(* A task that owes nothing need not look at the entries.                  *)
LEMMA ClearsNothing ==
    ASSUME NEW o, NEW f, ~Past(f)
    PROVE  Clears(o, f)
  BY DEF Clears, Past, Later, Lasts

LEMMA ClearedStart ==
    ASSUME Sound, Cleared, Start
    PROVE  Cleared'
<1>1. /\ op \in Ops /\ FramesFit /\ NoneYet /\ allowed' = allowed /\ cancelled' = cancelled
      /\ op.phase = "none" /\ Goes("task", "ready")
  BY StartIs DEF Sound, history
<1>2. PICK f : f = Gone("task", "ready")
  OBVIOUS
<1>3. Turns("task", f) /\ f.pc = "ready"
  BY <1>1, <1>2, PlainSteps, GoesFacts, Managing
<1>4. ~Past(f)
  BY <1>3 DEF Past, Later, Lasts, Flushes
<1>5. Follows(op, op')
  <2>1. op.deliveries = <<>>
    BY <1>1 DEF NoneYet
  <2> QED
    BY <2>1 DEF Follows
<1> QED
  BY <1>1, <1>3, <1>4, <1>5, ClearsNothing, ClearedTask

LEMMA ClearedActivate ==
    ASSUME Sound, Awaiting, Cleared, Activate
    PROVE  Cleared'
<1>1. /\ op \in Ops /\ FramesFit /\ frames["task"].pc = "activate" /\ op' = op
      /\ allowed' = allowed /\ cancelled' = cancelled
  BY DEF Sound, Activate, At, journal, history
<1>2. CASE Ends("task")
  BY <1>1, <1>2, CalmEnds, RestsSame, RestsEases, ClearedCalm, Managing
     DEF Calmly, Ends, Awaited, FramesFit
<1>3. CASE ~Exists(op, "uncertain") /\ Goes("task", "kickoff")
  <2>1. PICK f : f = Gone("task", "kickoff")
    OBVIOUS
  <2>2. Turns("task", f) /\ f.pc = "kickoff"
    BY <1>1, <1>3, <2>1, PlainSteps, GoesFacts, Managing
  <2>3. ASSUME ~cancelled PROVE Clears(op', f)
    <3>1. Asks(frames["request"])
      BY <2>3 DEF Cleared
    <3>2. ASSUME NEW i \in DOMAIN op.deliveries, op.deliveries[i].status \in Opens,
                 ~Releasable(op.deliveries[i].text)
          PROVE  allowed[op.deliveries[i].text] > 0
      <4>1. op.deliveries[i].status = "sending"
        BY <1>3, <3>2 DEF Exists, Opens
      <4>2. ~Free(i)
        BY <3>2, <4>1 DEF Awaiting, PromptsAwaited
      <4>3. Awaited("request", i)
        BY <1>1, <4>2 DEF Free, Awaited, Processes
      <4> QED
        BY <3>1, <4>3 DEF Awaited, Asks
    <3>3. Accounted(op', f)
      BY <1>1, <3>2 DEF Accounted
    <3> QED
      BY <2>2, <3>3 DEF Clears, Later, Lasts, Flushes
  <2> QED
    BY <1>1, <2>2, <2>3, FollowsItself, ClearedTask
<1> QED
  BY <1>2, <1>3 DEF Activate

(* The task hands an entry over, or finds that it need not.                *)
LEMMA ClearsHanded ==
    ASSUME NEW o, Eases(op, o), NEW i \in DOMAIN o.deliveries, NEW p, Marks(o, p, i, "sending"),
           o.deliveries[i].status = "pending",
           NEW t, Clears(op, t), t.pc # "sent",
           NEW f, f.pc = "sent", f.at = i, Past(f) => Past(t), Later(f) => Later(t),
           f.ok = "drain" => o.deliveries[i].text = Kickoff
    PROVE  Clears(p, f)
<1>1. Past(f) => Accounted(p, f)
  <2> SUFFICES ASSUME Past(f), NEW j \in DOMAIN p.deliveries, p.deliveries[j].status \in Opens,
                      j # i
               PROVE  \/ Releasable(p.deliveries[j].text) \/ allowed[p.deliveries[j].text] > 0
    BY DEF Accounted
  <2>1. j \in DOMAIN o.deliveries /\ o.deliveries[j].status \in Opens
        /\ p.deliveries[j].text = o.deliveries[j].text
    BY DEF Marks
  <2>2. Accounted(o, f)
    BY AccountedEases DEF Clears
  <2> QED
    BY <2>1, <2>2 DEF Accounted
<1>2. Later(f) => Kicked(p)
  <2>1. Later(f) => Kicked(o)
    BY KickedEases DEF Clears
  <2> QED
    BY <2>1 DEF Kicked, Marks, Settled
<1> QED
  BY <1>1, <1>2 DEF Clears, Marks

LEMMA ClearedHanded ==
    ASSUME Sound, Cleared, allowed' = allowed, cancelled' = cancelled, Follows(op, op'),
           NEW o, Eases(op, o), NEW i \in DOMAIN o.deliveries, NEW to, NEW ok, NEW then,
           Handed("task", o, i, to, ok, "end", then), frames["task"].pc # "sent",
           ok = "drain" => o.deliveries[i].text = Kickoff /\ frames["task"].pc = "kickoff",
           ok = "release" /\ then \in Lasts => Later(frames["task"])
    PROVE  Cleared'
<1>1. PICK f, t : f = Frame("sent", to, i, ok, "end", then) /\ t = frames["task"]
  OBVIOUS
<1>2. f.pc = "sent" /\ f.at = i /\ f.ok = ok /\ f.then = then
  BY <1>1, FrameFields
<1>3. Turns("task", f) /\ Marks(o, op', i, "sending") /\ o.deliveries[i].status = "pending"
  BY <1>1 DEF Handed
<1>4. /\ Past(f) => Past(t)
      /\ Later(f) => Later(t)
  BY <1>1, <1>2 DEF Past, Later, Lasts, Flushes
<1>5. ~cancelled => Clears(op', f)
  BY <1>1, <1>2, <1>3, <1>4, ClearsHanded DEF Cleared
<1> QED
  BY <1>3, <1>5, ClearedTask

LEMMA ClearedBrief ==
    ASSUME Sound, Cleared, Brief
    PROVE  Cleared'
<1>1. /\ op \in Ops /\ FramesFit /\ frames["task"].pc = "brief" /\ allowed' = allowed
      /\ cancelled' = cancelled
  BY DEF Sound, Brief, At, history
<1>2. CASE Ends("task") /\ op' = op
  BY <1>1, <1>2, CalmEnds, RestsSame, RestsEases, ClearedCalm, Managing
     DEF Calmly, Ends, Awaited, FramesFit
<1>3. CASE LET o == Lists(op, Preparation)
           IN Deliver("task", o, First(Places(o, Preparation)), "old", "receipt", "end", "idle")
  <2>0. Preparation \in Texts
    BY TextTypes
  <2>1. PICK o : o = Lists(op, Preparation)
    OBVIOUS
  <2>2. PICK i : i = First(Places(o, Preparation))
    OBVIOUS
  <2>3. o \in Ops /\ i \in DOMAIN o.deliveries /\ Eases(op, o) /\ Follows(op, o)
    BY <1>1, <2>0, <2>1, <2>2, Listed, RestsLists, RestsEases
  <2>4. Deliver("task", o, i, "old", "receipt", "end", "idle")
    BY <1>3, <2>1, <2>2
  <2>5. "receipt" \in Oks /\ "end" \in Nos /\ "idle" \in Thens
    BY DEF Oks, Nos, Thens
  <2>6. /\ Follows(o, op')
        /\ \/ Handed("task", o, i, "old", "receipt", "end", "idle")
           \/ PassedOn("task", o, i, "old", "receipt", "end", "idle")
    BY <1>1, <2>3, <2>4, <2>5, DeliverFacts, Managing
  <2>7. Follows(op, op')
    BY <2>3, <2>6, FollowsThrough
  <2>8. CASE PassedOn("task", o, i, "old", "receipt", "end", "idle")
    <3>1. PICK r : r = Returned("old", i, "receipt", "end", "idle", Settled(o.deliveries[i]))
      OBVIOUS
    <3>2. Turns("task", r) /\ r.pc \in {"receipt", "end"}
      BY <2>8, <3>1 DEF PassedOn
    <3>3. ~Past(r)
      BY <3>2 DEF Past, Later, Lasts, Flushes
    <3> QED
      BY <1>1, <2>7, <3>2, <3>3, ClearsNothing, ClearedTask
  <2> QED
    BY <1>1, <2>3, <2>6, <2>7, <2>8, ClearedHanded
<1> QED
  BY <1>2, <1>3 DEF Brief

LEMMA ClearedKicksOff ==
    ASSUME Sound, Cleared, KicksOff
    PROVE  Cleared'
<1>1. /\ op \in Ops /\ FramesFit /\ frames["task"].pc = "kickoff" /\ allowed' = allowed
      /\ cancelled' = cancelled
  BY DEF Sound, KicksOff, At, history
<1>2. PICK o \in Ops : \E i \in DOMAIN o.deliveries :
         /\ Rests(op, o) /\ o.deliveries[i].text = Kickoff
         /\ Deliver("task", o, i, "new", "drain", "end", "evidence")
  BY <1>1, KickoffRests
<1>3. PICK i \in DOMAIN o.deliveries :
         /\ Rests(op, o) /\ o.deliveries[i].text = Kickoff
         /\ Deliver("task", o, i, "new", "drain", "end", "evidence")
  BY <1>2
<1>4. Eases(op, o) /\ Follows(op, o)
  BY <1>3, RestsEases DEF Rests
<1>5. "drain" \in Oks /\ "end" \in Nos /\ "evidence" \in Thens
  BY DEF Oks, Nos, Thens
<1>6. /\ Follows(o, op')
      /\ \/ Handed("task", o, i, "new", "drain", "end", "evidence")
         \/ PassedOn("task", o, i, "new", "drain", "end", "evidence")
  BY <1>1, <1>3, <1>5, DeliverFacts, Managing
<1>7. Follows(op, op')
  BY <1>4, <1>6, FollowsThrough
<1>8. CASE PassedOn("task", o, i, "new", "drain", "end", "evidence")
  <2>1. PICK r, t : /\ r = Returned("new", i, "drain", "end", "evidence", Settled(o.deliveries[i]))
                    /\ t = frames["task"]
    OBVIOUS
  <2>2. /\ Turns("task", r) /\ op' = o
        /\ r.pc = IF Settled(o.deliveries[i]) THEN "drain" ELSE "end"
    BY <1>8, <2>1 DEF PassedOn
  <2>3. CASE ~Settled(o.deliveries[i])
    <3>1. ~Past(r)
      BY <2>2, <2>3 DEF Past, Later, Lasts, Flushes
    <3> QED
      BY <1>1, <1>7, <2>2, <3>1, ClearsNothing, ClearedTask
  <2>4. CASE Settled(o.deliveries[i])
    <3>1. Kicked(op')
      BY <1>3, <2>2, <2>4 DEF Kicked
    <3>2. ~cancelled => Accounted(op', r)
      <4>1. ~cancelled => Accounted(op, t)
        BY <1>1, <2>1 DEF Cleared, Clears, Past
      <4> QED
        BY <1>1, <1>4, <2>1, <2>2, <4>1, AccountedEases
    <3>3. ~cancelled => Clears(op', r)
      BY <2>2, <2>4, <3>1, <3>2 DEF Clears
    <3> QED
      BY <1>1, <1>7, <2>2, <3>3, ClearedTask
  <2> QED
    BY <2>3, <2>4
<1> QED
  BY <1>1, <1>3, <1>4, <1>6, <1>7, <1>8, ClearedHanded

LEMMA ClearedNever ==
    ASSUME Staged, ~Orderly, cancelled' = cancelled, cancelled \in BOOLEAN
    PROVE  Cleared'
  BY DEF Staged, Cleared

LEMMA ClearedRelease ==
    ASSUME Sound, Staged, Cleared, NEW q \in Processes, Release(q)
    PROVE  Cleared'
<1>1. /\ op \in Ops /\ FramesFit /\ frames[q].pc = "release" /\ allowed' = allowed
      /\ cancelled' = cancelled /\ cancelled \in BOOLEAN
  BY DEF Sound, Release, At, history, HistoryOK
<1>2. CASE q = "request"
  BY <1>1, <1>2, ClearedNever DEF Orderly, Serves
<1>3. CASE q = "task"
  <2>1. PICK to, then, t : to = frames["task"].to /\ then = frames["task"].then
                           /\ t = frames["task"]
    OBVIOUS
  <2>2. /\ to \in Managers /\ then \in Thens /\ then \in {"evidence", "finish", "end", "idle"}
        /\ t.pc = "release"
        /\ \/ \E i \in DOMAIN op.deliveries :
                 /\ Releasable(op.deliveries[i].text) /\ ~Settled(op.deliveries[i])
                 /\ Deliver("task", op, i, to, "release", "end", then)
           \/ /\ \A i \in DOMAIN op.deliveries :
                     Releasable(op.deliveries[i].text) => Settled(op.deliveries[i])
              /\ Goes("task", then) /\ op' = op
    BY <1>3, <2>1, ReleaseEntry DEF Ending
  <2>3. /\ Later(t) <=> then \in Lasts
        /\ Past(t) <=> then \in Lasts
    BY <2>1, <2>2 DEF Past, Later, Lasts, Flushes
  <2>4. Eases(op, op)
    BY RestsSame, RestsEases
  <2>5. ASSUME NEW i \in DOMAIN op.deliveries, ~Settled(op.deliveries[i]),
               Deliver("task", op, i, to, "release", "end", then)
        PROVE  Cleared'
    <3>1. "release" \in Oks /\ "end" \in Nos
      BY DEF Oks, Nos
    <3>2. /\ Follows(op, op')
          /\ \/ Handed("task", op, i, to, "release", "end", then)
             \/ PassedOn("task", op, i, to, "release", "end", then)
      BY <1>1, <2>2, <2>5, <3>1, DeliverFacts, Managing
    <3>3. CASE Handed("task", op, i, to, "release", "end", then)
      BY <1>1, <1>3, <2>1, <2>3, <2>4, <3>2, <3>3, ClearedHanded
    <3>4. CASE PassedOn("task", op, i, to, "release", "end", then)
      <4>1. PICK r : r = Returned(to, i, "release", "end", then, Settled(op.deliveries[i]))
        OBVIOUS
      <4>2. Turns("task", r) /\ r.pc = "end"
        BY <2>5, <3>4, <4>1 DEF PassedOn
      <4>3. ~Past(r)
        BY <4>2 DEF Past, Later, Lasts, Flushes
      <4> QED
        BY <1>1, <3>2, <4>2, <4>3, ClearsNothing, ClearedTask
    <3> QED
      BY <3>2, <3>3, <3>4
  <2>6. CASE /\ \A i \in DOMAIN op.deliveries :
                    Releasable(op.deliveries[i].text) => Settled(op.deliveries[i])
             /\ Goes("task", then) /\ op' = op
    <3>1. PICK f : f = Gone("task", then)
      OBVIOUS
    <3>2. then \in Steps
      BY <2>2 DEF Steps
    <3>3. Turns("task", f) /\ f.pc = then
      BY <1>1, <2>6, <3>1, <3>2, GoesFacts, Managing
    <3>4. Emptied(op')
      BY <2>6 DEF Emptied, Opens, Settled
    <3>5. /\ Past(f) => then \in Lasts
          /\ Later(f) => then \in Lasts
          /\ f.pc # "sent"
      BY <2>2, <3>3 DEF Past, Later, Lasts, Flushes
    <3>6. ~cancelled => Clears(op, t)
      BY <2>1 DEF Cleared
    <3>7. ~cancelled => Clears(op', f)
      <4>1. ~cancelled /\ Past(f) => Accounted(op', f)
        BY <2>2, <2>3, <2>4, <2>6, <3>5, <3>6, AccountedEases DEF Clears
      <4> QED
        BY <2>3, <2>6, <3>4, <3>5, <3>6, <4>1 DEF Clears
    <3>8. Follows(op, op')
      BY <2>6, FollowsItself
    <3> QED
      BY <1>1, <3>3, <3>7, <3>8, ClearedTask
  <2> QED
    BY <2>2, <2>5, <2>6
<1> QED
  BY <1>2, <1>3 DEF Processes

LEMMA EasesMarks ==
    ASSUME NEW i \in DOMAIN op.deliveries, op.deliveries[i].status \in Opens, NEW p, NEW s,
           Marks(op, p, i, s)
    PROVE  Eases(op, p)
<1>1. Follows(op, p)
  BY MarksFollows
<1>2. \A j \in DOMAIN p.deliveries : p.deliveries[j].status \in Opens =>
          j \in DOMAIN op.deliveries /\ op.deliveries[j].status \in Opens
  BY DEF Marks
<1>3. \A j \in DOMAIN op.deliveries : Settled(op.deliveries[j]) => Settled(p.deliveries[j])
  BY DEF Marks, Settled, Opens
<1> QED
  BY <1>1, <1>2, <1>3 DEF Eases

LEMMA ClearedSentEnds ==
    ASSUME Sound, Staged, Awaiting, Cleared, NEW q \in Processes, SentEnds(q)
    PROVE  Cleared'
<1>1. /\ op \in Ops /\ FramesFit /\ frames[q].pc = "sent" /\ allowed' = allowed
      /\ cancelled' = cancelled
  BY DEF Sound, SentEnds, At
<1>2. PICK f : f = frames[q]
  OBVIOUS
<1>3. /\ f.pc = "sent" /\ f.at \in DOMAIN op.deliveries /\ Awaited(q, f.at) /\ Follow(f)
      /\ \E done \in BOOLEAN : \E s \in {"accepted", "pending", "uncertain"} :
            /\ done <=> s = "accepted"
            /\ Marks(op, op', f.at, s)
            /\ Turns(q, Returned(f.to, f.at, f.ok, f.no, f.then, done))
            /\ Returned(f.to, f.at, f.ok, f.no, f.then, done).pc # "sent"
  BY <1>1, <1>2, SentEntry DEF FramesFit, FrameOK
<1>4. PICK done \in BOOLEAN : \E s \in {"accepted", "pending", "uncertain"} :
         /\ done <=> s = "accepted"
         /\ Marks(op, op', f.at, s)
         /\ Turns(q, Returned(f.to, f.at, f.ok, f.no, f.then, done))
         /\ Returned(f.to, f.at, f.ok, f.no, f.then, done).pc # "sent"
  BY <1>3
<1>5. PICK s \in {"accepted", "pending", "uncertain"} :
         /\ done <=> s = "accepted"
         /\ Marks(op, op', f.at, s)
         /\ Turns(q, Returned(f.to, f.at, f.ok, f.no, f.then, done))
         /\ Returned(f.to, f.at, f.ok, f.no, f.then, done).pc # "sent"
  BY <1>4
<1>6. PICK r : r = Returned(f.to, f.at, f.ok, f.no, f.then, done)
  OBVIOUS
<1>7. Turns(q, r) /\ r.pc # "sent"
  BY <1>5, <1>6
<1>8. /\ r.pc = IF done THEN f.ok ELSE f.no
      /\ r.pc \notin Stops => r.then = f.then
  BY <1>6, ReturnedFields
<1>9. Eases(op, op') /\ Follows(op, op')
  <2>1. op.deliveries[f.at].status \in Opens
    BY <1>3 DEF Awaiting, AwaitedOpen
  <2>2. Eases(op, op')
    BY <1>3, <1>5, <2>1, EasesMarks
  <2> QED
    BY <2>2 DEF Eases
<1>10. CASE q = "request"
  <2>1. \A i : Awaited("request", i)' => Awaited("request", i)
    BY <1>7, <1>10 DEF Turns, Awaited
  <2>2. Calm(frames["task"], frames'["task"])
    BY <1>7, <1>10, Managing DEF Turns, Calm
  <2> QED
    BY <1>1, <1>9, <2>1, <2>2, ClearedCalm
<1>11. CASE q = "task"
  <2>1. ASSUME ~cancelled PROVE Clears(op', r)
    <3>1. Clears(op, f) /\ Stage(f)
      BY <1>2, <1>11, <2>1 DEF Cleared, Staged, Orderly
    <3>2. f.no = "end" /\ f.ok \in {"receipt", "drain", "release"}
      BY <1>3, <3>1 DEF Stage
    <3>3. CASE ~done \/ f.ok = "receipt"
      <4>1. r.pc \in {"end", "receipt"}
        BY <1>8, <3>2, <3>3
      <4>2. ~Past(r)
        BY <4>1 DEF Past, Later, Lasts, Flushes
      <4> QED
        BY <4>2, ClearsNothing
    <3>4. CASE done /\ f.ok \in {"drain", "release"}
      <4>1. r.pc = f.ok /\ r.then = f.then /\ s = "accepted"
        BY <1>5, <1>8, <3>4 DEF Stops
      <4>2. Past(r) => Past(f)
        BY <1>3, <3>4, <4>1 DEF Past, Later, Lasts, Flushes
      <4>3. Past(r) => Accounted(op', r)
        BY <1>3, <1>5, <3>1, <4>1, <4>2 DEF Clears, Accounted, Marks, Opens
      <4>4. Later(r) => Kicked(op')
        <5>1. CASE f.ok = "drain"
          <6>1. op.deliveries[f.at].text = Kickoff
            BY <1>3, <3>1, <5>1 DEF Clears
          <6>2. f.at \in DOMAIN op'.deliveries /\ op'.deliveries[f.at].text = Kickoff
                /\ op'.deliveries[f.at].status = "accepted"
            BY <1>3, <1>5, <4>1, <6>1 DEF Marks
          <6> QED
            BY <6>2 DEF Kicked, Settled
        <5>2. CASE f.ok = "release"
          <6>1. Later(r) => Later(f)
            BY <1>3, <4>1, <5>2 DEF Later, Lasts, Flushes
          <6> QED
            BY <1>9, <3>1, <6>1, KickedEases DEF Clears
        <5> QED
          BY <3>4, <5>1, <5>2
      <4> QED
        BY <3>4, <4>1, <4>3, <4>4 DEF Clears
    <3> QED
      BY <3>2, <3>3, <3>4
  <2> QED
    BY <1>1, <1>7, <1>9, <1>11, <2>1, ClearedTask
<1> QED
  BY <1>10, <1>11 DEF Processes

LEMMA ClearedResolve ==
    ASSUME Sound, Awaiting, Cleared, Resolve
    PROVE  Cleared'
<1>1. /\ op \in Ops /\ FramesFit /\ frames["request"].pc = "idle" /\ frames["task"].pc = "idle"
  BY DEF Sound, Resolve, Admitted, At, Running
<1>2. \A j : Free(j)
  BY <1>1 DEF Free, Awaited, Processes
<1>3. PICK o \in Ops : \E i \in DOMAIN o.deliveries : \E retry \in BOOLEAN :
         Rests(op, o) /\ Resolves(o, i, retry)
  BY <1>1, ResolvedEntry
<1>4. ASSUME NEW r, Turns("request", r), Asks(r)'
      PROVE  Cleared'
  <2>1. frames'["task"].pc = "idle" /\ frames'["request"] = r
    BY <1>1, <1>4, Managing DEF Turns
  <2>2. ~Past(frames'["task"])
    BY <2>1 DEF Past, Later, Lasts, Flushes
  <2>3. Clears(op, frames["task"])'
    BY <2>2 DEF Clears, Past, Later, Lasts
  <2>4. Asks(frames["request"])'
    BY <1>4, <2>1 DEF Asks
  <2> QED
    BY <2>3, <2>4 DEF Cleared
<1>5. ASSUME NEW p \in Ops, NEW n \in DOMAIN p.deliveries, NEW text, Again(o, p, n, text)
      PROVE  Cleared'
  <2>1. PICK then \in {"prepare", "reconcile"} :
           Deliver("request", p, n, Owner(o), "resolved", "resolved", then)
    BY <1>5 DEF Again
  <2>2. "resolved" \in Oks /\ "resolved" \in Nos /\ then \in Thens /\ Owner(o) \in Managers
    BY Targets DEF Oks, Nos, Thens
  <2>3. /\ Follows(p, op')
        /\ \/ Handed("request", p, n, Owner(o), "resolved", "resolved", then)
           \/ PassedOn("request", p, n, Owner(o), "resolved", "resolved", then)
    BY <1>1, <2>1, <2>2, DeliverFacts, Managing
  <2>4. CASE Handed("request", p, n, Owner(o), "resolved", "resolved", then)
    <3>1. PICK f : f = Frame("sent", Owner(o), n, "resolved", "resolved", then)
      OBVIOUS
    <3>2. Turns("request", f) /\ f.at = n
      BY <2>4, <3>1, FrameFields DEF Handed
    <3>3. op'.deliveries[n].text = text
      BY <1>5, <2>3 DEF Again, Follows
    <3>4. allowed'[text] > 0
      <4>1. allowed \in [Texts -> 0..MaxRequests] /\ text \in Texts
            /\ allowed' = [allowed EXCEPT ![text] = @ + 1]
        BY <1>5 DEF Sound, HistoryOK, Again
      <4>2. allowed[text] \in Nat /\ allowed'[text] = allowed[text] + 1
        BY <4>1
      <4> QED
        BY <4>2
    <3>5. Asks(f)'
      BY <3>2, <3>3, <3>4 DEF Asks
    <3> QED
      BY <1>4, <3>2, <3>5
  <2>5. CASE PassedOn("request", p, n, Owner(o), "resolved", "resolved", then)
    <3>1. PICK r : r = Returned(Owner(o), n, "resolved", "resolved", then,
                                Settled(p.deliveries[n]))
      OBVIOUS
    <3>2. Turns("request", r) /\ r.pc = "resolved"
      BY <2>5, <3>1 DEF PassedOn
    <3>3. Asks(r)'
      BY <3>2 DEF Asks
    <3> QED
      BY <1>4, <3>2, <3>3
  <2> QED
    BY <2>3, <2>4, <2>5
<1>6. ASSUME NEW r, Turns("request", r), r.pc = "resolved"
      PROVE  Cleared'
  <2>1. Asks(r)'
    BY <1>6 DEF Asks
  <2> QED
    BY <1>4, <1>6, <2>1
<1> QED
  BY <1>2, <1>3, <1>5, <1>6, ResolvesEntry

LEMMA ClearedInit == Init => Cleared
<1> SUFFICES ASSUME Init PROVE Cleared
  OBVIOUS
<1>1. \A q \in Processes : frames[q].pc = "idle"
  BY IdleFrame DEF Init
<1>2. frames["task"].pc = "idle" /\ frames["request"].pc = "idle"
  BY <1>1, Managing
<1>3. ~Past(frames["task"])
  BY <1>2 DEF Past, Later, Lasts, Flushes
<1> QED
  BY <1>2, <1>3, ClearsNothing DEF Cleared, Asks

LEMMA ClearedStep ==
    ASSUME Sound, Staged, Awaiting, Cleared, [Next]_vars
    PROVE  Cleared'
<1>1. ASSUME Quiet, Calmly, cancelled => cancelled' PROVE Cleared'
  BY <1>1, ClearedQuiet
<1>3. CASE Sends \/ FlightEnds
  BY <1>3, ClearedSending, ClearedWakeSent DEF Sends, FlightEnds
<1>5. CASE \/ WorkerStarts \/ WorkerEnds \/ SpawnsLate
           \/ \E m \in Managers : Exits(m) \/ Resumes(m)
  BY <1>1, <1>5, QuietHost, CalmHost
<1>6. CASE \E m \in Managers : WakeStep(m)
  BY <1>1, <1>6, QuietHost, CalmHost, ClearedSending DEF WakeStep
<1>7. ASSUME NEW q \in Processes, Common(q) PROVE Cleared'
  <2>1. CASE SentEnds(q) \/ Release(q)
    BY <2>1, ClearedSentEnds, ClearedRelease
  <2>2. CASE End(q) \/ Adopt(q) \/ ReparentFails(q) \/ Close(q)
    <3>1. cancelled' = cancelled
      BY <2>2 DEF End, Adopt, ReparentFails, Close, history
    <3> QED
      BY <1>1, <2>2, <3>1, QuietCommon, CalmCommon
  <2> QED
    BY <1>7, <2>1, <2>2 DEF Common, Transfer
<1>8. CASE Prepare
  <2>1. CASE Ready \/ Receipt \/ Validated \/ Spawn \/ Check \/ CheckFails \/ Intend \/ Commit
    <3>1. cancelled' = cancelled
      BY <2>1 DEF Ready, Receipt, Validated, Spawn, Check, CheckFails, Intend, Commit, history
    <3> QED
      BY <1>1, <2>1, <3>1, QuietPrepares, CalmPrepares
  <2> QED
    BY <1>8, <2>1, ClearedBrief DEF Prepare
<1>9. CASE Flush
  <2>1. CASE Drained \/ Settle \/ \E m \in Managers : Drain(m)
    <3>1. cancelled' = cancelled
      BY <2>1 DEF Drained, Settle, Drain, history
    <3> QED
      BY <1>1, <2>1, <3>1, QuietFlush, CalmFlush
  <2> QED
    BY <1>9, <2>1, ClearedDrainFails DEF Flush
<1>10. CASE KickoffFails \/ Evidence \/ Finish
  <2>1. cancelled' = cancelled
    BY <1>10 DEF KickoffFails, Evidence, Finish, history
  <2> QED
    BY <1>1, <1>10, <2>1, QuietCompletes, CalmCompletes
<1>11. CASE Reconciled \/ Resolved \/ Cancel \/ Reconcile \/ Bind
  <2>1. cancelled => cancelled'
    BY <1>11 DEF Reconciled, Resolved, Cancel, Reconcile, Reconciles, Cancels, Bind, history
  <2> QED
    BY <1>1, <1>11, <2>1, QuietRequests, CalmRequests
<1>12. CASE Start \/ Resolve \/ Restart \/ Fail \/ Activate \/ KicksOff
  BY <1>12, ClearedStart, ClearedResolve, ClearedRestart, ClearedFail, ClearedActivate,
     ClearedKicksOff
<1>13. CASE UNCHANGED vars
  <2>1. /\ op' = op /\ frames' = frames /\ allowed' = allowed /\ cancelled' = cancelled
    BY <1>13 DEF vars, journal, history
  <2>2. SameAwaits /\ Rests(op, op')
    <3>1. flights' = flights
      BY <1>13 DEF vars
    <3> QED
      BY <2>1, <3>1, RestsSame DEF SameAwaits, Awaited
  <2> QED
    BY <2>1, <2>2, CalmSame, ClearedResting DEF Resting
<1> QED
  BY <1>3, <1>5, <1>6, <1>7, <1>8, <1>9, <1>10, <1>11, <1>12, <1>13, Managing
     DEF Next, TaskStep, RequestStep, Requests

LEMMA HandoffCleared == Spec => []Cleared
  BY ClearedInit, ClearedStep, HandoffSound, HandoffStaged, HandoffAwaiting, PTL DEF Spec

(* Only the last step of the task completes the handoff.                   *)
Uncompleted == op'.phase = "complete" => op.phase = "complete"

LEMMA SamePhased ==
    ASSUME op'.phase \in {op.phase, "recovery-required"}
    PROVE  Uncompleted
  BY DEF Uncompleted

LEMMA UncompletedHears ==
    ASSUME Sound, NEW f \in flights, NEW x \in Outcomes(f.to),
           op' = Noted(op, f.at, x) \/ op' = Told(Noted(op, f.at, x), f.text.n)
    PROVE  Uncompleted
<1>1. PICK p, at, n : p = Noted(op, f.at, x) /\ at = f.at /\ n = f.text.n
  OBVIOUS
<1>2. op \in Ops /\ at \in Nat /\ (at # 0 => at \in DOMAIN op.deliveries)
  BY <1>1 DEF Sound, FlightsFit, FlightOK, Flight
<1>3. p \in Ops /\ p.phase \in {op.phase, "recovery-required"}
  BY <1>1, <1>2, OutcomesFacts, NotedFacts
<1>4. op' = p \/ op' = Told(p, n)
  BY <1>1
<1>5. Told(p, n).phase = p.phase
  BY <1>3, ToldFacts
<1> QED
  BY <1>3, <1>4, <1>5, SamePhased

LEMMA UncompletedWakes ==
    ASSUME Sound, NEW m \in Managers, WakeRecorded(m) \/ WakeSends(m)
    PROVE  Uncompleted
<1>1. op \in Ops /\ worker.turn \in 0..MaxTurns
  BY Numbers DEF Sound
<1>2. CASE op' = op
  BY <1>2, SamePhased
<1>3. CASE WakeRecorded(m) /\ op' # op
  <2>1. PICK n : n = worker.turn
    OBVIOUS
  <2>2. op' = [op EXCEPT !.finish = n]
    BY <1>3, <2>1 DEF WakeRecorded
  <2> QED
    BY <1>1, <2>1, <2>2, FinishSet, SamePhased
<1>4. CASE WakeSends(m) /\ op' # op
  <2>1. PICK n, text : n = worker.turn /\ text = Report(worker.turn)
    OBVIOUS
  <2>2. op' = Told(Appended(op, text), n) /\ Keeps(op, m)
    BY <1>4, <2>1 DEF WakeSends
  <2>3. wakes[m].pc = "send" /\ Current(m)
    BY <1>4, <2>2 DEF WakeSends
  <2>4. text \in Texts
    <3>1. worker.turn \in 1..MaxTurns
      <4>1. wakes[m].turn >= 1 /\ worker.turn = wakes[m].turn
        BY <2>3 DEF Sound, WakesFit, Current
      <4>2. worker.turn >= 1
        BY <4>1
      <4> QED
        BY <1>1, <4>2, BoundsAssumption
    <3> QED
      BY <2>1, <3>1, TextTypes
  <2>5. PICK a : a = Appended(op, text)
    OBVIOUS
  <2>6. a \in Ops /\ a.phase = op.phase
    BY <1>1, <2>4, <2>5, Appending
  <2>7. op'.phase = a.phase
    BY <2>2, <2>5, <2>6, ToldFacts
  <2> QED
    BY <2>6, <2>7, SamePhased
<1> QED
  BY <1>2, <1>3, <1>4

LEMMA UncompletedDelivers ==
    ASSUME FramesFit, NEW q \in Processes, NEW o \in Ops, NEW i \in DOMAIN o.deliveries,
           NEW to \in Managers, NEW ok \in Oks, NEW no \in Nos, NEW then \in Thens,
           ok = "drain" => then = "evidence",
           ok = "release" => then \in {"evidence", "finish", "end", "idle"},
           Deliver(q, o, i, to, ok, no, then),
           o.phase = "complete" => op.phase = "complete"
    PROVE  Uncompleted
  BY DeliverFacts DEF Uncompleted

LEMMA UncompletedCommon ==
    ASSUME Sound, NEW q \in Processes, Common(q)
    PROVE  Uncompleted
<1>1. op \in Ops /\ FramesFit
  BY DEF Sound
<1>2. CASE SentEnds(q)
  <2>1. PICK f : f = frames[q]
    OBVIOUS
  <2>2. PICK x \in Outcomes(f.to) : op' = Delivered(op, f.at, x)
    BY <1>2, <2>1 DEF SentEnds
  <2>3. f.at \in DOMAIN op.deliveries
    BY <1>1, <1>2, <2>1 DEF SentEnds, At, FramesFit, FrameOK
  <2>4. op'.phase \in {op.phase, "recovery-required"}
    BY <1>1, <2>2, <2>3, OutcomesFacts, DeliveredFacts
  <2> QED
    BY <2>4, SamePhased
<1>3. CASE Release(q)
  <2>1. PICK to \in Managers, then \in Thens :
           /\ then \in {"evidence", "finish", "end", "idle"}
           /\ \/ \E i \in DOMAIN op.deliveries :
                    Deliver(q, op, i, to, "release", Ending(q), then)
              \/ op' = op
    BY <1>3, ReleaseEntry
  <2>2. "release" \in Oks /\ Ending(q) \in Nos
    BY DEF Oks, Nos, Ending
  <2>3. CASE op' = op
    BY <2>3, SamePhased
  <2>4. ASSUME NEW i \in DOMAIN op.deliveries,
               Deliver(q, op, i, to, "release", Ending(q), then)
        PROVE  Uncompleted
    BY <1>1, <2>1, <2>2, <2>4, UncompletedDelivers
  <2> QED
    BY <2>1, <2>3, <2>4
<1>4. CASE End(q) \/ ReparentFails(q) \/ Close(q)
  <2>1. op' = op
    BY <1>4 DEF End, ReparentFails, Close, journal
  <2> QED
    BY <2>1, SamePhased
<1>5. CASE Adopt(q)
  <2>1. op' = op \/ op' = [op EXCEPT !.intent = @ /\ op.committed]
    BY <1>5 DEF Adopt
  <2>2. op'.phase = op.phase
    BY <1>1, <2>1 DEF Ops
  <2> QED
    BY <2>2, SamePhased
<1> QED
  BY <1>2, <1>3, <1>4, <1>5 DEF Common, Transfer

LEMMA UncompletedPrepare ==
    ASSUME Sound, Prepare
    PROVE  Uncompleted
<1>1. op \in Ops /\ FramesFit
  BY DEF Sound
<1>2. CASE op' = op
  BY <1>2, SamePhased
<1>3. CASE Brief /\ op' # op
  <2>0. Preparation \in Texts
    BY TextTypes
  <2>1. PICK o : o = Lists(op, Preparation)
    OBVIOUS
  <2>2. PICK i : i = First(Places(o, Preparation))
    OBVIOUS
  <2>3. o \in Ops /\ i \in DOMAIN o.deliveries /\ o.phase = op.phase
    BY <1>1, <2>0, <2>1, <2>2, Listed
  <2>4. Deliver("task", o, i, "old", "receipt", "end", "idle")
    BY <1>3, <2>1, <2>2 DEF Brief
  <2>5. "receipt" \in Oks /\ "end" \in Nos /\ "idle" \in Thens /\ "old" \in Managers
    BY DEF Oks, Nos, Thens, Managers
  <2> QED
    BY <1>1, <2>3, <2>4, <2>5, UncompletedDelivers, Managing
<1>4. CASE op' # op /\ (Validated \/ Intend \/ Commit)
  <2>1. \E ph \in {"spawning", "transferring", "binding"} :
           \/ op' = [op EXCEPT !.phase = ph]
           \/ op' = [op EXCEPT !.phase = ph, !.intent = TRUE]
           \/ op' = [op EXCEPT !.committed = TRUE, !.phase = ph]
    BY <1>4 DEF Validated, Intend, Commit
  <2>2. op'.phase \in {"spawning", "transferring", "binding"}
    BY <1>1, <2>1 DEF Ops
  <2> QED
    BY <2>2 DEF Uncompleted
<1>5. CASE Ready \/ Receipt \/ Spawn \/ Check \/ CheckFails
  <2>1. op' = op
    BY <1>5 DEF Ready, Receipt, Spawn, Check, CheckFails, journal
  <2> QED
    BY <1>2, <2>1
<1> QED
  BY <1>2, <1>3, <1>4, <1>5 DEF Prepare

LEMMA UncompletedTask ==
    ASSUME Sound, \/ Flush \/ Fail \/ Activate \/ KicksOff \/ KickoffFails \/ Evidence
                  \/ Reconciled \/ Resolved \/ Start \/ Cancel \/ Reconcile \/ Bind \/ Restart
    PROVE  Uncompleted
<1>1. op \in Ops /\ FramesFit
  BY DEF Sound
<1>2. ASSUME op' = op PROVE Uncompleted
  BY <1>2, SamePhased
<1>3. CASE DrainFails
  <2>1. op' = op \/ \E f \in flights : \E x \in Outcomes(f.to) : op' = Noted(op, f.at, x)
    BY <1>3 DEF DrainFails
  <2> QED
    BY <1>2, <2>1, UncompletedHears
<1>4. CASE \/ \E m \in Managers : Drain(m)
           \/ Drained \/ Settle \/ Activate \/ KickoffFails \/ Evidence
  <2>1. op' = op
    BY <1>4 DEF Drain, Drained, Settle, Activate, KickoffFails, Evidence, journal
  <2> QED
    BY <1>2, <2>1
<1>5. CASE Fail
  BY <1>1, <1>5, FailFacts DEF Uncompleted
<1>6. CASE KicksOff
  <2>1. PICK o \in Ops : \E i \in DOMAIN o.deliveries :
           o.phase = "activating" /\ Deliver("task", o, i, "new", "drain", "end", "evidence")
    BY <1>1, <1>6, KickoffEntry
  <2>2. PICK i \in DOMAIN o.deliveries :
           o.phase = "activating" /\ Deliver("task", o, i, "new", "drain", "end", "evidence")
    BY <2>1
  <2>3. "drain" \in Oks /\ "end" \in Nos /\ "evidence" \in Thens /\ "new" \in Managers
    BY DEF Oks, Nos, Thens, Managers
  <2> QED
    BY <1>1, <2>2, <2>3, UncompletedDelivers, Managing
<1>7. ASSUME Reconciles \/ Cancels PROVE Uncompleted
  <2>1. op' = op \/ op' = [op EXCEPT !.phase = "cancelled"]
    BY <1>7 DEF Reconciles, Cancels, journal
  <2>2. op'.phase \in {op.phase, "cancelled"}
    BY <1>1, <2>1 DEF Ops
  <2> QED
    BY <2>2 DEF Uncompleted
<1>8. CASE Reconciled
  <2>1. \E ph \in {"recovery-required", "binding"} :
           op' = [op EXCEPT !.committed = TRUE, !.phase = ph]
    BY <1>8 DEF Reconciled
  <2>2. op'.phase \in {"recovery-required", "binding"}
    BY <1>1, <2>1 DEF Ops
  <2> QED
    BY <2>2 DEF Uncompleted
<1>9. CASE Resolved
  <2>1. CASE op' = [op EXCEPT !.phase = "preparing"]
    <3>1. op'.phase = "preparing"
      BY <1>1, <2>1 DEF Ops
    <3> QED
      BY <3>1 DEF Uncompleted
  <2> QED
    BY <1>2, <1>7, <1>9, <2>1 DEF Resolved, journal
<1>10. CASE Start
  <2>1. op'.phase = "preparing"
    BY <1>10, StartFacts DEF Starting
  <2> QED
    BY <2>1 DEF Uncompleted
<1>11. CASE Bind
  <2>1. op'.phase = op.phase
    BY <1>1, <1>11, BoundSet DEF Bind
  <2> QED
    BY <2>1, SamePhased
<1>12. CASE Restart
  <2>1. op' = Recovered(op)
    BY <1>12 DEF Restart
  <2> QED
    BY <1>1, <2>1, RecoveredFacts DEF Uncompleted
<1>13. CASE Cancel \/ Reconcile
  BY <1>7, <1>13 DEF Cancel, Reconcile
<1> QED
  BY <1>3, <1>4, <1>5, <1>6, <1>8, <1>9, <1>10, <1>11, <1>12, <1>13 DEF Flush

LEMMA UncompletedResolve ==
    ASSUME Sound, Resolve
    PROVE  Uncompleted
<1>1. op \in Ops /\ FramesFit
  BY DEF Sound
<1>2. ASSUME NEW o \in Ops, o.phase = op.phase, NEW i \in DOMAIN o.deliveries, NEW retry,
             Resolves(o, i, retry)
      PROVE  Uncompleted
  <2>1. PICK s, text, then : s = Settling(o, i) /\ text = o.deliveries[i].text
                             /\ then = Onward(o, i)
    OBVIOUS
  <2>2. s \in Ops /\ s.phase = op.phase /\ Len(s.deliveries) = Len(o.deliveries)
    BY <1>2, <2>1, SettlingFacts
  <2>3. text \in Texts /\ then \in Thens
    BY <2>1, Entries DEF Onward, Thens
  <2>4. CASE op' = s
    BY <2>2, <2>4, SamePhased
  <2>5. CASE Deliver("request", Appended(s, text), Len(o.deliveries) + 1, Owner(o), "resolved",
                     "resolved", then)
    <3>1. PICK p : p = Appended(s, text)
      OBVIOUS
    <3>2. PICK n : n = Len(o.deliveries) + 1
      OBVIOUS
    <3>3. p \in Ops /\ n \in DOMAIN p.deliveries /\ p.phase = op.phase
      <4>1. n = Len(s.deliveries) + 1
        BY <2>2, <3>2
      <4>2. p \in Ops /\ p.phase = s.phase
        BY <2>2, <2>3, <3>1, Appending
      <4>3. n \in DOMAIN p.deliveries
        BY <2>2, <2>3, <3>1, <4>1, AppendedLast
      <4> QED
        BY <2>2, <4>2, <4>3
    <3>4. Deliver("request", p, n, Owner(o), "resolved", "resolved", then)
      BY <2>5, <3>1, <3>2
    <3>5. "resolved" \in Oks /\ "resolved" \in Nos /\ Owner(o) \in Managers
      BY Targets DEF Oks, Nos
    <3> QED
      BY <1>1, <2>3, <3>3, <3>4, <3>5, UncompletedDelivers, Managing
  <2> QED
    BY <1>2, <2>1, <2>4, <2>5, ResolvesIs
<1>3. ASSUME NEW retry \in BOOLEAN, op.finish # 0,
             Resolves([Appended(op, Report(op.finish)) EXCEPT !.finish = 0],
                      Len(op.deliveries) + 1, retry)
      PROVE  Uncompleted
  <2>1. PICK n : n = Len(op.deliveries) + 1
    OBVIOUS
  <2>2. PICK text : text = Report(op.finish)
    OBVIOUS
  <2>3. PICK o \in Ops :
           /\ o = [Appended(op, text) EXCEPT !.finish = 0]
           /\ n \in DOMAIN o.deliveries
    BY <1>1, <1>3, <2>1, <2>2, Recorded
  <2>4. text \in Texts
    <3>1. op.finish \in 1..MaxTurns
      BY <1>1, <1>3, BoundsAssumption DEF Ops
    <3> QED
      BY <2>2, <3>1, TextTypes
  <2>5. o.phase = op.phase
    <3>1. PICK a : a = Appended(op, text)
      OBVIOUS
    <3>2. a \in Ops /\ a.phase = op.phase
      BY <1>1, <2>4, <3>1, Appending
    <3> QED
      BY <2>3, <3>1, <3>2 DEF Ops
  <2>6. Resolves(o, n, retry)
    BY <1>3, <2>1, <2>2, <2>3
  <2> QED
    BY <1>2, <2>3, <2>5, <2>6
<1>4. ASSUME NEW retry \in BOOLEAN, NEW i \in DOMAIN op.deliveries, Resolves(op, i, retry)
      PROVE  Uncompleted
  BY <1>1, <1>2, <1>4
<1> QED
  BY <1>3, <1>4 DEF Resolve

LEMMA OnlyFinishes ==
    ASSUME Sound, [Next]_vars, op.phase # "complete", op'.phase = "complete"
    PROVE  Finish
<1> SUFFICES ASSUME ~Finish PROVE Uncompleted
  BY DEF Uncompleted
<1>1. op \in Ops
  BY DEF Sound
<1>2. ASSUME op' = op PROVE Uncompleted
  BY <1>2, SamePhased
<1>3. CASE Sends
  <2>1. PICK n \in 1..MaxMessages, m \in Managers : Send(n, m)
    BY <1>3 DEF Sends
  <2>2. PICK text : text = Message(n)
    OBVIOUS
  <2>3. text \in Texts /\ (op' = op \/ op' = Appended(op, text))
    BY <2>1, <2>2, TextTypes DEF Send
  <2>4. PICK p : p = Appended(op, text)
    OBVIOUS
  <2>5. p.phase = op.phase
    BY <1>1, <2>3, <2>4, Appending
  <2> QED
    BY <2>3, <2>4, <2>5, SamePhased
<1>4. CASE FlightEnds
  <2>1. \E f \in flights : \E x \in Outcomes(f.to) :
           op' = Noted(op, f.at, x) \/ op' = Told(Noted(op, f.at, x), f.text.n)
    BY <1>4 DEF FlightEnds, SendEnds, WakeSent
  <2> QED
    BY <2>1, UncompletedHears
<1>5. CASE \/ WorkerStarts \/ WorkerEnds \/ SpawnsLate
           \/ \E m \in Managers : Exits(m) \/ Resumes(m) \/ WakeBegins(m) \/ WakeCaptured(m)
  <2>1. op' = op
    BY <1>5 DEF WorkerStarts, WorkerEnds, SpawnsLate, Exits, Resumes, WakeBegins, WakeCaptured,
                journal
  <2> QED
    BY <1>2, <2>1
<1>6. CASE \E m \in Managers : WakeStep(m)
  BY <1>5, <1>6, UncompletedWakes DEF WakeStep
<1>7. CASE \E q \in Processes : Common(q)
  BY <1>7, UncompletedCommon
<1>8. CASE Prepare
  BY <1>8, UncompletedPrepare
<1>9. CASE \/ Flush \/ Fail \/ Activate \/ KicksOff \/ KickoffFails \/ Evidence
           \/ Reconciled \/ Resolved \/ Start \/ Cancel \/ Reconcile \/ Bind \/ Restart
  BY <1>9, UncompletedTask
<1>10. CASE Resolve
  BY <1>10, UncompletedResolve
<1>11. CASE UNCHANGED vars
  BY <1>2, <1>11 DEF vars, journal
<1> QED
  BY <1>3, <1>4, <1>5, <1>6, <1>7, <1>8, <1>9, <1>10, <1>11, Managing
     DEF Next, TaskStep, RequestStep, Requests

(* A handoff completes only when the tasks have moved, the pane is bound,  *)
(* the successor was kicked off, no recorded completion is left and no     *)
(* entry is open but a prompt that the owner had sent again meanwhile: the *)
(* activation finds no open entry but what is awaited (Activate), and that *)
(* is its own kickoff or what the owner asked for; from then on nothing is *)
(* opened but what is awaited, and the task goes on when it is settled.    *)
THEOREM HandoffCompletesWhole == Spec => CompletesWhole
<1>1. Sound /\ Staged /\ Cleared /\ [Next]_vars =>
          [op.phase # "complete" /\ op'.phase = "complete" /\ ~cancelled => Whole(op')]_vars
  <2> SUFFICES ASSUME Sound, Staged, Cleared, [Next]_vars, op.phase # "complete",
                      op'.phase = "complete", ~cancelled
               PROVE  Whole(op')
    OBVIOUS
  <2>1. op \in Ops /\ Finish
    BY OnlyFinishes DEF Sound
  <2>2. PICK f : f = frames["task"]
    OBVIOUS
  <2>3. f.pc = "finish" /\ op.finish = 0 /\ op' = [op EXCEPT !.phase = "complete"]
    BY <2>1, <2>2 DEF Finish, At, Undelivered
  <2>4. op.committed /\ op.bound /\ tasks = "new"
    BY <2>2, <2>3 DEF Staged, Orderly, Stage, Active, Moved
  <2>5. Accounted(op, f) /\ Kicked(op) /\ Emptied(op)
    BY <2>2, <2>3 DEF Cleared, Clears, Past, Later, Lasts
  <2>6. /\ op'.deliveries = op.deliveries /\ op'.committed = op.committed
        /\ op'.bound = op.bound /\ op'.finish = op.finish
    BY <2>1, <2>3 DEF Ops
  <2>7. ASSUME NEW i \in DOMAIN op.deliveries,
               op.deliveries[i].status \in {"sending", "uncertain"}
        PROVE  ~Releasable(op.deliveries[i].text) /\ allowed[op.deliveries[i].text] > 0
    BY <2>3, <2>5, <2>7 DEF Accounted, Emptied, Opens
  <2> QED
    BY <2>3, <2>4, <2>5, <2>6, <2>7 DEF Whole, Kicked
<1> QED
  BY <1>1, HandoffSound, HandoffStaged, HandoffCleared, PTL DEF Spec, CompletesWhole
===============================================================================

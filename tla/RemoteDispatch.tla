--------------------------- MODULE RemoteDispatch ---------------------------
(***************************************************************************)
(* Paired worker dispatch between two hubs: the origin (origin.rs and its  *)
(* observer in runtime.rs), the receiver (receiver.rs) and the federation  *)
(* link between them.                                                      *)
(*                                                                         *)
(* Each hub keeps a journal that is persisted before it is changed in      *)
(* memory, so the journals survive a crash and everything else does not.   *)
(* Calls and update events are in flight on the link; either may be lost,  *)
(* an answer may come after its caller gave up, and updates may overtake   *)
(* each other.  Time is abstracted to whether a lease has expired, notes   *)
(* and payloads are left out, and a worker session is named by how often   *)
(* its dispatch was claimed.                                               *)
(***************************************************************************)
EXTENDS Naturals, Sequences, FiniteSets

CONSTANTS
    Dispatches,   \* dispatch ids
    OriginCap,    \* rows of the origin's journal (256)
    ReceiverCap,  \* rows of the receiver's journal (1024)
    MaxSeq,       \* bound: updates a worker reports
    MaxCrashes,   \* bound: hub restarts, of either hub
    MaxLosses,    \* bound: calls, answers and events the link loses
    MaxRepeats,   \* bound: calls the receiver handles twice
    MaxFailures   \* bound: wake deliveries that return an error

ASSUME DispatchesAssumption == IsFiniteSet(Dispatches)

ASSUME DispatchBoundsAssumption ==
    /\ OriginCap \in Nat \ {0} /\ ReceiverCap \in Nat \ {0}
    /\ MaxSeq \in Nat /\ MaxCrashes \in Nat /\ MaxLosses \in Nat
    /\ MaxRepeats \in Nat /\ MaxFailures \in Nat

VARIABLES
    origin,     \* the origin's journal
    forward,    \* where the origin's call of each dispatch stands
    observer,   \* the update the origin's observer is working on
    signature,  \* last wake signature recorded for a booked dispatch
    receiver,   \* the receiver's journal
    allocating, \* the dispatch a worktree is being allocated for
    launching,  \* claimed dispatches whose engine spawn is awaited
    calls,      \* calls and answers on the link
    updates,    \* update events on the link
    launches,   \* history: workers started for each dispatch
    wakes,      \* history: sequence numbers handed to the owner's engine
    finals,     \* history: sequence number of the final report, 0 for none
    claims,     \* history: claims of each dispatch
    budget      \* what is left of the Max* bounds

atOrigin == <<origin, forward, observer, signature, wakes>>
atReceiver == <<receiver, allocating, launching, launches, finals, claims>>
link == <<calls, updates>>
vars == <<origin, forward, observer, signature, receiver, allocating,
          launching, calls, updates, launches, wakes, finals, claims, budget>>

-----------------------------------------------------------------------------
(* State                                                                   *)

\* An Option of the code: a set of at most one element.
Option(S) == {X \in SUBSET S : \A x, y \in X : x = y}

Update == [seq : Nat \ {0}, session : Nat, final : BOOLEAN]

\* `session` is 0 until the worker's session is known.
OriginRecord == [state : {"open", "done"}, session : Nat, ackedSeq : Nat,
                 deliveringSeq : Option(Nat), lastUpdate : Option(Update),
                 booked : BOOLEAN, openedAt : Nat]

\* The fields from `claimed` on are those of the lease; `acked` says that the
\* final update is acknowledged.
WorkerRecord == [session : Nat, seq : Nat, last : Option(Update),
                 acked : BOOLEAN, claimed : BOOLEAN, prepared : BOOLEAN,
                 expired : BOOLEAN]

Call == [type : {"prepare", "prepared", "spawn", "spawned", "replay"},
         dispatch : Dispatches, arg : Nat]

Event == [dispatch : Dispatches, update : Update]

\* "accepted": the update is journaled; "marked": so is the intent to
\* deliver it; "sent": the owner's engine took the wake; "signed": the
\* signature of a booked dispatch is recorded.
Work == [dispatch : Dispatches, update : Update,
         phase : {"accepted", "marked", "sent", "signed"}]

Budget == [crash : Nat, loss : Nat, repeat : Nat, failure : Nat]

TypeOK ==
    /\ origin \in [Dispatches -> Option(OriginRecord)]
    /\ forward \in [Dispatches -> {"idle", "preparing", "spawning", "over"}]
    /\ observer \in Option(Work)
    /\ signature \in [Dispatches -> Nat]
    /\ receiver \in [Dispatches -> Option(WorkerRecord)]
    /\ allocating \in Option(Dispatches)
    /\ launching \subseteq Dispatches
    /\ calls \subseteq Call
    /\ updates \subseteq Event
    /\ launches \in [Dispatches -> Nat]
    /\ wakes \in [Dispatches -> Seq(Nat)]
    /\ finals \in [Dispatches -> Nat]
    /\ claims \in [Dispatches -> Nat]
    /\ budget \in Budget

Init ==
    /\ origin = [d \in Dispatches |-> {}]
    /\ forward = [d \in Dispatches |-> "idle"]
    /\ observer = {}
    /\ signature = [d \in Dispatches |-> 0]
    /\ receiver = [d \in Dispatches |-> {}]
    /\ allocating = {} /\ launching = {}
    /\ calls = {} /\ updates = {}
    /\ launches = [d \in Dispatches |-> 0]
    /\ wakes = [d \in Dispatches |-> <<>>]
    /\ finals = [d \in Dispatches |-> 0]
    /\ claims = [d \in Dispatches |-> 0]
    /\ budget = [crash |-> MaxCrashes, loss |-> MaxLosses,
                 repeat |-> MaxRepeats, failure |-> MaxFailures]

-----------------------------------------------------------------------------
(* The link                                                                *)

Msg(type, d, arg) == [type |-> type, dispatch |-> d, arg |-> arg]

(* Handling a call takes it off the link, or the link repeats it once more *)
(* later.  `answers` are put on the link.                                  *)
Handle(m, answers) ==
    /\ m \in calls
    /\ \/ calls' = (calls \ {m}) \cup answers /\ UNCHANGED budget
       \/ /\ budget.repeat > 0
          /\ budget' = [budget EXCEPT !.repeat = @ - 1]
          /\ calls' = calls \cup answers

LoseCall == \E m \in calls :
    /\ budget.loss > 0
    /\ budget' = [budget EXCEPT !.loss = @ - 1]
    /\ calls' = calls \ {m}
    /\ UNCHANGED <<atOrigin, atReceiver, updates>>

LoseUpdate == \E e \in updates :
    /\ budget.loss > 0
    /\ budget' = [budget EXCEPT !.loss = @ - 1]
    /\ updates' = updates \ {e}
    /\ UNCHANGED <<atOrigin, atReceiver, calls>>

-----------------------------------------------------------------------------
(* Origin: dispatching                                                     *)

OriginRows == {d \in Dispatches : origin[d] # {}}
OpenRows == {d \in OriginRows : \E o \in origin[d] : o.state = "open"}
OpenedAt(d) == (CHOOSE o \in origin[d] : TRUE).openedAt

(* Room in the journal: the oldest done rows go first.                     *)
OriginEvicted ==
    LET surplus == (Cardinality(OriginRows) + 1) - OriginCap
        done    == OriginRows \ OpenRows
    IN {d \in done : Cardinality({e \in done : OpenedAt(e) < OpenedAt(d)})
                        < surplus}

(* forward_booked up to the first call: the row is journaled, then the     *)
(* peer is asked to prepare.                                               *)
Dispatch(d) == \E booked \in BOOLEAN :
    /\ forward[d] = "idle"
    /\ Cardinality(OpenRows) < OriginCap
    /\ LET evicted == OriginEvicted
       IN origin' = [e \in Dispatches |->
            IF e = d
            THEN {[state |-> "open", session |-> 0, ackedSeq |-> 0,
                   deliveringSeq |-> {}, lastUpdate |-> {}, booked |-> booked,
                   openedAt |-> Cardinality({x \in Dispatches :
                                               forward[x] # "idle"})]}
            ELSE IF e \in evicted THEN {} ELSE origin[e]]
    /\ forward' = [forward EXCEPT ![d] = "preparing"]
    /\ calls' = calls \cup {Msg("prepare", d, 0)}
    /\ UNCHANGED <<observer, signature, wakes, atReceiver, updates, budget>>

(* The lease was granted: the one and only spawn call is made.             *)
CallSpawn(d) ==
    /\ forward[d] = "preparing"
    /\ Msg("prepared", d, 0) \in calls
    /\ calls' = (calls \ {Msg("prepared", d, 0)}) \cup {Msg("spawn", d, 0)}
    /\ forward' = [forward EXCEPT ![d] = "spawning"]
    /\ UNCHANGED <<origin, observer, signature, wakes, atReceiver, updates,
                   budget>>

(* attach: the receipt names the session; a different one is refused.      *)
Attach(d) == \E m \in calls, o \in origin[d] :
    /\ m.type = "spawned" /\ m.dispatch = d
    /\ forward[d] = "spawning"
    /\ origin' = IF \/ o.session \notin {0, m.arg}
                    \/ \E u \in o.lastUpdate : u.session # m.arg
                 THEN origin
                 ELSE [origin EXCEPT ![d] = {[o EXCEPT !.session = m.arg]}]
    /\ forward' = [forward EXCEPT ![d] = "over"]
    /\ calls' = calls \ {m}
    /\ UNCHANGED <<observer, signature, wakes, atReceiver, updates, budget>>

(* A call was refused, lost or timed out: the row stays open and nothing   *)
(* is tried again.  Answers that come later find no caller.                *)
ForwardFails(d) ==
    /\ forward[d] \in {"preparing", "spawning"}
    /\ forward' = [forward EXCEPT ![d] = "over"]
    /\ UNCHANGED <<origin, observer, signature, wakes, atReceiver, link, budget>>

-----------------------------------------------------------------------------
(* Receiver: leases and admission                                          *)

ReceiverRows == {d \in Dispatches : receiver[d] # {}}

(* Rows a full journal may drop.  The code drops the one acknowledged      *)
(* first, but every reconciliation acknowledges again and renews the time, *)
(* so any of them may be that one.                                         *)
Reclaimable == {d \in ReceiverRows : \A r \in receiver[d] : r.acked}

\* Mutant: any row may be dropped.
ReceiverEvictsUnacked ==
    IF Cardinality(ReceiverRows) < ReceiverCap THEN {{}}
    ELSE {{d} : d \in ReceiverRows}

ReceiverEvictions ==
    IF Cardinality(ReceiverRows) < ReceiverCap \/ Reclaimable = {} THEN {{}}
    ELSE {{d} : d \in Reclaimable}

Usable(r) == ~r.claimed /\ r.prepared /\ ~r.expired

(* prepare_owned of a known dispatch: only an unused lease is shown again. *)
PrepareAgain(d) == \E r \in receiver[d] :
    /\ allocating = {}
    /\ Handle(Msg("prepare", d, 0),
              IF Usable(r) THEN {Msg("prepared", d, 0)} ELSE {})
    /\ UNCHANGED <<atOrigin, atReceiver, updates>>

(* prepare_owned of a new one: the lease is journaled first; a worktree is *)
(* then allocated under the operations lock.                               *)
Prepare(d) == \E worktree \in BOOLEAN, evicted \in ReceiverEvictions :
    /\ allocating = {}
    /\ receiver[d] = {}
    /\ LET full == Cardinality(ReceiverRows \ evicted) >= ReceiverCap
       IN /\ Handle(Msg("prepare", d, 0),
                    IF full \/ worktree THEN {} ELSE {Msg("prepared", d, 0)})
          /\ receiver' = IF full THEN receiver ELSE
               [e \in Dispatches |->
                  IF e = d
                  THEN {[session |-> 0, seq |-> 0, last |-> {}, acked |-> FALSE,
                         claimed |-> FALSE, prepared |-> ~worktree,
                         expired |-> FALSE]}
                  ELSE IF e \in evicted THEN {} ELSE receiver[e]]
          /\ allocating' = IF worktree /\ ~full THEN {d} ELSE {}
    /\ UNCHANGED <<atOrigin, launching, launches, finals, claims, updates>>

(* The allocation ends; a failed one leaves an unprepared lease to sweep.  *)
Allocate(d) == \E r \in receiver[d], ok \in BOOLEAN :
    /\ allocating = {d}
    /\ allocating' = {}
    /\ receiver' = [receiver EXCEPT ![d] = {[r EXCEPT !.prepared = ok]}]
    /\ calls' = IF ok THEN calls \cup {Msg("prepared", d, 0)} ELSE calls
    /\ UNCHANGED <<atOrigin, launching, launches, finals, claims, updates,
                   budget>>

\* Mutant: the lease is not consumed.
ClaimedReusable(r, session) == [r EXCEPT !.session = session]

(* The lease is consumed for one worker session.                           *)
Claimed(r, session) == [r EXCEPT !.claimed = TRUE, !.session = session]

(* spawn_owned: the lease is durably claimed before the engine is asked.   *)
Spawn(d) ==
    /\ allocating = {}
    /\ Handle(Msg("spawn", d, 0), {})
    /\ IF \E r \in receiver[d] : Usable(r)
       THEN /\ claims' = [claims EXCEPT ![d] = @ + 1]
            /\ receiver' = [receiver EXCEPT ![d] =
                              {Claimed(r, claims'[d]) : r \in @}]
            /\ launching' = launching \cup {d}
       ELSE UNCHANGED <<claims, receiver, launching>>
    /\ UNCHANGED <<atOrigin, allocating, launches, finals, updates>>

(* The engine spawn returns: a worker was started or not, and the answer   *)
(* says which session or is an error.                                      *)
Launch(d) == \E started, ok \in BOOLEAN :
    /\ d \in launching
    /\ ok => started
    /\ launching' = launching \ {d}
    /\ launches' = [launches EXCEPT ![d] = IF started THEN @ + 1 ELSE @]
    /\ calls' = IF ok THEN calls \cup {Msg("spawned", d, r.session) :
                                         r \in receiver[d]}
                ELSE calls
    /\ UNCHANGED <<atOrigin, receiver, allocating, finals, claims, updates,
                   budget>>

LeaseExpires(d) == \E r \in receiver[d] :
    /\ ~r.claimed /\ ~r.expired
    /\ receiver' = [receiver EXCEPT ![d] = {[r EXCEPT !.expired = TRUE]}]
    /\ UNCHANGED <<atOrigin, allocating, launching, launches, finals, claims,
                   link, budget>>

(* sweep_at of an expired lease nobody claimed.  (A worktree that cannot   *)
(* be removed keeps its row: no step.)                                     *)
Sweep(d) == \E r \in receiver[d] :
    /\ allocating = {}
    /\ ~r.claimed /\ r.expired
    /\ receiver' = [receiver EXCEPT ![d] = {}]
    /\ UNCHANGED <<atOrigin, allocating, launching, launches, finals, claims,
                   link, budget>>

-----------------------------------------------------------------------------
(* Receiver: reports and replays                                           *)

\* Mutant: the first update gets number zero.
NumberedFromZero(r, final) ==
    [seq |-> r.seq, session |-> r.session, final |-> final]

Numbered(r, final) ==
    [seq |-> r.seq + 1, session |-> r.session, final |-> final]

MayReport(r) == \A u \in r.last : ~u.final

(* report: numbered and journaled, then published.                         *)
Report(d) == \E r \in receiver[d], final \in BOOLEAN :
    LET u == Numbered(r, final)
    IN /\ launches[d] > 0 /\ r.claimed
       /\ MayReport(r)
       /\ r.seq < MaxSeq
       /\ receiver' = [receiver EXCEPT ![d] =
                         {[r EXCEPT !.seq = @ + 1, !.last = {u}]}]
       /\ updates' = updates \cup {[dispatch |-> d, update |-> u]}
       /\ finals' = IF final THEN [finals EXCEPT ![d] = u.seq] ELSE finals
       /\ UNCHANGED <<atOrigin, allocating, launching, launches, claims, calls,
                      budget>>

(* replay with an acknowledgement: it must name the final update.          *)
Acknowledged(r, seq) == \E u \in r.last : u.final /\ u.seq = seq

ReplayAck(d) == \E m \in calls :
    /\ m.type = "replay" /\ m.dispatch = d /\ m.arg > 0
    /\ Handle(m, {})
    /\ receiver' = [receiver EXCEPT ![d] =
         {[r EXCEPT !.acked = @ \/ Acknowledged(r, m.arg)] : r \in @}]
    /\ UNCHANGED <<atOrigin, allocating, launching, launches, finals, claims,
                   updates>>

\* Mutant: the condition on what is published again is inverted.
ReplayNotFinal(d) == \E again \in BOOLEAN :
    /\ Handle(Msg("replay", d, 0), {})
    /\ \A r \in receiver[d] : \A u \in r.last : u.final => ~again
    /\ updates' = updates \cup
         {[dispatch |-> d, update |-> u] :
             u \in {x \in UNION {r.last : r \in receiver[d]} : again}}
    /\ UNCHANGED <<atOrigin, atReceiver>>

(* replay without one publishes the last update again; a block that was    *)
(* resolved meanwhile is not.                                              *)
Replay(d) == \E again \in BOOLEAN :
    /\ Handle(Msg("replay", d, 0), {})
    /\ \A r \in receiver[d] : \A u \in r.last : u.final => again
    /\ updates' = updates \cup
         {[dispatch |-> d, update |-> u] :
             u \in {x \in UNION {r.last : r \in receiver[d]} : again}}
    /\ UNCHANGED <<atOrigin, atReceiver>>

-----------------------------------------------------------------------------
(* Origin: accepting updates and waking the owner.  One observer task      *)
(* handles events and reconciles, one at a time.                           *)

\* Mutant: an update that was acknowledged is accepted again.
AcceptableAgain(o, u) ==
    /\ o.state = "open"
    /\ o.session \in {0, u.session}
    /\ \A p \in o.lastUpdate : /\ p.session = u.session
                               /\ u.seq >= p.seq
                               /\ p.final => u.seq = p.seq

(* The tests of accept_and_deliver                                         *)
Acceptable(o, u) ==
    /\ o.state = "open"
    /\ u.seq > o.ackedSeq
    /\ o.session \in {0, u.session}
    /\ \A p \in o.lastUpdate : /\ p.session = u.session
                               /\ u.seq >= p.seq
                               /\ p.final => u.seq = p.seq

(* The retained copy of a repeated update is used.                         *)
Known(o, u) ==
    IF \E p \in o.lastUpdate : p.seq = u.seq THEN o.lastUpdate ELSE {u}

(* Its first journal change                                                *)
Retained(o, u) == [o EXCEPT !.session = u.session, !.lastUpdate = {u}]

\* Mutant: an interrupted delivery is started again.
MayDeliverAgain(o) == TRUE

\* An interrupted delivery stays unknown and blocks every other.
MayDeliver(o) == o.deliveringSeq = {}

Accept(d, o, update) == \E u \in Known(o, update) :
    /\ origin' = [origin EXCEPT ![d] = {Retained(o, u)}]
    /\ observer' = IF MayDeliver(o)
                   THEN {[dispatch |-> d, update |-> u, phase |-> "accepted"]}
                   ELSE {}

(* Origin::update                                                          *)
ReceiveUpdate == \E e \in updates :
    LET d == e.dispatch
        ok == \E o \in origin[d] : Acceptable(o, e.update)
    IN /\ observer = {}
       /\ updates' = updates \ {e}
       /\ IF ok THEN \E o \in origin[d] : Accept(d, o, e.update)
          ELSE UNCHANGED <<origin, observer>>
       /\ UNCHANGED <<forward, signature, wakes, atReceiver, calls, budget>>

(* The intent is journaled once a live recipient is known.                 *)
MarkDelivering == \E w \in observer : \E o \in origin[w.dispatch] :
    /\ w.phase = "accepted"
    /\ origin' = [origin EXCEPT ![w.dispatch] =
                    {[o EXCEPT !.deliveringSeq = {w.update.seq}]}]
    /\ observer' = {[w EXCEPT !.phase = "marked"]}
    /\ UNCHANGED <<forward, signature, wakes, atReceiver, link, budget>>

(* deliver: the owner's engine takes the wake, unless the signature says   *)
(* that it did.                                                            *)
Deliver == \E w \in observer : \E o \in origin[w.dispatch] :
    /\ w.phase = "marked"
    /\ IF o.booked /\ signature[w.dispatch] = w.update.seq
       THEN wakes' = wakes /\ observer' = {[w EXCEPT !.phase = "signed"]}
       ELSE /\ wakes' = [wakes EXCEPT ![w.dispatch] = Append(@, w.update.seq)]
            /\ observer' = {[w EXCEPT !.phase = "sent"]}
    /\ UNCHANGED <<origin, forward, signature, atReceiver, link, budget>>

RecordSignature == \E w \in observer : \E o \in origin[w.dispatch] :
    /\ w.phase = "sent"
    /\ signature' = IF o.booked
                    THEN [signature EXCEPT ![w.dispatch] = w.update.seq]
                    ELSE signature
    /\ observer' = {[w EXCEPT !.phase = "signed"]}
    /\ UNCHANGED <<origin, forward, wakes, atReceiver, link, budget>>

(* Origin::acknowledge                                                     *)
AcknowledgedRow(o, u) ==
    [o EXCEPT !.ackedSeq = IF u.seq > @ THEN u.seq ELSE @,
              !.deliveringSeq = {},
              !.state = IF u.final THEN "done" ELSE @]

(* The wake is acknowledged, a final one to the peer as well.              *)
Acknowledge == \E w \in observer : \E o \in origin[w.dispatch] :
    /\ w.phase = "signed"
    /\ origin' = [origin EXCEPT ![w.dispatch] = {AcknowledgedRow(o, w.update)}]
    /\ observer' = {}
    /\ calls' = IF w.update.final
                THEN calls \cup {Msg("replay", w.dispatch, w.update.seq)}
                ELSE calls
    /\ UNCHANGED <<forward, signature, wakes, atReceiver, updates, budget>>

(* No live recipient, a refused journal write, an owner that changed, an   *)
(* engine error or a lost engine answer: whatever was done stays done.     *)
DeliveryFails ==
    /\ observer # {}
    /\ budget.failure > 0
    /\ budget' = [budget EXCEPT !.failure = @ - 1]
    /\ observer' = {}
    /\ UNCHANGED <<origin, forward, signature, wakes, atReceiver, link>>

-----------------------------------------------------------------------------
(* Origin::reconcile, for one row                                          *)

(* A local signature shows that the interrupted delivery arrived.          *)
Confirmable(d, o) ==
    /\ o.booked
    /\ \E u \in o.lastUpdate : o.deliveringSeq = {u.seq} /\ signature[d] = u.seq

ReconcileDone(d) == \E o \in origin[d] :
    /\ observer = {}
    /\ o.state = "done"
    /\ calls' = calls \cup {Msg("replay", d, o.ackedSeq)}
    /\ UNCHANGED <<atOrigin, atReceiver, updates, budget>>

ReconcileConfirm(d) == \E o \in origin[d] : \E u \in o.lastUpdate :
    /\ observer = {}
    /\ o.state = "open" /\ Confirmable(d, o)
    /\ origin' = [origin EXCEPT ![d] = {AcknowledgedRow(o, u)}]
    /\ UNCHANGED <<forward, observer, signature, wakes, atReceiver, link, budget>>

ReconcileDeliver(d) == \E o \in origin[d] : \E u \in o.lastUpdate :
    /\ observer = {}
    /\ o.deliveringSeq = {}
    /\ Acceptable(o, u)
    /\ Accept(d, o, u)
    /\ UNCHANGED <<forward, signature, wakes, atReceiver, link, budget>>

ReconcileReplay(d) == \E o \in origin[d] :
    /\ observer = {}
    /\ o.state = "open" /\ ~Confirmable(d, o)
    /\ calls' = calls \cup {Msg("replay", d, 0)}
    /\ UNCHANGED <<atOrigin, atReceiver, updates, budget>>

-----------------------------------------------------------------------------
(* A hub stops at any point and starts again from its journal.             *)

OriginCrash ==
    /\ budget.crash > 0
    /\ budget' = [budget EXCEPT !.crash = @ - 1]
    /\ forward' = [d \in Dispatches |->
                     IF forward[d] = "idle" THEN "idle" ELSE "over"]
    /\ observer' = {}
    /\ UNCHANGED <<origin, signature, wakes, atReceiver, link>>

ReceiverCrash ==
    /\ budget.crash > 0
    /\ budget' = [budget EXCEPT !.crash = @ - 1]
    /\ allocating' = {} /\ launching' = {}
    /\ UNCHANGED <<atOrigin, receiver, launches, finals, claims, link>>

-----------------------------------------------------------------------------
Origin(d) == \/ Dispatch(d) \/ CallSpawn(d) \/ Attach(d) \/ ForwardFails(d)

Receiver(d) == \/ PrepareAgain(d) \/ Prepare(d) \/ Allocate(d) \/ Spawn(d)
               \/ Launch(d) \/ LeaseExpires(d) \/ Sweep(d)
               \/ Report(d) \/ ReplayAck(d) \/ Replay(d)

Observe == \/ ReceiveUpdate \/ MarkDelivering \/ Deliver \/ RecordSignature
           \/ Acknowledge \/ DeliveryFails

Reconcile(d) == \/ ReconcileDone(d) \/ ReconcileConfirm(d)
                \/ ReconcileDeliver(d) \/ ReconcileReplay(d)

Next ==
    \/ \E d \in Dispatches : Origin(d) \/ Receiver(d) \/ Reconcile(d)
    \/ Observe
    \/ LoseCall \/ LoseUpdate
    \/ OriginCrash \/ ReceiverCrash

Spec == Init /\ [][Next]_vars

(* Fairness: the observer's loop runs on, it reconciles every open row     *)
(* every five seconds, and a call or event the link does not lose is       *)
(* handled.                                                                *)
FairSpec ==
    /\ Spec
    /\ WF_vars(ReceiveUpdate) /\ WF_vars(MarkDelivering) /\ WF_vars(Deliver)
    /\ WF_vars(RecordSignature) /\ WF_vars(Acknowledge)
    /\ \A d \in Dispatches : /\ WF_vars(Replay(d)) /\ WF_vars(ReconcileReplay(d))
                             /\ WF_vars(ReconcileDeliver(d))
                             /\ WF_vars(ReconcileConfirm(d))

-----------------------------------------------------------------------------
(* Properties                                                              *)

WokenFor(d) == {wakes[d][i] : i \in DOMAIN wakes[d]}

Woken(d) == finals[d] # 0 /\ finals[d] \in WokenFor(d)

(* Paired dispatch keeps its promise: whatever is lost, repeated, crashed  *)
(* or swept, a dispatch starts at most one worker, and its owner is told   *)
(* each update at most once, in order, and nothing after the final one     *)
(* (docs/paired-dispatch-recovery.md; receiver.rs spawn_owned, origin.rs   *)
(* accept_and_deliver).                                                    *)
Promise == INSTANCE DispatchPromise
             WITH Seqs <- 1..MaxSeq, told <- wakes,
                  closed <- {d \in Dispatches : Woken(d)}

ImplementsPromise == Promise!Spec

(* The owner's engine takes no update twice and none after a newer one,    *)
(* although an interrupted delivery may have arrived or not and updates    *)
(* are replayed, overtake each other and are retained across restarts      *)
(* (origin.rs accept_and_deliver, acknowledge, reconcile).                 *)
ToldOnce ==
    \A d \in Dispatches : \A i, j \in DOMAIN wakes[d] :
        i < j => wakes[d][i] < wakes[d][j]

(* Started work is never dropped before its owner was told the result: the *)
(* receiver still has its claimed row, with the result if there is one,    *)
(* and the origin an open row to deliver it under, however full the        *)
(* journals are ("unacknowledged work is not evicted to make room",        *)
(* "claimed/unknown work is retained").                                    *)
WorkRetained ==
    \A d \in Dispatches : launches[d] > 0 /\ ~Woken(d) =>
        /\ d \in OpenRows
        /\ \E r \in receiver[d] :
              r.claimed /\ (finals[d] # 0 => \E u \in r.last : u.final)

(* Both hubs mean the same worker: the origin never binds a dispatch to a  *)
(* session other than the one the receiver admitted last (origin.rs        *)
(* attach, accept_and_deliver).  Only a row that is done may face a lease  *)
(* of which nothing came: that of a prepare call repeated after the        *)
(* receiver had evicted the acknowledged row.                              *)
SessionsAgree ==
    \A d \in Dispatches : \A o \in origin[d], r \in receiver[d] :
        o.state = "open" \/ r.claimed => o.session \in {0, r.session}

(* The final result reaches the owner, unless a delivery was interrupted   *)
(* and its outcome is unknown: lost events are replayed (origin.rs         *)
(* reconcile, receiver.rs replay).                                         *)
ResultArrives ==
    \A d \in Dispatches :
        finals[d] # 0 ~> \/ Woken(d)
                         \/ \E o \in origin[d] : o.deliveringSeq # {}

==============================================================================

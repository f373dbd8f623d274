----------------------- MODULE ManagerReplacementProofs -----------------------
(***************************************************************************)
(* Proofs about ManagerReplacement: its types, that nothing anybody counts *)
(* as delivered is lost, and that nothing is replayed.                     *)
(***************************************************************************)
EXTENDS ManagerReplacement, FiniteSetTheorems, WellFoundedInduction, TLAPS

-----------------------------------------------------------------------------
(* Sets listed and searched                                                *)

LEMMA Listing ==
    ASSUME NEW S, IsFiniteSet(S)
    PROVE  /\ SetToSeq(S) \in [1..Cardinality(S) -> S]
           /\ Cardinality(S) \in Nat
           /\ \A x \in S : \E i \in DOMAIN SetToSeq(S) : SetToSeq(S)[i] = x
           /\ IsInjective(SetToSeq(S))
<1> DEFINE n == Cardinality(S)
           f == SetToSeq(S)
<1>1. n \in Nat /\ ExistsBijection(1..n, S)
  BY FS_CardinalityType
<1>2. PICK g \in Bijection(1..n, S) : TRUE
  BY <1>1 DEF ExistsBijection
<1>3. g \in [1..n -> S] /\ IsInjective(g)
  BY <1>2 DEF Bijection, Injection, IsInjective
<1>4. f \in [1..n -> S] /\ IsInjective(f)
  BY <1>3 DEF SetToSeq
<1>5. f \in Injection(1..n, S)
  BY <1>4 DEF Injection, IsInjective
<1>6. Cardinality(1..n) = n
  BY <1>1, FS_Interval
<1> HIDE DEF f
<1>7. f \in Surjection(1..n, S)
  BY <1>1, <1>5, <1>6, FS_Injection
<1> QED
  BY <1>1, <1>4, <1>7 DEF Surjection, f

LEMMA FirstIs ==
    ASSUME NEW S \in SUBSET Nat, S # {}
    PROVE  First(S) \in S /\ \A j \in S : First(S) <= j
<1>1. PICK x \in S : \A y \in S : <<y, x>> \notin OpToRel(<, Nat)
  BY NatLessThanWellFounded, WFMin
<1>2. \A y \in S : ~(y < x)
  BY <1>1 DEF OpToRel
<1>3. \A y \in S : x <= y
  BY <1>2
<1> QED
  BY <1>3 DEF First

-----------------------------------------------------------------------------
(* The journal entry                                                       *)

Ops == [phase : Phases, intent : BOOLEAN, committed : BOOLEAN,
        bound : BOOLEAN, deliveries : Deliveries, finish : 0..MaxTurns]
Entry == [text : Texts, status : Statuses]

(* Entries keep their text, and stay where they are.                       *)
Follows(o, p) ==
    /\ DOMAIN o.deliveries \subseteq DOMAIN p.deliveries
    /\ \A i \in DOMAIN o.deliveries : p.deliveries[i].text = o.deliveries[i].text

(* p is o but for the status of entry i.                                   *)
Marks(o, p, i, s) ==
    /\ DOMAIN p.deliveries = DOMAIN o.deliveries
    /\ \A j \in DOMAIN o.deliveries :
          /\ p.deliveries[j].text = o.deliveries[j].text
          /\ p.deliveries[j].status = IF j = i THEN s ELSE o.deliveries[j].status
    /\ p.phase \in {o.phase, "recovery-required"}
    /\ p.intent = o.intent /\ p.committed = o.committed /\ p.bound = o.bound
    /\ p.finish = o.finish

LEMMA Entries ==
    ASSUME NEW o \in Ops
    PROVE  /\ o.deliveries \in Seq(Entry) /\ Len(o.deliveries) \in Nat
           /\ DOMAIN o.deliveries = 1..Len(o.deliveries)
           /\ \A i \in DOMAIN o.deliveries :
                 /\ o.deliveries[i] \in Entry
                 /\ o.deliveries[i].text \in Texts
                 /\ o.deliveries[i].status \in Statuses
           /\ o.phase \in Phases /\ o.intent \in BOOLEAN /\ o.committed \in BOOLEAN
           /\ o.bound \in BOOLEAN /\ o.finish \in 0..MaxTurns
<1>1. o.deliveries \in Seq(Entry)
  BY DEF Ops, Deliveries, Entry
<1>2. \A i \in DOMAIN o.deliveries : o.deliveries[i] \in Entry
  BY <1>1
<1> QED
  BY <1>1, <1>2 DEF Ops, Entry

LEMMA StatusSet ==
    ASSUME NEW o \in Ops, NEW i \in DOMAIN o.deliveries, NEW s \in Statuses
    PROVE  /\ [o EXCEPT !.deliveries[i].status = s] \in Ops
           /\ Marks(o, [o EXCEPT !.deliveries[i].status = s], i, s)
           /\ [o EXCEPT !.deliveries[i].status = s].phase = o.phase
<1> DEFINE d == [o.deliveries EXCEPT ![i].status = s]
           p == [o EXCEPT !.deliveries[i].status = s]
<1>1. /\ o.deliveries \in Seq(Entry) /\ Len(o.deliveries) \in Nat
      /\ DOMAIN o.deliveries = 1..Len(o.deliveries)
      /\ \A j \in DOMAIN o.deliveries : o.deliveries[j] \in Entry
  BY Entries
<1>2. [o.deliveries[i] EXCEPT !.status = s] \in Entry
  BY <1>1 DEF Entry
<1>3. /\ d \in Seq(Entry) /\ DOMAIN d = DOMAIN o.deliveries
      /\ \A j \in DOMAIN o.deliveries :
            /\ d[j].text = o.deliveries[j].text
            /\ d[j].status = IF j = i THEN s ELSE o.deliveries[j].status
  BY <1>1, <1>2 DEF Entry
<1> HIDE DEF d
<1>4. p = [o EXCEPT !.deliveries = d]
  BY DEF d
<1>5. /\ p \in Ops /\ p.deliveries = d /\ p.phase = o.phase /\ p.intent = o.intent
      /\ p.committed = o.committed /\ p.bound = o.bound /\ p.finish = o.finish
  BY <1>3, <1>4 DEF Ops, Deliveries, Entry
<1> HIDE DEF p
<1>6. Marks(o, p, i, s)
  BY <1>3, <1>5 DEF Marks
<1> QED
  BY <1>5, <1>6 DEF p

LEMMA MarksFollows ==
    ASSUME NEW o, NEW p, NEW i, NEW s, Marks(o, p, i, s)
    PROVE  Follows(o, p)
  BY DEF Marks, Follows

LEMMA Appending ==
    ASSUME NEW o \in Ops, NEW text \in Texts
    PROVE  LET p == Appended(o, text)
               n == Len(o.deliveries) + 1
           IN /\ p \in Ops /\ Follows(o, p)
              /\ DOMAIN p.deliveries = 1..n /\ n \notin DOMAIN o.deliveries
              /\ n \in Nat /\ n # 0
              /\ Len(p.deliveries) = n
              /\ \A j \in DOMAIN o.deliveries : p.deliveries[j] = o.deliveries[j]
              /\ p.deliveries[n] = [text |-> text, status |-> "pending"]
              /\ p.phase = o.phase /\ p.intent = o.intent /\ p.committed = o.committed
              /\ p.bound = o.bound /\ p.finish = o.finish
<1> DEFINE x == [text |-> text, status |-> "pending"]
           d == Append(o.deliveries, x)
           p == Appended(o, text)
           n == Len(o.deliveries) + 1
<1>1. /\ o.deliveries \in Seq(Entry) /\ Len(o.deliveries) \in Nat
      /\ DOMAIN o.deliveries = 1..Len(o.deliveries)
  BY Entries
<1>2. x \in Entry
  BY DEF Entry, Statuses
<1> HIDE DEF x
<1>3. /\ d \in Seq(Entry) /\ Len(d) = n /\ DOMAIN d = 1..n /\ d[n] = x
      /\ \A j \in DOMAIN o.deliveries : d[j] = o.deliveries[j]
  BY <1>1, <1>2
<1> HIDE DEF d
<1>4. p = [o EXCEPT !.deliveries = d]
  BY DEF d, x, Appended
<1> HIDE DEF p
<1>5. /\ p \in Ops /\ p.deliveries = d /\ p.phase = o.phase /\ p.intent = o.intent
      /\ p.committed = o.committed /\ p.bound = o.bound /\ p.finish = o.finish
  BY <1>3, <1>4 DEF Ops, Deliveries, Entry
<1>6. DOMAIN o.deliveries \subseteq 1..n /\ n \notin DOMAIN o.deliveries /\ n \in Nat /\ n # 0
  BY <1>1
<1>7. Follows(o, p)
  BY <1>3, <1>5, <1>6 DEF Follows
<1> QED
  BY <1>3, <1>5, <1>6, <1>7 DEF p, x

-----------------------------------------------------------------------------
(* What holds of the frames, the sends and the wakes                       *)

Flight == [text : Texts, to : Managers, at : Nat, by : Processes \cup {"client", "wake"}]
Wake == [pc : {"idle", "capture", "record", "send", "sent"}, turn : 0..MaxTurns,
         inline : BOOLEAN]

Oks == {"idle", "receipt", "release", "resolved", "drain"}
Nos == {"idle", "end", "resolved"}
Thens == {"idle", "end", "brief", "evidence", "finish", "prepare", "reconcile"}
Flushes == {"drain", "wait", "wait new", "settle"}

(* A frame knows what follows a flush and a release, and the entry it awaits. *)
Follow(f) ==
    /\ f.pc \in Flushes => f.then \in {"brief", "evidence", "finish"}
    /\ f.pc = "sent" /\ f.ok = "drain" => f.then = "evidence"
    /\ f.pc = "release" => f.then \in {"evidence", "finish", "end", "idle"}
    /\ f.pc = "sent" /\ f.ok = "release" => f.then \in {"evidence", "finish", "end", "idle"}
FrameOK(f, d) ==
    /\ f \in Frames /\ Follow(f)
    /\ f.pc \in {"sent", "resolved"} => f.at \in DOMAIN d
FramesFit ==
    /\ frames \in [Processes -> Frames]
    /\ \A q \in Processes : FrameOK(frames[q], op.deliveries)

(* The send that a frame awaits.                                           *)
Fly(q) == [text |-> op.deliveries[frames[q].at].text, to |-> frames[q].to,
           at |-> 0, by |-> q]
FlightOK(f) ==
    /\ f.at # 0 => f.at \in DOMAIN op.deliveries /\ op.deliveries[f.at].text = f.text
    /\ f.by = "client" => f.text.kind = "message" /\ f.text.n > budget.messages
    /\ f.by = "wake" => f.text.kind = "report" /\ f.text.n <= worker.turn
    /\ \A q \in Processes : f.by = q => frames[q].pc = "sent" /\ f = Fly(q)
FlightsFit ==
    /\ flights \subseteq Flight /\ IsFiniteSet(flights)
    /\ \A f \in flights : FlightOK(f)
    /\ \A f, g \in flights : f.by = "client" /\ g.by = "client" /\ f.text = g.text => f = g
    /\ \A f, g \in flights : f.at = g.at /\ f.at # 0 => f = g

(* Turns are not remembered before they are worked, a wake that is past the *)
(* capture has one, and one inside a flush has the task wait.               *)
WakesFit ==
    /\ \A m \in Managers :
          /\ wakes[m].turn <= worker.turn
          /\ wakes[m].pc \in {"record", "send"} => wakes[m].turn >= 1
          /\ wakes[m].pc = "idle" => ~wakes[m].inline
    /\ wakes["old"].inline => frames["task"].pc = "wait"
    /\ wakes["new"].inline => frames["task"].pc = "wait new"
    /\ signature <= worker.turn /\ marks.signature <= worker.turn

(* Nothing is under way before the handoff is started.                     *)
NoneYet ==
    op.phase = "none" =>
        /\ op.deliveries = <<>> /\ ~op.intent /\ ~op.committed /\ ~op.bound
        /\ \A q \in Processes : frames[q].pc = "idle"

WatchOK ==
    /\ groups \subseteq Managers /\ wakes \in [Managers -> Wake]
    /\ marks \in [signature : 0..MaxTurns, finish : 0..MaxTurns]
    /\ signature \in 0..MaxTurns
    /\ worker \in [turn : 0..MaxTurns, busy : BOOLEAN]
HistoryOK ==
    /\ taken \in [Texts -> Nat] /\ allowed \in [Texts -> 0..MaxRequests]
    /\ promised \subseteq {Message(n) : n \in 1..MaxMessages}
    /\ cancelled \in BOOLEAN
    /\ budget \in [messages : 0..MaxMessages, requests : 0..MaxRequests,
                   faults : 0..MaxFaults, restarts : 0..MaxRestarts]
    /\ \A t \in Texts : allowed[t] + budget.requests <= MaxRequests
HostOK ==
    /\ tasks \in Managers
    /\ process \in [Managers -> {"absent", "live", "ended"}]
    /\ late \in BOOLEAN /\ fenced \in BOOLEAN

(* Op, the invariant of the types: they hold, and what they rest on.       *)
Sound ==
    /\ op \in Ops /\ FramesFit /\ FlightsFit /\ WakesFit /\ NoneYet
    /\ WatchOK /\ HistoryOK /\ HostOK

LEMMA SoundTypes == Sound => TypeOK
<1> SUFFICES ASSUME Sound PROVE TypeOK
  OBVIOUS
<1>1. /\ op \in Ops /\ frames \in [Processes -> Frames] /\ flights \subseteq Flight
      /\ WatchOK /\ HistoryOK /\ HostOK
  BY DEF Sound, FramesFit, FlightsFit
<1> QED
  BY <1>1 DEF TypeOK, Ops, Flight, Wake, WatchOK, HistoryOK, HostOK

-----------------------------------------------------------------------------
(* Frames                                                                  *)

Frame(pc, to, at, ok, no, then) ==
    [pc |-> pc, to |-> to, at |-> at, ok |-> ok, no |-> no, then |-> then]

LEMMA FrameFields ==
    ASSUME NEW pc, NEW to, NEW at, NEW ok, NEW no, NEW then
    PROVE  LET f == Frame(pc, to, at, ok, no, then)
           IN /\ f.pc = pc /\ f.to = to /\ f.at = at /\ f.ok = ok /\ f.no = no
              /\ f.then = then
  BY DEF Frame

LEMMA FrameMade ==
    ASSUME NEW pc \in Steps, NEW to \in Managers, NEW at \in Nat, NEW ok \in Oks,
           NEW no \in Nos, NEW then \in Thens
    PROVE  Frame(pc, to, at, ok, no, then) \in Frames
  BY DEF Frame, Frames, Oks, Nos, Thens

LEMMA FrameTypes ==
    ASSUME NEW f \in Frames
    PROVE  /\ f.pc \in Steps /\ f.to \in Managers /\ f.at \in Nat /\ f.ok \in Oks
           /\ f.no \in Nos /\ f.then \in Thens
           /\ f = Frame(f.pc, f.to, f.at, f.ok, f.no, f.then)
  BY DEF Frame, Frames, Oks, Nos, Thens

LEMMA IdleTurned ==
    ASSUME NEW pc, NEW th
    PROVE  [Idle EXCEPT !.pc = pc, !.then = th] = Frame(pc, "old", 0, "idle", "idle", th)
<1>1. [Idle EXCEPT !.pc = pc] = Frame(pc, "old", 0, "idle", "idle", "idle")
  BY DEF Idle, Frame
<1>2. [Idle EXCEPT !.pc = pc, !.then = th]
        = [Frame(pc, "old", 0, "idle", "idle", "idle") EXCEPT !.then = th]
  BY <1>1
<1>3. [Frame(pc, "old", 0, "idle", "idle", "idle") EXCEPT !.then = th]
        = Frame(pc, "old", 0, "idle", "idle", th)
  BY DEF Frame
<1> QED
  BY <1>2, <1>3

(* Where a frame that goes on to a step, or returns to one, is.            *)
Gone(q, pc) == Frame(pc, "old", 0, "idle", "idle", IF pc \in Stops THEN "idle" ELSE frames[q].then)
Returned(to, at, ok, no, then, done) ==
    LET pc == IF done THEN ok ELSE no
    IN IF pc \in Stops THEN Frame(pc, "old", 0, "idle", "idle", "idle")
       ELSE Frame(pc, IF pc = "release" THEN to ELSE "old",
                  IF pc = "resolved" THEN at ELSE 0, "idle", "idle", then)

(* The frame of q becomes f.                                               *)
Turns(q, f) ==
    /\ frames' \in [Processes -> Frames]
    /\ frames'[q] = f
    /\ \A r \in Processes : r # q => frames'[r] = frames[r]

LEMMA TurnsMade ==
    ASSUME FramesFit, NEW q \in Processes, NEW f \in Frames,
           frames' = [frames EXCEPT ![q] = f]
    PROVE  Turns(q, f)
  BY DEF Turns, FramesFit

LEMMA GoesFacts ==
    ASSUME FramesFit, NEW q \in Processes, NEW pc \in Steps, Goes(q, pc)
    PROVE  /\ Turns(q, Gone(q, pc)) /\ Gone(q, pc).pc = pc
           /\ pc \notin Flushes \cup {"sent", "resolved", "release"} =>
                 \A d : FrameOK(Gone(q, pc), d)
           /\ pc \in Flushes /\ frames[q].pc \in Flushes =>
                 \A d : FrameOK(Gone(q, pc), d)
<1>1. frames[q] \in Frames /\ frames[q].then \in Thens /\ Follow(frames[q])
  BY FrameTypes DEF FramesFit, FrameOK
<1> DEFINE th == IF pc \in Stops THEN "idle" ELSE frames[q].then
           g == Gone(q, pc)
<1>2. th \in Thens
  BY <1>1 DEF Thens
<1>5. g = Frame(pc, "old", 0, "idle", "idle", th)
  BY DEF Gone
<1>3. Idle.then = "idle"
  BY DEF Idle
<1>4. frames' = [frames EXCEPT ![q] = [Idle EXCEPT !.pc = pc, !.then = th]]
  BY <1>3 DEF Goes
<1>6. /\ g.pc = pc /\ g.then = th
  BY <1>5, FrameFields
<1>7. "old" \in Managers /\ 0 \in Nat /\ "idle" \in Oks /\ "idle" \in Nos
  BY DEF Managers, Oks, Nos
<1>8. pc \in Flushes => pc \notin Stops \cup {"sent", "resolved", "release"}
  BY DEF Flushes, Stops
<1>9. pc \in Flushes => th = frames[q].then
  BY <1>8
<1> HIDE DEF th, g
<1>14. [Idle EXCEPT !.pc = pc, !.then = th] = g
  BY <1>5, IdleTurned
<1>10. g \in Frames
  BY <1>2, <1>5, <1>7, FrameMade
<1>11. pc \notin Flushes \cup {"sent", "resolved", "release"} => \A d : FrameOK(g, d)
  BY <1>6, <1>10 DEF FrameOK, Follow
<1>12. pc \in Flushes /\ frames[q].pc \in Flushes => \A d : FrameOK(g, d)
  BY <1>1, <1>6, <1>8, <1>9, <1>10 DEF FrameOK, Follow
<1> QED
  BY <1>4, <1>6, <1>10, <1>11, <1>12, <1>14, TurnsMade DEF g

LEMMA IdleFrame ==
    /\ Idle \in Frames /\ Idle.pc = "idle" /\ \A d : FrameOK(Idle, d)
<1>1. Idle = Frame("idle", "old", 0, "idle", "idle", "idle")
  BY DEF Idle, Frame
<1>2. /\ "idle" \in Steps /\ "old" \in Managers /\ 0 \in Nat /\ "idle" \in Oks
      /\ "idle" \in Nos /\ "idle" \in Thens
  BY DEF Steps, Managers, Oks, Nos, Thens
<1>3. Idle \in Frames /\ Idle.pc = "idle"
  BY <1>1, <1>2, FrameMade, FrameFields
<1> QED
  BY <1>3 DEF FrameOK, Follow, Flushes

LEMMA EndsFacts ==
    ASSUME FramesFit, NEW q \in Processes, Ends(q)
    PROVE  Turns(q, Idle)
  BY IdleFrame, TurnsMade DEF Ends

LEMMA ReturnedIs ==
    ASSUME NEW to \in Managers, NEW at \in Nat, NEW ok \in Oks, NEW no \in Nos,
           NEW then \in Thens, NEW done \in BOOLEAN, NEW d, at \in DOMAIN d,
           ok = "drain" => then = "evidence",
           ok = "release" => then \in {"evidence", "finish", "end", "idle"}
    PROVE  /\ FrameOK(Returned(to, at, ok, no, then, done), d)
           /\ Returned(to, at, ok, no, then, done).pc = IF done THEN ok ELSE no
           /\ Returned(to, at, ok, no, then, done).pc # "sent"
<1> DEFINE pc == IF done THEN ok ELSE no
           a == IF pc = "release" THEN to ELSE "old"
           b == IF pc = "resolved" THEN at ELSE 0
           r == Returned(to, at, ok, no, then, done)
           c == IF pc \in Stops THEN "old" ELSE a
           e == IF pc \in Stops THEN 0 ELSE b
           th == IF pc \in Stops THEN "idle" ELSE then
<1>1. /\ pc \in Steps /\ pc # "sent"
      /\ pc \in Flushes => pc = "drain" /\ ok = "drain"
      /\ pc = "release" => ok = "release"
      /\ pc \in Stops => pc \notin Flushes \cup {"sent", "resolved", "release"}
  BY DEF Oks, Nos, Steps, Flushes, Stops
<1>2. /\ c \in Managers /\ e \in Nat /\ th \in Thens
      /\ "idle" \in Oks /\ "idle" \in Nos
  BY DEF Managers, Oks, Nos, Thens
<1>3. r = Frame(pc, c, e, "idle", "idle", th)
  BY DEF Returned
<1>4. pc = "resolved" => e = at
  BY DEF Stops
<1>5. pc \notin Stops => th = then
  OBVIOUS
<1> HIDE DEF pc, c, e, th, r
<1>6. r \in Frames /\ r.pc = pc /\ r.then = th /\ r.at = e
  BY <1>1, <1>2, <1>3, FrameMade, FrameFields
<1>7. Follow(r)
  BY <1>1, <1>5, <1>6 DEF Follow
<1>8. FrameOK(r, d)
  BY <1>1, <1>4, <1>6, <1>7 DEF FrameOK
<1> QED
  BY <1>1, <1>6, <1>8 DEF r, pc

LEMMA ReturnsFacts ==
    ASSUME FramesFit, NEW q \in Processes, NEW f \in Frames, NEW done \in BOOLEAN,
           NEW d, f.at \in DOMAIN d, f.ok = "drain" => f.then = "evidence",
           f.ok = "release" => f.then \in {"evidence", "finish", "end", "idle"},
           Returns(q, f, done)
    PROVE  LET r == Returned(f.to, f.at, f.ok, f.no, f.then, done)
           IN /\ Turns(q, r) /\ FrameOK(r, d) /\ r.pc # "sent"
              /\ r.pc = IF done THEN f.ok ELSE f.no
<1> DEFINE pc == IF done THEN f.ok ELSE f.no
           r == Returned(f.to, f.at, f.ok, f.no, f.then, done)
<1>1. /\ f.to \in Managers /\ f.at \in Nat /\ f.ok \in Oks /\ f.no \in Nos
      /\ f.then \in Thens
  BY FrameTypes
<1>2. FrameOK(r, d) /\ r.pc # "sent" /\ r.pc = pc
  BY <1>1, ReturnedIs
<1>3. r = IF pc \in Stops THEN [Idle EXCEPT !.pc = pc]
          ELSE [Idle EXCEPT !.pc = pc, !.to = IF pc = "release" THEN f.to ELSE @,
                            !.at = IF pc = "resolved" THEN f.at ELSE 0, !.then = f.then]
  BY DEF Returned, Frame, Idle
<1>4. frames' = [frames EXCEPT ![q] = r]
  BY <1>3 DEF Returns
<1>5. r \in Frames
  BY <1>2 DEF FrameOK
<1> QED
  BY <1>2, <1>4, <1>5, TurnsMade

(* An entry that is delivered is handed over and awaited, or is not pending. *)
Handed(q, o, i, to, ok, no, then) ==
    /\ o.deliveries[i].status = "pending"
    /\ Marks(o, op', i, "sending") /\ op'.phase = o.phase
    /\ Turns(q, Frame("sent", to, i, ok, no, then))
    /\ flights' = flights \cup
          {[text |-> o.deliveries[i].text, to |-> to, at |-> 0, by |-> q]}
PassedOn(q, o, i, to, ok, no, then) ==
    /\ o.deliveries[i].status # "pending"
    /\ op' = o /\ flights' = flights
    /\ LET r == Returned(to, i, ok, no, then, Settled(o.deliveries[i]))
       IN /\ Turns(q, r) /\ FrameOK(r, o.deliveries)
          /\ r.pc = IF Settled(o.deliveries[i]) THEN ok ELSE no

LEMMA DeliverFacts ==
    ASSUME FramesFit, NEW q \in Processes, NEW o \in Ops, NEW i \in DOMAIN o.deliveries,
           NEW to \in Managers, NEW ok \in Oks, NEW no \in Nos, NEW then \in Thens,
           ok = "drain" => then = "evidence",
           ok = "release" => then \in {"evidence", "finish", "end", "idle"},
           Deliver(q, o, i, to, ok, no, then)
    PROVE  /\ op' \in Ops /\ Follows(o, op')
           /\ op'.intent = o.intent /\ op'.committed = o.committed /\ op'.bound = o.bound
           /\ op'.finish = o.finish /\ op'.phase = o.phase
           /\ FrameOK(frames'[q], op'.deliveries)
           /\ \/ Handed(q, o, i, to, ok, no, then)
              \/ PassedOn(q, o, i, to, ok, no, then)
<1> DEFINE f == Frame("sent", to, i, ok, no, then)
<1>1. /\ i \in Nat /\ "sent" \in Steps /\ "sending" \in Statuses
      /\ DOMAIN o.deliveries = 1..Len(o.deliveries) /\ Len(o.deliveries) \in Nat
  BY Entries DEF Steps, Statuses
<1>2. /\ f \in Frames /\ f.pc = "sent" /\ f.to = to /\ f.at = i /\ f.ok = ok
      /\ f.no = no /\ f.then = then
  BY <1>1, FrameMade, FrameFields
<1>3. f = [pc |-> "sent", to |-> to, at |-> i, ok |-> ok, no |-> no, then |-> then]
  BY DEF Frame
<1> HIDE DEF f
<1>4. CASE o.deliveries[i].status = "pending"
  <2>1. /\ op' = [o EXCEPT !.deliveries[i].status = "sending"]
        /\ frames' = [frames EXCEPT ![q] = f]
        /\ flights' = flights \cup
              {[text |-> o.deliveries[i].text, to |-> to, at |-> 0, by |-> q]}
    BY <1>3, <1>4 DEF Deliver
  <2>2. op' \in Ops /\ Marks(o, op', i, "sending") /\ op'.phase = o.phase
    BY <1>1, <2>1, StatusSet
  <2>3. Turns(q, f)
    BY <1>2, <2>1, TurnsMade
  <2>4. Follows(o, op')
    BY <2>2, MarksFollows
  <2>5. FrameOK(f, op'.deliveries)
    BY <1>2, <2>2 DEF FrameOK, Follow, Flushes, Marks
  <2>6. Handed(q, o, i, to, ok, no, then)
    BY <1>4, <2>1, <2>2, <2>3 DEF Handed, f
  <2> QED
    BY <2>2, <2>3, <2>4, <2>5, <2>6 DEF Marks, Turns
<1>5. CASE o.deliveries[i].status # "pending"
  <2> DEFINE s == Settled(o.deliveries[i])
             r == Returned(to, i, ok, no, then, s)
  <2>1. op' = o /\ flights' = flights /\ Returns(q, f, s)
    BY <1>3, <1>5 DEF Deliver
  <2>2. s \in BOOLEAN
    BY DEF Settled
  <2> HIDE DEF s
  <2>3. Turns(q, r) /\ FrameOK(r, o.deliveries) /\ r.pc = IF s THEN ok ELSE no
    BY <1>2, <2>1, <2>2, ReturnsFacts
  <2>4. Follows(o, o)
    BY DEF Follows
  <2>5. PassedOn(q, o, i, to, ok, no, then)
    BY <1>5, <2>1, <2>3 DEF PassedOn, s
  <2> QED
    BY <2>1, <2>3, <2>4, <2>5 DEF Turns
<1> QED
  BY <1>4, <1>5

-----------------------------------------------------------------------------
(* What keeps the parts of the invariant                                   *)

LEMMA Managing == "old" \in Managers /\ "new" \in Managers /\ "task" \in Processes
                  /\ "request" \in Processes /\ {"old", "new"} = Managers
                  /\ {"task", "request"} = Processes
  BY DEF Managers, Processes

LEMMA FollowsSame ==
    ASSUME op'.deliveries = op.deliveries
    PROVE  Follows(op, op')
  BY DEF Follows

LEMMA FrameKept ==
    ASSUME NEW f, NEW o, NEW p, FrameOK(f, o.deliveries), Follows(o, p)
    PROVE  FrameOK(f, p.deliveries)
  BY DEF FrameOK, Follows

LEMMA FramesTurn ==
    ASSUME FramesFit, NEW q \in Processes, NEW f, Turns(q, f),
           FrameOK(f, op'.deliveries), Follows(op, op')
    PROVE  FramesFit'
<1>1. \A r \in Processes : r # q => FrameOK(frames'[r], op'.deliveries)
  BY FrameKept DEF FramesFit, Turns
<1>2. \A r \in Processes : FrameOK(frames'[r], op'.deliveries)
  BY <1>1 DEF Turns
<1> QED
  BY <1>2 DEF FramesFit, Turns

LEMMA FramesStay ==
    ASSUME FramesFit, frames' = frames, Follows(op, op')
    PROVE  FramesFit'
<1>1. \A r \in Processes : FrameOK(frames'[r], op'.deliveries)
  BY FrameKept DEF FramesFit
<1> QED
  BY <1>1 DEF FramesFit

(* Bounds only shrink, and turns only grow.                                *)
Moves ==
    /\ budget'.messages <= budget.messages /\ worker'.turn >= worker.turn
    /\ HistoryOK' /\ WatchOK'

LEMMA TextTypes ==
    /\ \A t \in Texts :
          /\ t.n \in Nat /\ t.kind \in {"preparation", "kickoff", "message", "report"}
          /\ t.kind = "message" => t.n \in 1..MaxMessages /\ t = Message(t.n)
          /\ t.kind = "report" => t.n \in 1..MaxTurns /\ t = Report(t.n)
          /\ t.kind = "preparation" => t = Preparation
          /\ t.kind = "kickoff" => t = Kickoff
    /\ Preparation \in Texts /\ Kickoff \in Texts
    /\ \A n \in 1..MaxMessages : Message(n) \in Texts
    /\ \A n \in 1..MaxTurns : Report(n) \in Texts
    /\ Preparation.kind = "preparation" /\ Kickoff.kind = "kickoff"
    /\ \A n : Message(n).kind = "message" /\ Message(n).n = n
    /\ \A n : Report(n).kind = "report" /\ Report(n).n = n
<1>1. /\ Preparation.kind = "preparation" /\ Kickoff.kind = "kickoff"
      /\ Preparation.n = 0 /\ Kickoff.n = 0
      /\ \A n : Message(n).kind = "message" /\ Message(n).n = n
      /\ \A n : Report(n).kind = "report" /\ Report(n).n = n
  BY DEF Preparation, Kickoff, Message, Report
<1>2. /\ Preparation \in Texts /\ Kickoff \in Texts
      /\ \A n \in 1..MaxMessages : Message(n) \in Texts
      /\ \A n \in 1..MaxTurns : Report(n) \in Texts
  BY DEF Texts
<1>3. ASSUME NEW t \in Texts
      PROVE  /\ t.n \in Nat /\ t.kind \in {"preparation", "kickoff", "message", "report"}
             /\ t.kind = "message" => t.n \in 1..MaxMessages /\ t = Message(t.n)
             /\ t.kind = "report" => t.n \in 1..MaxTurns /\ t = Report(t.n)
             /\ t.kind = "preparation" => t = Preparation
             /\ t.kind = "kickoff" => t = Kickoff
  <2>1. CASE t = Preparation
    BY <1>1, <2>1
  <2>2. CASE t = Kickoff
    BY <1>1, <2>2
  <2>3. ASSUME NEW n \in 1..MaxMessages, t = Message(n)
        PROVE  t.kind = "message" /\ t.n = n /\ t.n \in Nat
    BY <1>1, <2>3, BoundsAssumption
  <2>4. ASSUME NEW n \in 1..MaxTurns, t = Report(n)
        PROVE  t.kind = "report" /\ t.n = n /\ t.n \in Nat
    BY <1>1, <2>4, BoundsAssumption
  <2>5. \/ t \in {Preparation, Kickoff}
        \/ \E n \in 1..MaxMessages : t = Message(n)
        \/ \E n \in 1..MaxTurns : t = Report(n)
    BY DEF Texts
  <2> QED
    BY <2>1, <2>2, <2>3, <2>4, <2>5
<1> QED
  BY <1>1, <1>2, <1>3

LEMMA FlightStays ==
    ASSUME FramesFit, HistoryOK, WatchOK, Moves, Follows(op, op'),
           NEW f \in Flight, FlightOK(f),
           \A q \in Processes : f.by = q /\ frames[q].pc = "sent" => frames'[q] = frames[q]
    PROVE  FlightOK(f)'
<1>1. f.at # 0 => f.at \in DOMAIN op'.deliveries /\ op'.deliveries[f.at].text = f.text
  BY DEF FlightOK, Follows
<1>2. /\ f.text \in Texts /\ f.text.n \in Nat
      /\ budget.messages \in Nat /\ budget'.messages \in Nat
      /\ worker.turn \in Nat /\ worker'.turn \in Nat
  BY TextTypes, BoundsAssumption DEF Flight, HistoryOK, WatchOK, Moves
<1>3. f.by = "client" => f.text.kind = "message" /\ f.text.n > budget'.messages
  BY <1>2 DEF FlightOK, Moves
<1>4. f.by = "wake" => f.text.kind = "report" /\ f.text.n <= worker'.turn
  BY <1>2 DEF FlightOK, Moves
<1>5. ASSUME NEW q \in Processes, f.by = q
      PROVE  frames'[q].pc = "sent" /\ f = Fly(q)'
  <2>1. frames[q].pc = "sent" /\ f = Fly(q) /\ frames'[q] = frames[q]
    BY <1>5 DEF FlightOK
  <2>2. frames[q].at \in DOMAIN op.deliveries
    BY <2>1 DEF FramesFit, FrameOK
  <2>3. op'.deliveries[frames[q].at].text = op.deliveries[frames[q].at].text
    BY <2>2 DEF Follows
  <2> QED
    BY <2>1, <2>3 DEF Fly
<1> QED
  BY <1>1, <1>3, <1>4, <1>5 DEF FlightOK

LEMMA FlightsFewer ==
    ASSUME FramesFit, HistoryOK, WatchOK, Moves, Follows(op, op'), FlightsFit,
           flights' \subseteq flights,
           \A q \in Processes : frames[q].pc = "sent" =>
               frames'[q] = frames[q] \/ \A f \in flights' : f.by # q
    PROVE  FlightsFit'
<1>1. IsFiniteSet(flights')
  BY FS_Subset DEF FlightsFit
<1>2. ASSUME NEW f \in flights' PROVE FlightOK(f)'
  <2>1. f \in Flight /\ FlightOK(f)
    BY DEF FlightsFit
  <2>2. \A q \in Processes : f.by = q /\ frames[q].pc = "sent" => frames'[q] = frames[q]
    OBVIOUS
  <2> QED
    BY <2>1, <2>2, FlightStays
<1> QED
  BY <1>1, <1>2 DEF FlightsFit

LEMMA FlightsMore ==
    ASSUME FramesFit, HistoryOK, WatchOK, Moves, Follows(op, op'), FlightsFit,
           NEW g \in Flight, flights' = flights \cup {g}, FlightOK(g)', g.at = 0,
           \A f \in flights : f.by = "client" /\ g.by = "client" => f.text # g.text,
           \A q \in Processes : frames[q].pc = "sent" => frames'[q] = frames[q]
    PROVE  FlightsFit'
<1>1. IsFiniteSet(flights') /\ flights' \subseteq Flight
  BY FS_AddElement DEF FlightsFit
<1>2. ASSUME NEW f \in flights PROVE FlightOK(f)'
  <2>1. f \in Flight /\ FlightOK(f)
    BY DEF FlightsFit
  <2> QED
    BY <2>1, FlightStays
<1>3. \A f \in flights' : FlightOK(f)'
  BY <1>2
<1>4. \A f, h \in flights' : f.by = "client" /\ h.by = "client" /\ f.text = h.text => f = h
  BY DEF FlightsFit
<1>5. \A f, h \in flights' : f.at = h.at /\ f.at # 0 => f = h
  BY DEF FlightsFit
<1> QED
  BY <1>1, <1>3, <1>4, <1>5 DEF FlightsFit

LEMMA Spent ==
    ASSUME HistoryOK, UNCHANGED history, UNCHANGED budget \/ Fault
    PROVE  HistoryOK' /\ budget'.messages = budget.messages
<1>1. /\ UNCHANGED <<taken, allowed, promised, cancelled>>
  BY DEF history
<1>2. CASE UNCHANGED budget
  BY <1>1, <1>2 DEF HistoryOK
<1>3. CASE Fault
  <2>1. /\ budget.faults > 0 /\ budget' = [budget EXCEPT !["faults"] = @ - 1]
    BY <1>3 DEF Fault, Spend
  <2>2. /\ budget \in [messages : 0..MaxMessages, requests : 0..MaxRequests,
                       faults : 0..MaxFaults, restarts : 0..MaxRestarts]
        /\ budget.faults - 1 \in 0..MaxFaults
    BY <2>1, BoundsAssumption DEF HistoryOK
  <2>3. /\ budget' \in [messages : 0..MaxMessages, requests : 0..MaxRequests,
                       faults : 0..MaxFaults, restarts : 0..MaxRestarts]
        /\ budget'.requests = budget.requests /\ budget'.messages = budget.messages
    BY <2>1, <2>2
  <2> QED
    BY <1>1, <2>3 DEF HistoryOK
<1> QED
  BY <1>2, <1>3

(* No wake is inside a flush of a task that is not flushing.               *)
Outside == ~wakes["old"].inline /\ ~wakes["new"].inline

LEMMA NotFlushing ==
    ASSUME WakesFit, frames["task"].pc \notin {"wait", "wait new"}
    PROVE  Outside
  BY DEF WakesFit, Outside

LEMMA Begun ==
    ASSUME NoneYet, NEW q \in Processes, frames[q].pc # "idle"
    PROVE  op.phase # "none"
  BY DEF NoneYet

(* A step of one process that neither sends nor hears of a send.           *)
LEMMA SoundTurn ==
    ASSUME Sound, NEW q \in Processes, NEW f, Turns(q, f), FrameOK(f, op'.deliveries),
           frames[q].pc # "sent", q = "task" => Outside,
           op' \in Ops, Follows(op, op'), op'.phase # "none",
           UNCHANGED <<signature, flights, observer, worker>>,
           HistoryOK', budget'.messages = budget.messages, HostOK'
    PROVE  Sound'
<1>1. UNCHANGED <<groups, wakes, marks>>
  BY DEF observer
<1>2. /\ FramesFit /\ FlightsFit /\ WakesFit /\ NoneYet /\ WatchOK /\ HistoryOK
  BY DEF Sound
<1>3. WatchOK' /\ Moves
  <2>1. WatchOK'
    BY <1>1, <1>2 DEF WatchOK
  <2>2. worker.turn \in Nat /\ budget.messages \in Nat
    BY <1>2, BoundsAssumption DEF WatchOK, HistoryOK
  <2> QED
    BY <1>1, <2>1, <2>2 DEF Moves
<1>4. FramesFit'
  BY <1>2, FramesTurn
<1>5. FlightsFit'
  <2>1. \A r \in Processes : frames[r].pc = "sent" =>
            frames'[r] = frames[r] \/ \A g \in flights' : g.by # r
    BY DEF Turns
  <2> QED
    BY <1>2, <1>3, <2>1, FlightsFewer
<1>6. WakesFit'
  BY <1>1, <1>2, Managing DEF WakesFit, Outside, Turns
<1>7. NoneYet'
  BY DEF NoneYet
<1> QED
  BY <1>3, <1>4, <1>5, <1>6, <1>7 DEF Sound

(* A step that leaves the frames alone.                                    *)
LEMMA SoundStay ==
    ASSUME Sound, op' \in Ops, Follows(op, op'), op'.phase = op.phase,
           op.phase = "none" => op' = op,
           UNCHANGED <<flights, frames>>,
           WakesFit', WatchOK', worker'.turn >= worker.turn,
           HistoryOK', budget'.messages <= budget.messages, HostOK'
    PROVE  Sound'
<1>1. /\ FramesFit /\ FlightsFit /\ NoneYet /\ WatchOK /\ HistoryOK
  BY DEF Sound
<1>2. Moves
  BY DEF Moves
<1>3. FramesFit'
  BY <1>1, FramesStay
<1>4. FlightsFit'
  BY <1>1, <1>2, FlightsFewer
<1>5. NoneYet'
  BY <1>1 DEF NoneYet
<1> QED
  BY <1>3, <1>4, <1>5 DEF Sound

-----------------------------------------------------------------------------
(* The types: steps of the task and of a request that only go on           *)

(* What such a step may do to the journal entry and to the rest.           *)
Keeping ==
    /\ op' \in Ops /\ op'.deliveries = op.deliveries /\ op'.phase # "none"
    /\ UNCHANGED <<signature, flights, observer, worker, history>>
    /\ UNCHANGED budget \/ Fault
    /\ HostOK'

(* The steps that a frame reaches on its own.                              *)
Plain(pc) == pc \in Steps /\ pc \notin Flushes \cup {"sent", "resolved", "release"}

LEMMA SoundGoes ==
    ASSUME Sound, Keeping, NEW q \in Processes, NEW pc, Goes(q, pc),
           frames[q].pc # "sent", q = "task" => Outside,
           Plain(pc) \/ (pc \in Flushes /\ frames[q].pc \in Flushes)
    PROVE  Sound'
<1>1. FramesFit /\ HistoryOK /\ pc \in Steps
  BY DEF Sound, Plain, Flushes, Steps
<1>2. Turns(q, Gone(q, pc)) /\ FrameOK(Gone(q, pc), op'.deliveries)
  BY <1>1, GoesFacts DEF Plain
<1>3. HistoryOK' /\ budget'.messages = budget.messages
  BY <1>1, Spent DEF Keeping
<1>4. Follows(op, op')
  BY FollowsSame DEF Keeping
<1> QED
  BY <1>2, <1>3, <1>4, SoundTurn DEF Keeping

LEMMA SoundEnds ==
    ASSUME Sound, Keeping, NEW q \in Processes, Ends(q),
           frames[q].pc # "sent", q = "task" => Outside
    PROVE  Sound'
<1>1. FramesFit /\ HistoryOK
  BY DEF Sound
<1>2. Turns(q, Idle) /\ FrameOK(Idle, op'.deliveries)
  BY <1>1, EndsFacts, IdleFrame
<1>3. HistoryOK' /\ budget'.messages = budget.messages
  BY <1>1, Spent DEF Keeping
<1>4. Follows(op, op')
  BY FollowsSame DEF Keeping
<1> QED
  BY <1>2, <1>3, <1>4, SoundTurn DEF Keeping

(* A step to a given frame.                                                *)
LEMMA SoundMoves ==
    ASSUME Sound, Keeping, NEW q \in Processes, NEW f \in Frames, Follow(f),
           f.pc \notin {"sent", "resolved"}, frames' = [frames EXCEPT ![q] = f],
           frames[q].pc # "sent", q = "task" => Outside
    PROVE  Sound'
<1>1. FramesFit /\ HistoryOK
  BY DEF Sound
<1>2. Turns(q, f) /\ FrameOK(f, op'.deliveries)
  BY <1>1, TurnsMade DEF FrameOK
<1>3. HistoryOK' /\ budget'.messages = budget.messages
  BY <1>1, Spent DEF Keeping
<1>4. Follows(op, op')
  BY FollowsSame DEF Keeping
<1> QED
  BY <1>2, <1>3, <1>4, SoundTurn DEF Keeping

LEMMA Kept ==
    ASSUME Sound, UNCHANGED <<op, signature, flights, observer, worker, history>>,
           NEW q \in Processes, frames[q].pc # "idle",
           UNCHANGED budget \/ Fault, HostOK'
    PROVE  Keeping
<1>1. op \in Ops /\ op.phase # "none"
  BY Begun DEF Sound
<1> QED
  BY <1>1 DEF Keeping

LEMMA PhaseSet ==
    ASSUME NEW o \in Ops, NEW ph \in Phases
    PROVE  LET p == [o EXCEPT !.phase = ph]
           IN /\ p \in Ops /\ p.deliveries = o.deliveries /\ p.phase = ph
              /\ p.intent = o.intent /\ p.committed = o.committed /\ p.bound = o.bound
              /\ p.finish = o.finish
  BY DEF Ops

LEMMA PhaseIntentSet ==
    ASSUME NEW o \in Ops, NEW ph \in Phases, NEW i \in BOOLEAN
    PROVE  LET p == [o EXCEPT !.phase = ph, !.intent = i]
           IN /\ p \in Ops /\ p.deliveries = o.deliveries /\ p.phase = ph
              /\ p.intent = i /\ p.committed = o.committed /\ p.bound = o.bound
              /\ p.finish = o.finish
  BY DEF Ops

LEMMA CommitSet ==
    ASSUME NEW o \in Ops, NEW ph \in Phases
    PROVE  LET p == [o EXCEPT !.committed = TRUE, !.phase = ph]
           IN /\ p \in Ops /\ p.deliveries = o.deliveries /\ p.phase = ph
              /\ p.intent = o.intent /\ p.committed = TRUE /\ p.bound = o.bound
              /\ p.finish = o.finish
  BY DEF Ops

LEMMA IntentSet ==
    ASSUME NEW o \in Ops, NEW i \in BOOLEAN
    PROVE  LET p == [o EXCEPT !.intent = i]
           IN /\ p \in Ops /\ p.deliveries = o.deliveries /\ p.phase = o.phase
              /\ p.intent = i /\ p.committed = o.committed /\ p.bound = o.bound
              /\ p.finish = o.finish
  BY DEF Ops

LEMMA BoundSet ==
    ASSUME NEW o \in Ops
    PROVE  LET p == [o EXCEPT !.bound = TRUE]
           IN /\ p \in Ops /\ p.deliveries = o.deliveries /\ p.phase = o.phase
              /\ p.intent = o.intent /\ p.committed = o.committed /\ p.bound = TRUE
              /\ p.finish = o.finish
  BY DEF Ops

LEMMA FinishSet ==
    ASSUME NEW o \in Ops, NEW n \in 0..MaxTurns
    PROVE  LET p == [o EXCEPT !.finish = n]
           IN /\ p \in Ops /\ p.deliveries = o.deliveries /\ p.phase = o.phase
              /\ p.intent = o.intent /\ p.committed = o.committed /\ p.bound = o.bound
              /\ p.finish = n
  BY DEF Ops

LEMMA HostStays ==
    ASSUME HostOK, UNCHANGED <<tasks, process, late, fenced>>
    PROVE  HostOK'
  BY DEF HostOK

LEMMA HostMoves ==
    ASSUME HostOK, tasks' \in {tasks, "new"}, late' \in {late, TRUE, FALSE}, fenced' = fenced,
           \/ process' = process \/ \E m \in Managers : process' = Closed(m)
           \/ process' = [process EXCEPT !["new"] = "live"]
    PROVE  HostOK'
<1>1. /\ process \in [Managers -> {"absent", "live", "ended"}]
      /\ tasks' \in Managers /\ late' \in BOOLEAN /\ fenced' \in BOOLEAN
  BY DEF HostOK, Managers
<1>2. process' \in [Managers -> {"absent", "live", "ended"}]
  BY <1>1 DEF Closed
<1> QED
  BY <1>1, <1>2 DEF HostOK

LEMMA SoundEnd ==
    ASSUME Sound, NEW q \in Processes, End(q)
    PROVE  Sound'
<1>1. frames[q].pc = "end" /\ Ends(q)
  BY DEF End, At
<1>2. Keeping
  BY <1>1, Kept, HostStays DEF End, journal, Sound
<1> QED
  BY <1>1, <1>2, SoundEnds, NotFlushing DEF Sound

LEMMA SoundAdopt ==
    ASSUME Sound, NEW q \in Processes, Adopt(q)
    PROVE  Sound'
<1>1. /\ frames[q].pc = "adopt" /\ op \in Ops /\ op.phase \in Phases \ {"none"} /\ HostOK
      /\ op.intent \in BOOLEAN /\ op.committed \in BOOLEAN
  BY Begun, Entries DEF Adopt, At, Sound
<1>2. q = "task" => Outside
  BY <1>1, NotFlushing DEF Sound
<1>3. CASE tasks' = "new" /\ Goes(q, "reparent") /\ UNCHANGED <<op, budget>>
  <2>1. HostOK'
    BY <1>1, <1>3, HostMoves DEF Adopt
  <2>2. Keeping
    BY <1>1, <1>3, <2>1, Kept DEF Adopt
  <2> QED
    BY <1>1, <1>2, <1>3, <2>2, SoundGoes DEF Plain, Steps, Flushes
<1>4. CASE /\ Fault /\ op' = [op EXCEPT !.intent = @ /\ op.committed]
           /\ Goes(q, IF q = "task" THEN "fail" ELSE "idle") /\ UNCHANGED tasks
  <2>1. HostOK'
    BY <1>1, <1>4, HostMoves DEF Adopt
  <2>2. op' \in Ops /\ op'.deliveries = op.deliveries /\ op'.phase = op.phase
    BY <1>1, <1>4, IntentSet
  <2>3. Keeping
    BY <1>1, <1>4, <2>1, <2>2 DEF Adopt, Keeping
  <2>4. Plain(IF q = "task" THEN "fail" ELSE "idle")
    BY DEF Plain, Steps, Flushes
  <2> QED
    BY <1>1, <1>2, <1>4, <2>3, <2>4, SoundGoes
<1> QED
  BY <1>3, <1>4 DEF Adopt

(* A step of the task that only awaits: it goes on, fails or ends.         *)
LEMMA SoundAwaits ==
    ASSUME Sound, frames["task"].pc \notin {"idle", "sent", "wait", "wait new"},
           UNCHANGED <<op, signature, flights, observer, worker, history>>,
           UNCHANGED budget \/ Fault, HostOK',
           Ends("task") \/ \E pc \in Steps : Plain(pc) /\ Goes("task", pc)
    PROVE  Sound'
<1>1. Keeping
  BY Kept, Managing
<1>2. Outside
  BY NotFlushing DEF Sound
<1> QED
  BY <1>1, <1>2, Managing, SoundGoes, SoundEnds

LEMMA PlainSteps ==
    /\ \A pc \in {"idle", "end", "close", "adopt", "reparent", "ready", "brief", "receipt",
                  "validated", "spawn", "check", "recheck", "intend", "fail", "activate",
                  "kickoff", "evidence", "finish"} : pc \in Steps /\ Plain(pc)
    /\ Flushes \subseteq Steps
  BY DEF Plain, Steps, Flushes

LEMMA SoundReparentFails ==
    ASSUME Sound, NEW q \in Processes, ReparentFails(q)
    PROVE  Sound'
<1>1. /\ frames[q].pc = "reparent" /\ HostOK'
      /\ q = "task" => Outside
  BY HostStays, NotFlushing DEF ReparentFails, At, Sound, journal
<1>2. Keeping
  BY <1>1, Kept DEF ReparentFails, journal
<1> QED
  BY <1>1, <1>2, PlainSteps, SoundGoes DEF ReparentFails

LEMMA SoundReceipt ==
    ASSUME Sound, Receipt
    PROVE  Sound'
<1>1. frames["task"].pc = "receipt" /\ HostOK'
  BY HostStays DEF Receipt, At, Sound, journal
<1> QED
  BY <1>1, PlainSteps, SoundAwaits DEF Receipt, TaskFails, journal

LEMMA SoundValidated ==
    ASSUME Sound, Validated
    PROVE  Sound'
<1>1. /\ frames["task"].pc = "validated" /\ HostOK' /\ Outside
  BY HostStays, NotFlushing DEF Validated, At, Sound
<1>2. CASE op' = [op EXCEPT !.phase = "spawning"] /\ Goes("task", "spawn") /\ UNCHANGED budget
  <2>1. Keeping
    BY <1>1, <1>2, PhaseSet DEF Validated, Keeping, Sound, Phases
  <2> QED
    BY <1>1, <1>2, <2>1, PlainSteps, SoundGoes, Managing
<1>3. CASE UNCHANGED op
  BY <1>1, <1>3, PlainSteps, SoundAwaits DEF Validated, TaskFails
<1> QED
  BY <1>2, <1>3 DEF Validated

LEMMA SoundSpawn ==
    ASSUME Sound, Spawn
    PROVE  Sound'
<1>1. frames["task"].pc = "spawn" /\ HostOK
  BY DEF Spawn, At, Sound
<1>2. HostOK'
  BY <1>1, HostMoves DEF Spawn, journal, TaskFails
<1> QED
  BY <1>1, <1>2, PlainSteps, SoundAwaits DEF Spawn, TaskFails, journal

LEMMA SoundCheck ==
    ASSUME Sound, Check
    PROVE  Sound'
<1>1. frames["task"].pc \in {"check", "recheck"} /\ HostOK
  BY DEF Check, At, Sound
<1>2. HostOK'
  BY <1>1, HostMoves, Managing DEF Check, journal
<1>3. IF Live("new") THEN "recheck" \in Steps ELSE "fail" \in Steps
  BY PlainSteps
<1>4. Ends("task") \/ \E pc \in Steps : Plain(pc) /\ Goes("task", pc)
  BY PlainSteps DEF Check
<1> QED
  BY <1>1, <1>2, <1>4, SoundAwaits DEF Check, journal

LEMMA SoundCheckFails ==
    ASSUME Sound, CheckFails
    PROVE  Sound'
<1>1. frames["task"].pc \in {"check", "recheck"} /\ HostOK'
  BY HostStays DEF CheckFails, At, Sound, journal
<1> QED
  BY <1>1, PlainSteps, SoundAwaits DEF CheckFails, TaskFails, journal

LEMMA SoundIntend ==
    ASSUME Sound, Intend
    PROVE  Sound'
<1>1. /\ frames["task"].pc = "intend" /\ HostOK' /\ Outside
  BY HostStays, NotFlushing DEF Intend, At, Sound
<1>2. CASE /\ op' = [op EXCEPT !.phase = "transferring", !.intent = TRUE]
           /\ Goes("task", "adopt")
  <2>1. Keeping
    <3>1. op \in Ops /\ "transferring" \in Phases \ {"none"} /\ TRUE \in BOOLEAN
      BY DEF Sound, Phases
    <3>2. op' \in Ops /\ op'.deliveries = op.deliveries /\ op'.phase = "transferring"
      BY <1>2, <3>1, PhaseIntentSet
    <3> QED
      BY <1>1, <3>1, <3>2 DEF Intend, Keeping
  <2> QED
    BY <1>1, <1>2, <2>1, PlainSteps, SoundGoes, Managing
<1>3. CASE UNCHANGED op /\ Goes("task", "fail")
  BY <1>1, <1>3, PlainSteps, SoundAwaits DEF Intend
<1> QED
  BY <1>2, <1>3 DEF Intend

LEMMA SoundCommit ==
    ASSUME Sound, Commit
    PROVE  Sound'
<1>1. /\ frames["task"].pc = "reparent" /\ HostOK' /\ Outside
  BY HostStays, NotFlushing DEF Commit, At, Sound
<1>2. "binding" \in Phases \ {"none"} /\ TRUE \in BOOLEAN /\ op \in Ops
  BY DEF Phases, Sound
<1>3. op' \in Ops /\ op'.deliveries = op.deliveries /\ op'.phase = "binding"
  BY <1>2, CommitSet DEF Commit
<1>4. Keeping
  BY <1>1, <1>3 DEF Commit, Keeping
<1> QED
  BY <1>1, <1>4, PlainSteps, SoundGoes, Managing DEF Commit

LEMMA SoundActivate ==
    ASSUME Sound, Activate
    PROVE  Sound'
<1>1. frames["task"].pc = "activate" /\ HostOK'
  BY HostStays DEF Activate, At, Sound, journal
<1> QED
  BY <1>1, PlainSteps, SoundAwaits DEF Activate, journal

LEMMA SoundKickoffFails ==
    ASSUME Sound, KickoffFails
    PROVE  Sound'
<1>1. frames["task"].pc = "kickoff" /\ HostOK'
  BY HostStays DEF KickoffFails, At, Sound, journal
<1> QED
  BY <1>1, PlainSteps, SoundAwaits DEF KickoffFails, TaskFails, journal

LEMMA DrainFrame ==
    ASSUME NEW then \in {"brief", "finish"}
    PROVE  LET f == [Idle EXCEPT !.pc = "drain", !.then = then]
           IN f \in Frames /\ Follow(f) /\ f.pc = "drain" /\ f.then = then
<1> DEFINE f == Frame("drain", "old", 0, "idle", "idle", then)
<1>1. /\ "drain" \in Steps /\ "old" \in Managers /\ 0 \in Nat /\ "idle" \in Oks
      /\ "idle" \in Nos /\ then \in Thens
  BY DEF Steps, Managers, Oks, Nos, Thens
<1>2. f \in Frames /\ f.pc = "drain" /\ f.then = then
  BY <1>1, FrameMade, FrameFields
<1>3. Follow(f)
  BY <1>2 DEF Follow
<1> QED
  BY <1>2, <1>3, IdleTurned

LEMMA SoundReady ==
    ASSUME Sound, Ready
    PROVE  Sound'
<1>1. /\ frames["task"].pc = "ready" /\ HostOK' /\ Outside
  BY HostStays, NotFlushing DEF Ready, At, Sound, journal
<1>2. Keeping
  BY <1>1, Kept, Managing DEF Ready, TaskFails, journal
<1>3. CASE frames' = [frames EXCEPT !["task"] = [Idle EXCEPT !.pc = "drain", !.then = "brief"]]
  BY <1>1, <1>2, <1>3, DrainFrame, SoundMoves, Managing
<1>4. CASE frames' = [frames EXCEPT !["task"] = Idle]
  BY <1>1, <1>2, <1>4, SoundEnds, Managing DEF Ends
<1>5. CASE Goes("task", "fail")
  BY <1>1, <1>2, <1>5, PlainSteps, SoundGoes, Managing
<1> QED
  BY <1>3, <1>4, <1>5 DEF Ready, TaskFails

LEMMA SoundEvidence ==
    ASSUME Sound, Evidence
    PROVE  Sound'
<1>1. /\ frames["task"].pc = "evidence" /\ HostOK /\ Outside
  BY NotFlushing DEF Evidence, At, Sound
<1>2. HostOK'
  BY <1>1, HostMoves, Managing DEF Evidence, journal
<1>3. Keeping
  BY <1>1, <1>2, Kept, Managing DEF Evidence, TaskFails, journal
<1>4. CASE frames' = [frames EXCEPT !["task"] = [Idle EXCEPT !.pc = "drain", !.then = "finish"]]
  BY <1>1, <1>3, <1>4, DrainFrame, SoundMoves, Managing
<1>5. CASE Goes("task", "fail")
  BY <1>1, <1>3, <1>5, PlainSteps, SoundGoes, Managing
<1> QED
  BY <1>4, <1>5 DEF Evidence, TaskFails

LEMMA SoundFinish ==
    ASSUME Sound, Finish
    PROVE  Sound'
<1>1. /\ frames["task"].pc = "finish" /\ HostOK' /\ Outside
  BY HostStays, NotFlushing DEF Finish, At, Sound
<1>2. CASE op' = [op EXCEPT !.phase = "complete"] /\ Ends("task")
  <2>1. Keeping
    BY <1>1, <1>2, PhaseSet DEF Finish, Keeping, Sound, Phases
  <2> QED
    BY <1>1, <1>2, <2>1, SoundEnds, Managing
<1>3. CASE UNCHANGED op /\ Goes("task", "fail")
  BY <1>1, <1>3, PlainSteps, SoundAwaits DEF Finish
<1> QED
  BY <1>2, <1>3 DEF Finish

(* A release starts where another step ends.                               *)
LEMMA ReleasesFrame ==
    ASSUME FramesFit, NEW q \in Processes, NEW to \in Managers,
           NEW then \in {"evidence", "finish", "end", "idle"}, Releases(q, to, then)
    PROVE  \E f \in Frames : /\ Follow(f) /\ f.pc = "release" /\ f.to = to /\ f.then = then
                             /\ frames' = [frames EXCEPT ![q] = f]
<1> DEFINE g == frames[q]
           f == Frame("release", to, g.at, g.ok, g.no, then)
<1>1. g \in Frames
  BY DEF FramesFit
<1>2. /\ g.at \in Nat /\ g.ok \in Oks /\ g.no \in Nos
      /\ g = Frame(g.pc, g.to, g.at, g.ok, g.no, g.then)
  BY <1>1, FrameTypes
<1>3. "release" \in Steps /\ then \in Thens
  BY DEF Steps, Thens
<1>4. f \in Frames /\ f.pc = "release" /\ f.to = to /\ f.then = then
  BY <1>2, <1>3, FrameMade, FrameFields
<1>5. Follow(f)
  BY <1>4 DEF Follow, Flushes
<1>6. [g EXCEPT !.pc = "release", !.to = to, !.then = then] = f
  <2> DEFINE a == Frame("release", g.to, g.at, g.ok, g.no, g.then)
             b == Frame("release", to, g.at, g.ok, g.no, g.then)
  <2>1. [Frame(g.pc, g.to, g.at, g.ok, g.no, g.then) EXCEPT !.pc = "release"] = a
    BY DEF Frame
  <2>2. [a EXCEPT !.to = to] = b
    BY DEF Frame
  <2>3. [b EXCEPT !.then = then] = f
    BY DEF Frame
  <2> HIDE DEF a, b, f, g
  <2>4. [g EXCEPT !.pc = "release"] = a
    BY <1>2, <2>1
  <2>5. [g EXCEPT !.pc = "release", !.to = to, !.then = then]
          = [[[g EXCEPT !.pc = "release"] EXCEPT !.to = to] EXCEPT !.then = then]
    OBVIOUS
  <2> QED
    BY <2>2, <2>3, <2>4, <2>5
<1>7. frames' = [frames EXCEPT ![q] = f]
  BY <1>6 DEF Releases
<1> QED
  BY <1>4, <1>5, <1>7

LEMMA SoundClose ==
    ASSUME Sound, NEW q \in Processes, Close(q)
    PROVE  Sound'
<1>1. /\ frames[q].pc = "close" /\ HostOK /\ FramesFit /\ (q = "task" => Outside)
  BY NotFlushing DEF Close, At, Sound
<1>2. HostOK'
  BY <1>1, HostMoves, Managing DEF Close, journal
<1>3. Keeping
  BY <1>1, <1>2, Kept DEF Close, journal
<1>4. Ending(q) \in {"evidence", "finish", "end", "idle"}
  BY DEF Ending
<1>5. PICK f \in Frames : /\ Follow(f) /\ f.pc = "release"
                          /\ frames' = [frames EXCEPT ![q] = f]
  BY <1>1, <1>4, ReleasesFrame, Managing DEF Close
<1> QED
  BY <1>1, <1>3, <1>5, SoundMoves

LEMMA SoundSettle ==
    ASSUME Sound, Settle
    PROVE  Sound'
<1>1. /\ frames["task"].pc = "settle" /\ HostOK' /\ FramesFit /\ Outside
  BY HostStays, NotFlushing DEF Settle, At, Sound, journal
<1>2. Keeping
  BY <1>1, Kept, Managing DEF Settle, journal
<1>3. CASE Goes("task", "brief")
  BY <1>1, <1>2, <1>3, PlainSteps, SoundGoes, Managing
<1>4. CASE frames["task"].then # "brief" /\ Releases("task", "new", frames["task"].then)
  <2>1. Follow(frames["task"])
    BY <1>1, Managing DEF FramesFit, FrameOK
  <2>2. frames["task"].then \in {"evidence", "finish", "end", "idle"}
    BY <1>1, <1>4, <2>1 DEF Follow, Flushes
  <2>3. PICK f \in Frames : /\ Follow(f) /\ f.pc = "release"
                            /\ frames' = [frames EXCEPT !["task"] = f]
    BY <1>1, <1>4, <2>2, ReleasesFrame, Managing
  <2> QED
    BY <1>1, <1>2, <2>3, SoundMoves, Managing
<1> QED
  BY <1>3, <1>4 DEF Settle

LEMMA SoundDrained ==
    ASSUME Sound, Drained
    PROVE  Sound'
<1>1. /\ frames["task"].pc \in {"wait", "wait new"} /\ HostOK' /\ WakesFit
  BY HostStays DEF Drained, At, Sound, journal
<1>2. Outside
  BY <1>1, Managing DEF Drained, At, WakesFit, Outside
<1>3. Keeping
  BY <1>1, Kept, Managing DEF Drained, journal
<1>4. "settle" \in Flushes /\ frames["task"].pc \in Flushes /\ frames["task"].pc # "sent"
  BY <1>1 DEF Flushes
<1>5. Goes("task", "settle")
  BY DEF Drained
<1> QED
  BY <1>2, <1>3, <1>4, <1>5, SoundGoes, Managing

-----------------------------------------------------------------------------
(* The types: requests of the owner, and what several parts take part in   *)

(* A step that neither sends nor hears of a send.                          *)
LEMMA SoundChange ==
    ASSUME Sound, op' \in Ops, Follows(op, op'), op'.phase = "none" => NoneYet',
           frames' \in [Processes -> Frames], UNCHANGED flights,
           \A q \in Processes : \/ frames'[q] = frames[q]
                                \/ /\ frames[q].pc # "sent"
                                   /\ FrameOK(frames'[q], op'.deliveries),
           WakesFit', WatchOK', worker'.turn >= worker.turn,
           HistoryOK', budget'.messages <= budget.messages, HostOK'
    PROVE  Sound'
<1>1. /\ FramesFit /\ FlightsFit /\ WatchOK /\ HistoryOK
  BY DEF Sound
<1>2. Moves
  BY DEF Moves
<1>3. \A q \in Processes : FrameOK(frames'[q], op'.deliveries)
  BY <1>1, FrameKept DEF FramesFit
<1>4. FramesFit'
  BY <1>3 DEF FramesFit
<1>5. FlightsFit'
  BY <1>1, <1>2, FlightsFewer
<1>6. NoneYet'
  BY DEF NoneYet
<1> QED
  BY <1>4, <1>5, <1>6 DEF Sound

LEMMA Numbers ==
    ASSUME WatchOK, HistoryOK
    PROVE  /\ worker.turn \in Nat /\ budget.messages \in Nat /\ budget.requests \in Nat
           /\ worker.turn \in 0..MaxTurns /\ signature \in Nat /\ marks.signature \in Nat
           /\ worker.turn >= worker.turn /\ budget.messages <= budget.messages
           /\ \A m \in Managers : wakes[m] \in Wake /\ wakes[m].turn \in Nat
                                  /\ wakes[m].turn \in 0..MaxTurns
  BY BoundsAssumption DEF WatchOK, HistoryOK, Wake

LEMMA Asked ==
    ASSUME HistoryOK, UNCHANGED <<taken, promised>>, cancelled' \in BOOLEAN,
           \/ UNCHANGED <<allowed, budget>>
           \/ UNCHANGED allowed /\ Fault
           \/ /\ Spend("requests")
              /\ \/ UNCHANGED allowed
                 \/ \E t \in Texts : allowed' = [allowed EXCEPT ![t] = @ + 1]
    PROVE  HistoryOK' /\ budget'.messages = budget.messages
<1>1. CASE UNCHANGED <<allowed, budget>>
  BY <1>1 DEF HistoryOK
<1>2. CASE UNCHANGED allowed /\ Fault
  <2>1. /\ budget.faults > 0 /\ budget' = [budget EXCEPT !["faults"] = @ - 1]
    BY <1>2 DEF Fault, Spend
  <2>2. /\ budget \in [messages : 0..MaxMessages, requests : 0..MaxRequests,
                       faults : 0..MaxFaults, restarts : 0..MaxRestarts]
        /\ budget.faults - 1 \in 0..MaxFaults
    BY <2>1, BoundsAssumption DEF HistoryOK
  <2>3. /\ budget' \in [messages : 0..MaxMessages, requests : 0..MaxRequests,
                       faults : 0..MaxFaults, restarts : 0..MaxRestarts]
        /\ budget'.requests = budget.requests /\ budget'.messages = budget.messages
    BY <2>1, <2>2
  <2> QED
    BY <1>2, <2>3 DEF HistoryOK
<1>3. CASE /\ Spend("requests")
           /\ \/ UNCHANGED allowed
              \/ \E t \in Texts : allowed' = [allowed EXCEPT ![t] = @ + 1]
  <2>1. /\ budget.requests > 0 /\ budget' = [budget EXCEPT !["requests"] = @ - 1]
    BY <1>3 DEF Spend
  <2>2. /\ budget \in [messages : 0..MaxMessages, requests : 0..MaxRequests,
                       faults : 0..MaxFaults, restarts : 0..MaxRestarts]
        /\ budget.requests - 1 \in 0..MaxRequests
    BY <2>1, BoundsAssumption DEF HistoryOK
  <2>3. /\ budget' \in [messages : 0..MaxMessages, requests : 0..MaxRequests,
                       faults : 0..MaxFaults, restarts : 0..MaxRestarts]
        /\ budget'.requests = budget.requests - 1 /\ budget'.messages = budget.messages
    BY <2>1, <2>2
  <2>4. \A t \in Texts : /\ allowed[t] \in Nat /\ allowed'[t] \in {allowed[t], allowed[t] + 1}
                         /\ allowed[t] + budget.requests <= MaxRequests
    BY <1>3, BoundsAssumption DEF HistoryOK
  <2>5. \A t \in Texts : /\ allowed'[t] + budget'.requests <= MaxRequests
                         /\ allowed'[t] \in 0..MaxRequests
    BY <2>2, <2>3, <2>4, BoundsAssumption
  <2>6. allowed' \in [Texts -> 0..MaxRequests]
    BY <1>3, <2>5 DEF HistoryOK
  <2> QED
    BY <2>3, <2>5, <2>6 DEF HistoryOK
<1> QED
  BY <1>1, <1>2, <1>3

(* A request that goes on, whatever becomes of the phase and the history.  *)
LEMMA SoundRequest ==
    ASSUME Sound, NEW pc, Plain(pc), Goes("request", pc), frames["request"].pc # "sent",
           op' \in Ops, op'.deliveries = op.deliveries, op'.phase # "none",
           UNCHANGED <<signature, flights, observer, worker>>,
           HistoryOK', budget'.messages = budget.messages, HostOK'
    PROVE  Sound'
<1>1. FramesFit /\ pc \in Steps
  BY DEF Sound, Plain
<1>2. Turns("request", Gone("request", pc)) /\ FrameOK(Gone("request", pc), op'.deliveries)
  BY <1>1, GoesFacts, Managing DEF Plain
<1>3. Follows(op, op')
  BY FollowsSame
<1> QED
  BY <1>2, <1>3, SoundTurn, Managing

LEMMA SoundCancels ==
    ASSUME Sound, Cancels, frames["request"].pc # "sent",
           UNCHANGED budget \/ Spend("requests")
    PROVE  Sound'
<1>1. op \in Ops /\ HistoryOK /\ HostOK'
  BY HostStays DEF Cancels, Sound
<1>2. op' \in Ops /\ op'.deliveries = op.deliveries /\ op'.phase = "cancelled"
  BY <1>1, PhaseSet DEF Cancels, Phases
<1>3. HistoryOK' /\ budget'.messages = budget.messages
  BY <1>1, Asked DEF Cancels
<1> QED
  BY <1>1, <1>2, <1>3, PlainSteps, SoundRequest DEF Cancels

LEMMA SoundCancel ==
    ASSUME Sound, Cancel
    PROVE  Sound'
  BY SoundCancels DEF Cancel, Admitted, At

LEMMA SoundReconciles ==
    ASSUME Sound, Reconciles, frames["request"].pc # "sent", op.phase # "none",
           UNCHANGED budget \/ Spend("requests")
    PROVE  Sound'
<1>1. CASE ~op.intent /\ Cancels
  BY <1>1, SoundCancels
<1>2. CASE /\ op.intent
           /\ Goes("request", IF Live("new") THEN "adopt" ELSE "idle")
           /\ UNCHANGED <<journal, flights, observer, worker, process, late, fenced, history>>
  <2>1. HistoryOK /\ HostOK' /\ op' = op /\ op \in Ops
    BY <1>2, HostStays DEF Sound, journal
  <2>2. HistoryOK' /\ budget'.messages = budget.messages
    BY <1>2, <2>1, Asked DEF history, HistoryOK
  <2>3. Plain(IF Live("new") THEN "adopt" ELSE "idle")
    BY PlainSteps
  <2> QED
    BY <1>2, <2>1, <2>2, <2>3, SoundRequest DEF journal
<1> QED
  BY <1>1, <1>2 DEF Reconciles

LEMMA SoundReconcile ==
    ASSUME Sound, Reconcile
    PROVE  Sound'
  BY SoundReconciles DEF Reconcile, Admitted, At

(* A task is started unless one runs.                                      *)
LEMMA RunsFacts ==
    ASSUME NEW fs \in [Processes -> Frames], NEW pc, Plain(pc), frames' = Runs(fs, pc),
           NEW d
    PROVE  /\ frames' \in [Processes -> Frames]
           /\ \A q \in Processes :
                 \/ frames'[q] = fs[q]
                 \/ /\ q = "task" /\ fs[q].pc = "idle" /\ frames'[q].pc = pc
                    /\ FrameOK(frames'[q], d)
<1> DEFINE t == fs["task"]
           g == [t EXCEPT !.pc = pc]
<1>1. t \in Frames /\ pc \in Steps
  BY Managing DEF Plain
<1>2. g \in Frames /\ g.pc = pc
  BY <1>1 DEF Frames
<1>3. FrameOK(g, d)
  BY <1>2 DEF FrameOK, Follow, Plain
<1>4. CASE t.pc = "idle"
  <2>1. frames' = [fs EXCEPT !["task"] = g]
    BY <1>4 DEF Runs
  <2> HIDE DEF g
  <2> QED
    BY <1>2, <1>3, <1>4, <2>1, Managing
<1>5. CASE t.pc # "idle"
  BY <1>5 DEF Runs
<1> QED
  BY <1>4, <1>5

LEMMA SoundBind ==
    ASSUME Sound, Bind
    PROVE  Sound'
<1>1. /\ op \in Ops /\ FramesFit /\ WakesFit /\ NoneYet /\ WatchOK /\ HistoryOK /\ HostOK
      /\ op.committed /\ op.phase # "none"
  BY DEF Sound, NoneYet, Bind
<1>2. op' \in Ops /\ op'.deliveries = op.deliveries /\ op'.phase = op.phase
  <2>1. op' = [op EXCEPT !.bound = TRUE]
    BY DEF Bind
  <2> QED
    BY <1>1, <2>1, BoundSet
<1>3. /\ frames' \in [Processes -> Frames]
      /\ \A q \in Processes :
            \/ frames'[q] = frames[q]
            \/ /\ q = "task" /\ frames[q].pc = "idle"
               /\ FrameOK(frames'[q], op'.deliveries)
  <2>1. Plain("activate") /\ frames \in [Processes -> Frames]
    BY <1>1, PlainSteps DEF FramesFit
  <2>2. frames' = Runs(frames, "activate") \/ frames' = frames
    BY DEF Bind
  <2> QED
    BY <2>1, <2>2, RunsFacts
<1>4. WatchOK' /\ HistoryOK' /\ HostOK'
  BY <1>1 DEF Bind, WatchOK, HistoryOK, HostOK, observer, history
<1>5. WakesFit'
  BY <1>1, <1>3, Managing DEF Bind, WakesFit, observer
<1>6. Follows(op, op')
  BY <1>2, FollowsSame
<1>7. worker' = worker /\ budget' = budget /\ flights' = flights
  BY DEF Bind
<1> QED
  BY <1>1, <1>2, <1>3, <1>4, <1>5, <1>6, <1>7, Numbers, SoundChange

LEMMA SoundReconciled ==
    ASSUME Sound, Reconciled
    PROVE  Sound'
<1>1. /\ op \in Ops /\ FramesFit /\ WakesFit /\ NoneYet /\ WatchOK /\ HistoryOK /\ HostOK
      /\ frames["request"].pc = "reparent" /\ op.phase # "none"
  BY Begun, Managing DEF Sound, Reconciled, At
<1> DEFINE ph == IF Exists(op, "uncertain") THEN "recovery-required" ELSE "binding"
           done == [frames EXCEPT !["request"] = Idle]
<1>2. /\ op' = [op EXCEPT !.committed = TRUE, !.phase = ph]
      /\ frames' = IF op.bound /\ ph = "binding" THEN Runs(done, "activate") ELSE done
      /\ groups' = groups \cup {Owner(op)}
      /\ marks' = [marks EXCEPT !.signature = IF @ = 0 THEN signature ELSE @]
      /\ UNCHANGED <<signature, tasks, flights, wakes, worker, process, late, fenced, history,
                     budget>>
  BY DEF Reconciled
<1>3. ph \in Phases \ {"none"}
  BY DEF Phases
<1> HIDE DEF ph
<1>4. op' \in Ops /\ op'.deliveries = op.deliveries /\ op'.phase # "none"
  BY <1>1, <1>2, <1>3, CommitSet
<1>5. /\ done \in [Processes -> Frames] /\ done["request"] = Idle
      /\ done["task"] = frames["task"]
  BY <1>1, IdleFrame, Managing DEF FramesFit
<1> HIDE DEF done
<1>6. /\ frames' \in [Processes -> Frames]
      /\ \A q \in Processes :
            \/ frames'[q] = done[q]
            \/ /\ q = "task" /\ done[q].pc = "idle"
               /\ FrameOK(frames'[q], op'.deliveries)
  <2>1. Plain("activate")
    BY PlainSteps
  <2>2. frames' = Runs(done, "activate") \/ frames' = done
    BY <1>2 DEF done
  <2> QED
    BY <1>5, <2>1, <2>2, RunsFacts
<1>7. \A q \in Processes : \/ frames'[q] = frames[q]
                           \/ /\ frames[q].pc # "sent"
                              /\ FrameOK(frames'[q], op'.deliveries)
  BY <1>1, <1>5, <1>6, IdleFrame, Managing
<1>8. frames'["task"] = frames["task"] \/ frames["task"].pc = "idle"
  BY <1>5, <1>6, Managing
<1>9. WatchOK' /\ HistoryOK' /\ HostOK'
  <2>1. Owner(op) \in Managers
    BY Managing DEF Owner
  <2> QED
    BY <1>1, <1>2, <2>1 DEF WatchOK, HistoryOK, HostOK, history
<1>10. WakesFit'
  BY <1>1, <1>2, <1>8 DEF WakesFit, WatchOK
<1>11. Follows(op, op')
  BY <1>4, FollowsSame
<1> QED
  BY <1>1, <1>2, <1>4, <1>6, <1>7, <1>9, <1>10, <1>11, Numbers, SoundChange

LEMMA SoundResolved ==
    ASSUME Sound, Resolved
    PROVE  Sound'
<1>1. /\ op \in Ops /\ FramesFit /\ WakesFit /\ NoneYet /\ WatchOK /\ HistoryOK /\ HostOK
      /\ frames["request"].pc = "resolved" /\ op.phase # "none" /\ UNCHANGED budget
  BY Begun, Managing DEF Sound, Resolved, At
<1>2. CASE /\ op' = [op EXCEPT !.phase = "preparing"]
           /\ frames' = Runs([frames EXCEPT !["request"] = Idle], "ready")
           /\ UNCHANGED <<signature, tasks, flights, observer, worker, process, late, fenced,
                          history>>
  <2> DEFINE done == [frames EXCEPT !["request"] = Idle]
  <2>1. "preparing" \in Phases \ {"none"}
    BY DEF Phases
  <2>2. op' \in Ops /\ op'.deliveries = op.deliveries /\ op'.phase # "none"
    BY <1>1, <1>2, <2>1, PhaseSet
  <2>3. /\ done \in [Processes -> Frames] /\ done["request"] = Idle
        /\ done["task"] = frames["task"]
    BY <1>1, IdleFrame, Managing DEF FramesFit
  <2> HIDE DEF done
  <2>4. frames' = Runs(done, "ready")
    BY <1>2 DEF done
  <2>5. /\ frames' \in [Processes -> Frames]
        /\ \A q \in Processes :
              \/ frames'[q] = done[q]
              \/ /\ q = "task" /\ done[q].pc = "idle"
                 /\ FrameOK(frames'[q], op'.deliveries)
    <3>1. Plain("ready")
      BY PlainSteps
    <3> QED
      BY <2>3, <2>4, <3>1, RunsFacts
  <2>6. \A q \in Processes : \/ frames'[q] = frames[q]
                             \/ /\ frames[q].pc # "sent"
                                /\ FrameOK(frames'[q], op'.deliveries)
    BY <1>1, <2>3, <2>5, IdleFrame, Managing
  <2>7. frames'["task"] = frames["task"] \/ frames["task"].pc = "idle"
    BY <2>3, <2>5, Managing
  <2>8. WatchOK' /\ HistoryOK' /\ HostOK'
    BY <1>1, <1>2 DEF WatchOK, HistoryOK, HostOK, history, observer
  <2>9. WakesFit'
    BY <1>1, <1>2, <2>7 DEF WakesFit, WatchOK, observer
  <2>10. Follows(op, op')
    BY <2>2, FollowsSame
  <2> QED
    BY <1>1, <1>2, <2>2, <2>5, <2>6, <2>8, <2>9, <2>10, Numbers, SoundChange
<1>3. CASE /\ Ends("request")
           /\ UNCHANGED <<journal, flights, observer, worker, process, late, fenced, history>>
  <2>1. HostOK'
    BY <1>1, <1>3, HostStays DEF journal
  <2>2. Keeping
    BY <1>1, <1>3, <2>1, Kept, Managing DEF journal
  <2> QED
    BY <1>1, <1>3, <2>2, SoundEnds, Managing
<1>4. CASE Reconciles
  BY <1>1, <1>4, SoundReconciles
<1> QED
  BY <1>2, <1>3, <1>4 DEF Resolved

-----------------------------------------------------------------------------
(* The types: the managers' processes, the worker and its wakes            *)

LEMMA HostSteps ==
    ASSUME Sound, op' = op, UNCHANGED <<signature, frames, flights, observer, worker, history>>,
           UNCHANGED budget \/ Fault, HostOK'
    PROVE  Sound'
<1>1. /\ op \in Ops /\ WakesFit /\ WatchOK /\ HistoryOK
  BY DEF Sound
<1>2. HistoryOK' /\ budget'.messages = budget.messages
  BY <1>1, Spent
<1>3. WakesFit' /\ WatchOK'
  BY <1>1 DEF WakesFit, WatchOK, observer
<1>4. Follows(op, op')
  BY FollowsSame
<1> QED
  BY <1>1, <1>2, <1>3, <1>4, Numbers, SoundStay

LEMMA SoundSpawnsLate ==
    ASSUME Sound, SpawnsLate
    PROVE  Sound'
<1>1. HostOK'
  BY Managing DEF Sound, SpawnsLate, HostOK, journal
<1> QED
  BY <1>1, HostSteps DEF SpawnsLate, journal

LEMMA SoundExits ==
    ASSUME Sound, NEW m \in Managers, Exits(m)
    PROVE  Sound'
<1>1. HostOK'
  BY DEF Sound, Exits, HostOK, Closed, journal
<1> QED
  BY <1>1, HostSteps DEF Exits, journal

LEMMA SoundResumes ==
    ASSUME Sound, NEW m \in Managers, Resumes(m)
    PROVE  Sound'
<1>1. HostOK'
  BY DEF Sound, Resumes, HostOK, journal
<1> QED
  BY <1>1, HostSteps DEF Resumes, journal

(* A step of the worker, or of a wake that sends nothing.                  *)
LEMMA WatchSteps ==
    ASSUME Sound, op' \in Ops, op'.deliveries = op.deliveries, op'.phase = op.phase,
           op.phase = "none" => op' = op,
           UNCHANGED <<frames, flights, tasks, process, late, fenced, history, budget>>,
           WakesFit', WatchOK', worker'.turn >= worker.turn
    PROVE  Sound'
<1>1. /\ op \in Ops /\ WatchOK /\ HistoryOK /\ HostOK
  BY DEF Sound
<1>2. HistoryOK' /\ budget'.messages <= budget.messages
  BY <1>1, Spent, Numbers
<1>3. HostOK'
  BY <1>1, HostStays
<1>4. Follows(op, op')
  BY FollowsSame
<1> QED
  BY <1>1, <1>2, <1>3, <1>4, SoundStay

LEMMA AtMost ==
    /\ \A a, b, c \in Nat : a <= b /\ b <= c => a <= c
    /\ \A a \in Nat : a + 1 \in Nat /\ a <= a + 1 /\ a + 1 >= a
    /\ \A a \in Nat : a <= 0 => a = 0
  OBVIOUS

LEMMA TurnsRemembered ==
    ASSUME WakesFit
    PROVE  /\ signature <= worker.turn /\ marks.signature <= worker.turn
           /\ \A m \in Managers : wakes[m].turn <= worker.turn
  BY DEF WakesFit

LEMMA SoundWorkerStarts ==
    ASSUME Sound, WorkerStarts
    PROVE  Sound'
<1>1. /\ op \in Ops /\ WakesFit /\ WatchOK /\ HistoryOK
  BY DEF Sound
<1>2. /\ worker.turn < MaxTurns /\ worker' = [turn |-> worker.turn + 1, busy |-> TRUE]
      /\ marks' = [marks EXCEPT !.finish = 0]
      /\ UNCHANGED <<op, signature, frames, flights, tasks, groups, wakes, process, late, fenced,
                     history, budget>>
  BY DEF WorkerStarts, journal
<1>3. /\ worker.turn \in Nat /\ signature \in Nat /\ marks.signature \in Nat
      /\ \A m \in Managers : wakes[m].turn \in Nat
  BY <1>1, Numbers
<1>4. /\ worker' \in [turn : 0..MaxTurns, busy : BOOLEAN] /\ worker'.turn = worker.turn + 1
  BY <1>2, <1>3, BoundsAssumption
<1>5. /\ marks' \in [signature : 0..MaxTurns, finish : 0..MaxTurns]
      /\ marks'.signature = marks.signature
  BY <1>1, <1>2, BoundsAssumption DEF WatchOK
<1>6. WatchOK'
  BY <1>1, <1>2, <1>4, <1>5 DEF WatchOK
<1>7. WakesFit'
  <2>1. worker.turn <= worker'.turn /\ worker'.turn \in Nat
    BY <1>3, <1>4
  <2>2. \A m \in Managers : wakes[m].turn <= worker'.turn
    BY <1>1, <1>3, <2>1, TurnsRemembered, AtMost
  <2>3. signature' <= worker'.turn /\ marks'.signature <= worker'.turn
    BY <1>1, <1>2, <1>3, <1>5, <2>1, TurnsRemembered, AtMost
  <2> QED
    BY <1>1, <1>2, <2>2, <2>3 DEF WakesFit
<1> QED
  BY <1>1, <1>2, <1>3, <1>4, <1>6, <1>7, WatchSteps

LEMMA Targets == Target \in Managers /\ \A o : Owner(o) \in Managers
  BY Managing DEF Target, Owner

LEMMA SoundWorkerEnds ==
    ASSUME Sound, WorkerEnds
    PROVE  Sound'
<1>1. /\ op \in Ops /\ WakesFit /\ WatchOK /\ HistoryOK
  BY DEF Sound
<1>2. /\ worker' = [worker EXCEPT !.busy = FALSE]
      /\ groups' = IF Available(Target) THEN groups \cup {Target} ELSE groups
      /\ UNCHANGED <<op, signature, frames, flights, tasks, marks, wakes, process, late, fenced,
                     history, budget>>
  BY DEF WorkerEnds, journal
<1>3. /\ worker' \in [turn : 0..MaxTurns, busy : BOOLEAN] /\ worker'.turn = worker.turn
  BY <1>1, <1>2 DEF WatchOK
<1>4. WatchOK'
  BY <1>1, <1>2, <1>3, Targets DEF WatchOK
<1>5. WakesFit'
  BY <1>1, <1>2, <1>3 DEF WakesFit
<1> QED
  BY <1>1, <1>2, <1>3, <1>4, <1>5, Numbers, WatchSteps

LEMMA BeginsFacts ==
    ASSUME WatchOK, HistoryOK, NEW m \in Managers, NEW inline \in BOOLEAN, Begins(m, inline)
    PROVE  /\ groups' \subseteq Managers /\ wakes' \in [Managers -> Wake]
           /\ wakes[m].pc = "idle"
           /\ \A r \in Managers : r # m => wakes'[r] = wakes[r]
           /\ \/ wakes' = wakes
              \/ /\ wakes'[m].pc = "capture" /\ wakes'[m].turn = worker.turn
                 /\ wakes'[m].inline = inline
<1>1. groups \subseteq Managers /\ wakes \in [Managers -> Wake] /\ worker.turn \in 0..MaxTurns
  BY Numbers DEF WatchOK
<1>2. groups' \subseteq Managers
  BY <1>1, Targets DEF Begins
<1> DEFINE w == [pc |-> "capture", turn |-> worker.turn, inline |-> inline]
<1>3. w \in Wake /\ w.pc = "capture" /\ w.turn = worker.turn /\ w.inline = inline
  BY <1>1 DEF Wake
<1>4. wakes' = [wakes EXCEPT ![m] = w] \/ wakes' = wakes
  BY DEF Begins
<1> HIDE DEF w
<1> QED
  BY <1>1, <1>2, <1>3, <1>4 DEF Begins

LEMMA SoundWakeBegins ==
    ASSUME Sound, NEW m \in Managers, WakeBegins(m)
    PROVE  Sound'
<1>1. /\ op \in Ops /\ WakesFit /\ WatchOK /\ HistoryOK
  BY DEF Sound
<1>2. /\ Begins(m, FALSE)
      /\ UNCHANGED <<op, signature, tasks, frames, flights, marks, worker, process, late, fenced,
                     history, budget>>
  BY DEF WakeBegins, journal
<1>3. /\ groups' \subseteq Managers /\ wakes' \in [Managers -> Wake]
      /\ wakes[m].pc = "idle"
      /\ \A r \in Managers : r # m => wakes'[r] = wakes[r]
      /\ \/ wakes' = wakes
         \/ /\ wakes'[m].pc = "capture" /\ wakes'[m].turn = worker.turn
            /\ wakes'[m].inline = FALSE
  BY <1>1, <1>2, BeginsFacts
<1>4. WatchOK'
  BY <1>1, <1>2, <1>3 DEF WatchOK
<1>5. worker.turn \in Nat
  BY <1>1, Numbers
<1>6. WakesFit'
  <2>1. \A r \in Managers :
            \/ wakes'[r] = wakes[r]
            \/ /\ wakes'[r].pc = "capture" /\ wakes'[r].turn = worker.turn
               /\ ~wakes'[r].inline
    BY <1>3
  <2>2. ASSUME NEW r \in Managers
        PROVE  /\ wakes'[r].turn <= worker'.turn
               /\ wakes'[r].pc \in {"record", "send"} => wakes'[r].turn >= 1
               /\ wakes'[r].pc = "idle" => ~wakes'[r].inline
               /\ wakes'[r].inline => wakes[r].inline
    <3>1. CASE wakes'[r] = wakes[r]
      BY <1>1, <1>2, <3>1 DEF WakesFit
    <3>2. CASE wakes'[r].pc = "capture" /\ wakes'[r].turn = worker.turn /\ ~wakes'[r].inline
      BY <1>2, <1>5, <3>2
    <3> QED
      BY <2>1, <3>1, <3>2
  <2> QED
    BY <1>1, <1>2, <2>2, Managing DEF WakesFit
<1> QED
  BY <1>1, <1>2, <1>4, <1>5, <1>6, WatchSteps

(* A wake that goes on, or is over.                                        *)
LEMMA WakeSet ==
    ASSUME WatchOK, HistoryOK, NEW m \in Managers,
           \/ \E pc \in {"record", "send", "sent"} : wakes' = [wakes EXCEPT ![m].pc = pc]
           \/ WakeIdle(m)
    PROVE  /\ wakes' \in [Managers -> Wake]
           /\ \A r \in Managers : r # m => wakes'[r] = wakes[r]
           /\ \/ /\ wakes'[m].pc = "idle" /\ wakes'[m].turn = 0 /\ ~wakes'[m].inline
              \/ /\ wakes'[m].turn = wakes[m].turn /\ wakes'[m].inline = wakes[m].inline
                 /\ wakes'[m].pc \in {"record", "send", "sent"}
                 /\ wakes' = [wakes EXCEPT ![m].pc = wakes'[m].pc]
<1>1. wakes \in [Managers -> Wake] /\ wakes[m] \in Wake
  BY DEF WatchOK
<1>2. NoWake \in Wake /\ NoWake.pc = "idle" /\ NoWake.turn = 0 /\ ~NoWake.inline
  BY BoundsAssumption DEF NoWake, Wake
<1>3. CASE WakeIdle(m)
  BY <1>1, <1>2, <1>3 DEF WakeIdle
<1>4. ASSUME NEW pc \in {"record", "send", "sent"}, wakes' = [wakes EXCEPT ![m].pc = pc]
      PROVE  /\ wakes' \in [Managers -> Wake]
             /\ \A r \in Managers : r # m => wakes'[r] = wakes[r]
             /\ wakes'[m].turn = wakes[m].turn /\ wakes'[m].inline = wakes[m].inline
             /\ wakes'[m].pc = pc
  <2> DEFINE w == [wakes[m] EXCEPT !.pc = pc]
  <2>1. w \in Wake /\ w.turn = wakes[m].turn /\ w.inline = wakes[m].inline /\ w.pc = pc
    BY <1>1 DEF Wake
  <2>2. wakes' = [wakes EXCEPT ![m] = w]
    BY <1>1, <1>4
  <2> HIDE DEF w
  <2> QED
    BY <1>1, <2>1, <2>2
<1> QED
  BY <1>3, <1>4

LEMMA WakeFits ==
    ASSUME WakesFit, WatchOK, HistoryOK, NEW m \in Managers,
           \/ \E pc \in {"record", "send", "sent"} : wakes' = [wakes EXCEPT ![m].pc = pc]
           \/ WakeIdle(m),
           wakes'[m].pc \in {"record", "send"} => wakes[m].turn >= 1,
           frames'["task"] = frames["task"], worker' = worker,
           signature' <= worker.turn, marks'.signature <= worker.turn
    PROVE  WakesFit'
<1>1. /\ wakes' \in [Managers -> Wake]
      /\ \A r \in Managers : r # m => wakes'[r] = wakes[r]
      /\ \/ /\ wakes'[m].pc = "idle" /\ wakes'[m].turn = 0 /\ ~wakes'[m].inline
         \/ /\ wakes'[m].turn = wakes[m].turn /\ wakes'[m].inline = wakes[m].inline
            /\ wakes'[m].pc \in {"record", "send", "sent"}
  BY WakeSet
<1>2. worker.turn \in Nat
  BY Numbers
<1>3. ASSUME NEW r \in Managers
      PROVE  /\ wakes'[r].turn <= worker'.turn
             /\ wakes'[r].pc \in {"record", "send"} => wakes'[r].turn >= 1
             /\ wakes'[r].pc = "idle" => ~wakes'[r].inline
             /\ wakes'[r].inline => wakes[r].inline
  <2>1. CASE r # m
    BY <1>1, <2>1 DEF WakesFit
  <2>2. CASE r = m /\ wakes'[m].pc = "idle" /\ wakes'[m].turn = 0 /\ ~wakes'[m].inline
    BY <1>2, <2>2
  <2>3. CASE r = m /\ wakes'[m].turn = wakes[m].turn /\ wakes'[m].inline = wakes[m].inline
             /\ wakes'[m].pc \in {"record", "send", "sent"}
    BY <2>3 DEF WakesFit
  <2> QED
    BY <1>1, <2>1, <2>2, <2>3
<1> QED
  BY <1>3, Managing DEF WakesFit

LEMMA SoundWakeCaptured ==
    ASSUME Sound, NEW m \in Managers, WakeCaptured(m)
    PROVE  Sound'
<1>1. /\ op \in Ops /\ WakesFit /\ WatchOK /\ HistoryOK
  BY DEF Sound
<1>2. /\ \/ wakes' = [wakes EXCEPT ![m].pc = "record"] /\ UNCHANGED groups
         \/ WakeIdle(m)
      /\ groups' \subseteq Managers
      /\ UNCHANGED <<op, signature, tasks, frames, flights, marks, worker, process, late, fenced,
                     history, budget>>
  BY <1>1 DEF WakeCaptured, journal, WatchOK
<1>3. /\ worker.turn \in Nat /\ signature \in Nat /\ marks.signature \in Nat
      /\ \A r \in Managers : wakes[r].turn \in Nat
  BY <1>1, Numbers
<1>4. wakes' \in [Managers -> Wake] /\ (WakeIdle(m) => wakes'[m].pc = "idle")
  BY <1>1, <1>2, WakeSet DEF WakeIdle, NoWake, WatchOK
<1>5. wakes'[m].pc \in {"record", "send"} => wakes[m].turn >= 1
  <2>1. CASE Current(m) /\ wakes[m].turn # IF marks.signature # 0 THEN marks.signature
                                          ELSE signature
    <3>1. worker.turn = wakes[m].turn
      BY <2>1 DEF Current
    <3>2. CASE wakes[m].turn = 0
      <4>1. marks.signature = 0 /\ signature = 0
        BY <1>1, <1>3, <3>1, <3>2, TurnsRemembered, AtMost
      <4> QED
        BY <2>1, <3>2, <4>1
    <3> QED
      BY <1>3, <3>2
  <2>2. CASE WakeIdle(m)
    BY <1>4, <2>2
  <2> QED
    BY <2>1, <2>2 DEF WakeCaptured
<1>6. WatchOK'
  BY <1>1, <1>2, <1>4 DEF WatchOK
<1>7. WakesFit'
  BY <1>1, <1>2, <1>5, WakeFits DEF WakesFit
<1> QED
  BY <1>1, <1>2, <1>3, <1>6, <1>7, WatchSteps

LEMMA KeepsStarted ==
    ASSUME NoneYet, NEW m \in Managers, Keeps(op, m)
    PROVE  op.phase # "none"
  BY DEF NoneYet, Keeps, Held

LEMMA SoundWakeRecorded ==
    ASSUME Sound, NEW m \in Managers, WakeRecorded(m)
    PROVE  Sound'
<1>1. /\ op \in Ops /\ WakesFit /\ WatchOK /\ HistoryOK /\ NoneYet
  BY DEF Sound
<1>2. /\ wakes[m].pc = "record"
      /\ UNCHANGED <<signature, tasks, frames, flights, worker, process, late, fenced,
                     history, budget>>
  BY DEF WakeRecorded
<1>3. worker.turn \in Nat /\ worker.turn \in 0..MaxTurns
  BY <1>1, Numbers
<1>4. CASE /\ wakes' = [wakes EXCEPT ![m].pc = "send"]
           /\ marks' = [marks EXCEPT !.finish = worker.turn]
           /\ op' = IF Keeps(op, m) THEN [op EXCEPT !.finish = worker.turn] ELSE op
           /\ UNCHANGED groups
  <2>1. /\ marks' \in [signature : 0..MaxTurns, finish : 0..MaxTurns]
        /\ marks'.signature = marks.signature
    BY <1>1, <1>3, <1>4 DEF WatchOK
  <2>2. wakes' \in [Managers -> Wake]
    BY <1>1, <1>4, WakeSet
  <2>3. WatchOK'
    BY <1>1, <1>2, <1>4, <2>1, <2>2 DEF WatchOK
  <2>4. wakes[m].turn >= 1 /\ signature' <= worker.turn /\ marks'.signature <= worker.turn
    BY <1>1, <1>2, <2>1 DEF WakesFit
  <2>5. WakesFit'
    BY <1>1, <1>2, <1>4, <2>4, WakeFits
  <2>6. /\ op' \in Ops /\ op'.deliveries = op.deliveries /\ op'.phase = op.phase
        /\ (op.phase = "none" => op' = op)
    BY <1>1, <1>3, <1>4, FinishSet, KeepsStarted
  <2> QED
    BY <1>2, <1>3, <2>3, <2>5, <2>6, WatchSteps
<1>5. CASE /\ WakeIdle(m)
           /\ groups' = groups \cup IF ~worker.busy THEN {Target} ELSE {}
           /\ UNCHANGED <<marks, op>>
  <2>1. /\ wakes' \in [Managers -> Wake] /\ groups' \subseteq Managers
        /\ wakes'[m].pc = "idle"
    BY <1>1, <1>5, WakeSet, Targets DEF WatchOK, WakeIdle, NoWake
  <2>2. WatchOK'
    BY <1>1, <1>2, <1>5, <2>1 DEF WatchOK
  <2>3. WakesFit'
    BY <1>1, <1>2, <1>5, <2>1, WakeFits DEF WakesFit
  <2> QED
    BY <1>1, <1>2, <1>3, <1>5, <2>2, <2>3, WatchSteps
<1> QED
  BY <1>4, <1>5 DEF WakeRecorded

-----------------------------------------------------------------------------
(* The types: sends that are not a delivery of the journal                 *)

LEMMA ToldFacts ==
    ASSUME NEW o \in Ops, NEW turn
    PROVE  LET p == Told(o, turn)
           IN /\ p \in Ops /\ p.deliveries = o.deliveries /\ p.phase = o.phase
              /\ p.intent = o.intent /\ p.committed = o.committed /\ p.bound = o.bound
              /\ p.finish \in {o.finish, 0}
<1> DEFINE n == IF o.finish = turn THEN 0 ELSE o.finish
<1>1. n \in 0..MaxTurns
  BY Entries, BoundsAssumption
<1>2. Told(o, turn) = [o EXCEPT !.finish = n] /\ n \in {o.finish, 0}
  BY DEF Told
<1> HIDE DEF n
<1> QED
  BY <1>1, <1>2, FinishSet

LEMMA TellsFacts ==
    ASSUME WatchOK, NEW turn \in 0..MaxTurns, Tells(turn)
    PROVE  /\ signature' = turn /\ marks'.signature = turn
           /\ marks' \in [signature : 0..MaxTurns, finish : 0..MaxTurns]
<1> DEFINE n == IF marks.finish = turn THEN 0 ELSE marks.finish
<1>1. n \in 0..MaxTurns
  BY BoundsAssumption DEF WatchOK
<1>2. signature' = turn /\ marks' = [signature |-> turn, finish |-> n]
  BY DEF Tells
<1> HIDE DEF n
<1> QED
  BY <1>1, <1>2

LEMMA TakenMore ==
    ASSUME HistoryOK, NEW text \in Texts, NEW x \in [result : {"accepted", "rejected", "uncertain"},
           reached : BOOLEAN], Reaches(text, x)
    PROVE  /\ taken' \in [Texts -> Nat]
           /\ \A t \in Texts : taken'[t] >= taken[t]
           /\ \A t \in Texts : t # text => taken'[t] = taken[t]
           /\ taken'[text] = taken[text] + IF x.reached THEN 1 ELSE 0
<1> DEFINE k == IF x.reached THEN 1 ELSE 0
<1>1. taken \in [Texts -> Nat] /\ k \in Nat
  BY DEF HistoryOK
<1>2. taken' = [taken EXCEPT ![text] = taken[text] + k]
  BY <1>1 DEF Reaches
<1> HIDE DEF k
<1>3. taken' \in [Texts -> Nat] /\ taken'[text] = taken[text] + k
  BY <1>1, <1>2
<1>4. \A t \in Texts : t # text => taken'[t] = taken[t]
  BY <1>1, <1>2
<1>5. \A t \in Texts : taken'[t] >= taken[t]
  BY <1>1, <1>3, <1>4
<1> QED
  BY <1>3, <1>4, <1>5 DEF k

LEMMA OutcomesFacts ==
    ASSUME NEW to, NEW x \in Outcomes(to)
    PROVE  /\ x \in [result : {"accepted", "rejected", "uncertain"}, reached : BOOLEAN]
           /\ x.result \in {"accepted", "rejected", "uncertain"} /\ x.reached \in BOOLEAN
           /\ x.result = "accepted" => x.reached
           /\ x.result = "rejected" => ~x.reached
  BY DEF Outcomes

LEMMA Sent1 ==
    ASSUME HistoryOK, NEW text \in Texts, NEW to, NEW x \in Outcomes(to),
           Costs(to, x), Reaches(text, x),
           allowed' = allowed, promised' \subseteq {Message(n) : n \in 1..MaxMessages},
           cancelled' = cancelled
    PROVE  HistoryOK' /\ budget'.messages <= budget.messages
<1>1. taken' \in [Texts -> Nat]
  BY OutcomesFacts, TakenMore
<1>2. UNCHANGED budget \/ Fault
  BY DEF Costs
<1>3. /\ budget' \in [messages : 0..MaxMessages, requests : 0..MaxRequests,
                      faults : 0..MaxFaults, restarts : 0..MaxRestarts]
      /\ budget'.requests = budget.requests /\ budget'.messages = budget.messages
  <2>1. CASE UNCHANGED budget
    BY <2>1 DEF HistoryOK
  <2>2. CASE Fault
    <3>1. /\ budget.faults > 0 /\ budget' = [budget EXCEPT !["faults"] = @ - 1]
      BY <2>2 DEF Fault, Spend
    <3>2. /\ budget \in [messages : 0..MaxMessages, requests : 0..MaxRequests,
                         faults : 0..MaxFaults, restarts : 0..MaxRestarts]
          /\ budget.faults - 1 \in 0..MaxFaults
      BY <3>1, BoundsAssumption DEF HistoryOK
    <3> QED
      BY <3>1, <3>2
  <2> QED
    BY <1>2, <2>1, <2>2
<1>4. budget.messages \in Nat
  BY BoundsAssumption DEF HistoryOK
<1> QED
  BY <1>1, <1>3, <1>4 DEF HistoryOK

(* What becomes of the entry that captured a send.                         *)
Captured(o, p, at, x) ==
    \/ p = o /\ (at = 0 \/ o.deliveries[at].status \notin {"sending", "uncertain"})
    \/ /\ at # 0 /\ o.deliveries[at].status \in {"sending", "uncertain"}
       /\ Marks(o, p, at, IF x.result = "rejected" THEN "pending" ELSE x.result)
       /\ p.phase = IF x.result = "accepted" THEN o.phase ELSE "recovery-required"

Phased(o, ph) == [o EXCEPT !.phase = ph]

LEMMA PhaseOf ==
    ASSUME NEW o \in Ops, NEW a \in Ops, NEW i, NEW s, Marks(o, a, i, s),
           NEW ph \in {o.phase, "recovery-required"}
    PROVE  /\ Phased(a, ph) \in Ops
           /\ Marks(o, Phased(a, ph), i, s)
           /\ Phased(a, ph).phase = ph
<1>1. ph \in Phases
  BY DEF Ops, Phases
<1> DEFINE p == Phased(a, ph)
<1>2. /\ p \in Ops /\ p.phase = ph /\ p.deliveries = a.deliveries /\ p.intent = a.intent
      /\ p.committed = a.committed /\ p.bound = a.bound /\ p.finish = a.finish
  BY <1>1 DEF Ops, Phased
<1> HIDE DEF p
<1>3. Marks(o, p, i, s)
  BY <1>2 DEF Marks
<1> QED
  BY <1>2, <1>3 DEF p

LEMMA NotedFacts ==
    ASSUME NEW o \in Ops, NEW at \in Nat, at # 0 => at \in DOMAIN o.deliveries,
           NEW x \in [result : {"accepted", "rejected", "uncertain"}, reached : BOOLEAN]
    PROVE  /\ Noted(o, at, x) \in Ops /\ Follows(o, Noted(o, at, x))
           /\ Captured(o, Noted(o, at, x), at, x)
           /\ Noted(o, at, x).phase \in {o.phase, "recovery-required"}
           /\ Noted(o, at, x).intent = o.intent /\ Noted(o, at, x).committed = o.committed
           /\ Noted(o, at, x).bound = o.bound /\ Noted(o, at, x).finish = o.finish
           /\ o.deliveries = <<>> => Noted(o, at, x) = o
<1> DEFINE p == Noted(o, at, x)
           s == IF x.result = "rejected" THEN "pending" ELSE x.result
           ph == IF x.result = "accepted" THEN o.phase ELSE "recovery-required"
<1>1. CASE at = 0 \/ o.deliveries[at].status \notin {"sending", "uncertain"}
  <2>1. p = o
    BY <1>1 DEF Noted
  <2>2. Follows(o, o)
    BY DEF Follows
  <2> HIDE DEF p
  <2>3. Captured(o, p, at, x)
    BY <1>1, <2>1 DEF Captured
  <2> QED
    BY <2>1, <2>2, <2>3 DEF p
<1>2. CASE at # 0 /\ o.deliveries[at].status \in {"sending", "uncertain"}
  <2>1. s \in Statuses /\ ph \in {o.phase, "recovery-required"} /\ at \in DOMAIN o.deliveries
    BY <1>2 DEF Statuses
  <2>2. p = [o EXCEPT !.deliveries[at].status = s, !.phase = ph]
    BY <1>2 DEF Noted
  <2> HIDE DEF p, s, ph
  <2> DEFINE a == [o EXCEPT !.deliveries[at].status = s]
  <2>7. a \in Ops /\ Marks(o, a, at, s)
    BY <2>1, StatusSet
  <2>8. p = [a EXCEPT !.phase = ph]
    BY <2>2
  <2> HIDE DEF a
  <2>3. p \in Ops /\ Marks(o, p, at, s) /\ p.phase = ph
    <3>1. p = Phased(a, ph)
      BY <2>8 DEF Phased
    <3> QED
      BY <2>1, <2>7, <3>1, PhaseOf
  <2>4. Follows(o, p)
    BY <2>3, MarksFollows
  <2>5. Captured(o, p, at, x)
    BY <1>2, <2>3 DEF Captured, s, ph
  <2>6. o.deliveries # <<>>
    BY <2>1
  <2> QED
    BY <2>1, <2>3, <2>4, <2>5, <2>6 DEF p, Marks
<1> QED
  BY <1>1, <1>2

(* The end of a send that no frame awaits.                                 *)
LEMMA SoundHears ==
    ASSUME Sound, op' \in Ops, Follows(op, op'), op'.phase = "none" => op' = op,
           op.phase = "none" => op'.phase = "none" /\ frames' = frames,
           flights' \subseteq flights,
           frames' \in [Processes -> Frames], frames'["request"] = frames["request"],
           \/ frames'["task"] = frames["task"]
           \/ FrameOK(frames'["task"], op'.deliveries) /\ frames["task"].pc # "sent",
           WakesFit', WatchOK', worker'.turn >= worker.turn,
           HistoryOK', budget'.messages <= budget.messages, HostOK'
    PROVE  Sound'
<1>1. /\ FramesFit /\ FlightsFit /\ NoneYet /\ WatchOK /\ HistoryOK
  BY DEF Sound
<1>2. Moves
  BY DEF Moves
<1>3. \A q \in Processes : FrameOK(frames'[q], op'.deliveries)
  BY <1>1, FrameKept, Managing DEF FramesFit
<1>4. FramesFit'
  BY <1>3 DEF FramesFit
<1>5. \A q \in Processes : frames[q].pc = "sent" => frames'[q] = frames[q]
  BY Managing
<1>6. FlightsFit'
  BY <1>1, <1>2, <1>5, FlightsFewer
<1>7. NoneYet'
  <2>1. CASE op.phase = "none"
    BY <1>1, <2>1 DEF NoneYet
  <2>2. CASE op.phase # "none"
    BY <2>2 DEF NoneYet
  <2> QED
    BY <2>1, <2>2
<1> QED
  BY <1>4, <1>6, <1>7 DEF Sound

LEMMA SoundSendEnds ==
    ASSUME Sound, NEW f \in flights, SendEnds(f)
    PROVE  Sound'
<1>1. /\ op \in Ops /\ FramesFit /\ FlightsFit /\ WakesFit /\ NoneYet /\ WatchOK /\ HistoryOK
      /\ HostOK
  BY DEF Sound
<1>2. f \in Flight /\ FlightOK(f)
  BY <1>1 DEF FlightsFit
<1>3. /\ f.by = "client" /\ flights' = flights \ {f}
      /\ UNCHANGED <<signature, tasks, frames, groups, wakes, marks, worker, process, late,
                     fenced, allowed, cancelled>>
  BY DEF SendEnds, observer
<1>4. PICK x \in Outcomes(f.to) :
         /\ Costs(f.to, x) /\ Reaches(f.text, x) /\ op' = Noted(op, f.at, x)
         /\ promised' = IF x.result = "accepted" THEN promised \cup {f.text} ELSE promised
  BY DEF SendEnds
<1>5. /\ f.text \in Texts /\ f.at \in Nat /\ f.text.n \in 1..MaxMessages /\ f.text = Message(f.text.n)
      /\ (f.at # 0 => f.at \in DOMAIN op.deliveries)
  BY <1>2, <1>3, TextTypes DEF Flight, FlightOK
<1>6. /\ op' \in Ops /\ Follows(op, op') /\ op'.phase \in {op.phase, "recovery-required"}
      /\ (op.deliveries = <<>> => op' = op)
  <2>1. x \in [result : {"accepted", "rejected", "uncertain"}, reached : BOOLEAN]
    BY OutcomesFacts
  <2>2. op' = Noted(op, f.at, x)
    BY <1>4
  <2> QED
    BY <1>1, <1>5, <2>1, <2>2, NotedFacts
<1>7. op'.phase = "none" => op' = op
  BY <1>1, <1>6 DEF NoneYet
<1>8. op.phase = "none" => op' = op
  BY <1>1, <1>6 DEF NoneYet
<1>9. promised' \subseteq {Message(n) : n \in 1..MaxMessages}
  BY <1>1, <1>4, <1>5 DEF HistoryOK
<1>10. HistoryOK' /\ budget'.messages <= budget.messages
  BY <1>1, <1>3, <1>4, <1>5, <1>9, Sent1
<1>11. WatchOK' /\ WakesFit' /\ HostOK'
  BY <1>1, <1>3 DEF WatchOK, WakesFit, HostOK
<1>12. frames' \in [Processes -> Frames]
  BY <1>1, <1>3 DEF FramesFit
<1> QED
  BY <1>1, <1>3, <1>6, <1>7, <1>8, <1>10, <1>11, <1>12, Numbers, SoundHears

LEMMA FailFrame ==
    ASSUME FramesFit, frames' = [frames EXCEPT !["task"].pc = "fail"], NEW d
    PROVE  /\ frames' \in [Processes -> Frames] /\ frames'["request"] = frames["request"]
           /\ FrameOK(frames'["task"], d) /\ frames'["task"].pc = "fail"
<1> DEFINE g == [frames["task"] EXCEPT !.pc = "fail"]
<1>1. frames["task"] \in Frames /\ "fail" \in Steps
  BY Managing, PlainSteps DEF FramesFit
<1>2. g \in Frames /\ g.pc = "fail"
  BY <1>1 DEF Frames
<1>3. FrameOK(g, d)
  BY <1>2 DEF FrameOK, Follow, Flushes
<1>4. frames' = [frames EXCEPT !["task"] = g]
  BY DEF FramesFit
<1> HIDE DEF g
<1> QED
  BY <1>2, <1>3, <1>4, Managing DEF FramesFit

LEMMA SoundWakeSent ==
    ASSUME Sound, NEW f \in flights, WakeSent(f)
    PROVE  Sound'
<1>1. /\ op \in Ops /\ FramesFit /\ FlightsFit /\ WakesFit /\ NoneYet /\ WatchOK /\ HistoryOK
      /\ HostOK
  BY DEF Sound
<1>2. f \in Flight /\ FlightOK(f) /\ f.to \in Managers
  BY <1>1 DEF FlightsFit, Flight
<1>3. /\ f.by = "wake" /\ wakes[f.to].pc = "sent" /\ flights' = flights \ {f} /\ WakeIdle(f.to)
      /\ UNCHANGED <<tasks, groups, worker, process, late, fenced, allowed, promised, cancelled>>
  BY DEF WakeSent
<1>4. PICK x \in Outcomes(f.to) :
         /\ Costs(f.to, x) /\ Reaches(f.text, x)
         /\ IF IsTold(x)
            THEN /\ op' = Told(Noted(op, f.at, x), f.text.n)
                 /\ Tells(f.text.n) /\ UNCHANGED frames
            ELSE /\ op' = Noted(op, f.at, x)
                 /\ frames' = IF wakes[f.to].inline THEN [frames EXCEPT !["task"].pc = "fail"]
                              ELSE frames
                 /\ UNCHANGED <<signature, marks>>
  BY DEF WakeSent
<1>5. /\ f.text \in Texts /\ f.at \in Nat /\ f.text.n \in 1..MaxTurns /\ f.text.n <= worker.turn
      /\ f.text.n \in 0..MaxTurns
      /\ (f.at # 0 => f.at \in DOMAIN op.deliveries)
  BY <1>2, <1>3, TextTypes, BoundsAssumption DEF Flight, FlightOK
<1> DEFINE o == Noted(op, f.at, x)
<1>6. /\ o \in Ops /\ Follows(op, o) /\ o.phase \in {op.phase, "recovery-required"}
      /\ (op.deliveries = <<>> => o = op)
  <2>1. x \in [result : {"accepted", "rejected", "uncertain"}, reached : BOOLEAN]
    BY OutcomesFacts
  <2> QED
    BY <1>1, <1>5, <2>1, NotedFacts
<1> HIDE DEF o
<1>7. /\ op' \in Ops /\ op'.deliveries = o.deliveries /\ op'.phase = o.phase
  BY <1>4, <1>6, ToldFacts DEF o
<1>8. Follows(op, op')
  BY <1>6, <1>7 DEF Follows
<1>9. HistoryOK' /\ budget'.messages <= budget.messages
  BY <1>1, <1>3, <1>4, <1>5, Sent1 DEF HistoryOK
<1>10. /\ signature' \in 0..MaxTurns /\ signature' <= worker.turn
       /\ marks' \in [signature : 0..MaxTurns, finish : 0..MaxTurns]
       /\ marks'.signature <= worker.turn
  <2>1. CASE Tells(f.text.n)
    BY <1>1, <1>5, <2>1, TellsFacts
  <2>2. CASE UNCHANGED <<signature, marks>>
    BY <1>1, <2>2 DEF WatchOK, WakesFit
  <2> QED
    BY <1>4, <2>1, <2>2
<1>11. /\ wakes' \in [Managers -> Wake]
       /\ \A r \in Managers : r # f.to => wakes'[r] = wakes[r]
       /\ wakes'[f.to].pc = "idle" /\ wakes'[f.to].turn = 0 /\ ~wakes'[f.to].inline
  <2>1. wakes'[f.to] = NoWake
    BY <1>1, <1>2, <1>3 DEF WakeIdle, WatchOK
  <2> QED
    BY <1>1, <1>2, <1>3, <2>1, WakeSet DEF NoWake
<1>12. WatchOK'
  BY <1>1, <1>3, <1>10, <1>11 DEF WatchOK
<1>13. CASE frames' = frames
  <2>1. WakesFit'
    BY <1>1, <1>2, <1>3, <1>10, <1>11, <1>13, WakeFits
  <2>2. op.phase = "none" => op'.phase = "none"
    BY <1>1, <1>6, <1>7 DEF NoneYet
  <2>3. Sound' \/ op'.phase = "none"
    BY <1>1, <1>3, <1>7, <1>8, <1>9, <1>12, <1>13, <2>1, <2>2, Numbers, HostStays,
       SoundHears DEF FramesFit
  <2>4. CASE op'.phase = "none"
    <3>1. FramesFit'
      BY <1>1, <1>8, <1>13, FramesStay
    <3>2. Moves
      BY <1>1, <1>3, <1>9, <1>12, Numbers DEF Moves
    <3>3. FlightsFit'
      BY <1>1, <1>3, <1>8, <1>13, <3>2, FlightsFewer
    <3>4. op.phase = "none" /\ op.deliveries = <<>>
      BY <1>1, <1>6, <1>7, <2>4 DEF NoneYet
    <3>5. /\ op'.intent = op.intent /\ op'.committed = op.committed /\ op'.bound = op.bound
          /\ op'.deliveries = op.deliveries
      BY <1>1, <1>4, <1>6, <3>4, ToldFacts DEF o
    <3>6. NoneYet'
      BY <1>1, <1>13, <3>4, <3>5 DEF NoneYet
    <3>7. HostOK'
      BY <1>1, <1>3, HostStays
    <3> QED
      BY <1>7, <1>9, <1>12, <2>1, <3>1, <3>3, <3>6, <3>7 DEF Sound
  <2> QED
    BY <2>3, <2>4
<1>14. CASE wakes[f.to].inline /\ frames' = [frames EXCEPT !["task"].pc = "fail"]
  <2>1. /\ frames["task"].pc \in {"wait", "wait new"}
        /\ \A r \in Managers : ~wakes'[r].inline
    BY <1>1, <1>2, <1>11, <1>14, Managing DEF WakesFit
  <2>2. op.phase # "none" /\ op'.phase # "none"
    BY <1>1, <1>6, <1>7, <2>1, Begun, Managing
  <2>3. WakesFit'
    <3>1. \A r \in Managers :
          /\ wakes'[r].turn <= worker'.turn
          /\ wakes'[r].pc \in {"record", "send"} => wakes'[r].turn >= 1
          /\ wakes'[r].pc = "idle" => ~wakes'[r].inline
      <4>1. ASSUME NEW r \in Managers, r = f.to
            PROVE  /\ wakes'[r].turn <= worker'.turn
                   /\ wakes'[r].pc \in {"record", "send"} => wakes'[r].turn >= 1
                   /\ wakes'[r].pc = "idle" => ~wakes'[r].inline
        BY <1>1, <1>3, <1>11, <4>1, Numbers
      <4>2. ASSUME NEW r \in Managers, r # f.to
            PROVE  /\ wakes'[r].turn <= worker'.turn
                   /\ wakes'[r].pc \in {"record", "send"} => wakes'[r].turn >= 1
                   /\ wakes'[r].pc = "idle" => ~wakes'[r].inline
        BY <1>1, <1>3, <1>11, <4>2 DEF WakesFit
      <4> QED
        BY <4>1, <4>2
    <3> QED
      BY <1>3, <1>10, <2>1, <3>1, Managing DEF WakesFit
  <2> QED
    BY <1>1, <1>3, <1>7, <1>8, <1>9, <1>12, <1>14, <2>1, <2>2, <2>3, FailFrame, Numbers,
       HostStays, SoundHears
<1> QED
  BY <1>4, <1>13, <1>14

LEMMA DeliveredFacts ==
    ASSUME NEW o \in Ops, NEW at \in DOMAIN o.deliveries,
           NEW x \in [result : {"accepted", "rejected", "uncertain"}, reached : BOOLEAN]
    PROVE  /\ Delivered(o, at, x) \in Ops /\ Follows(o, Delivered(o, at, x))
           /\ Marks(o, Delivered(o, at, x), at,
                    IF x.result = "rejected" THEN "pending" ELSE x.result)
           /\ Delivered(o, at, x).phase = IF x.result = "accepted" THEN o.phase
                                          ELSE "recovery-required"
<1> DEFINE p == Delivered(o, at, x)
           s == IF x.result = "rejected" THEN "pending" ELSE x.result
           ph == IF x.result = "accepted" THEN o.phase ELSE "recovery-required"
           a == [o EXCEPT !.deliveries[at].status = s]
<1>1. s \in Statuses /\ ph \in {o.phase, "recovery-required"}
  BY DEF Statuses
<1>2. p = [a EXCEPT !.phase = ph]
  BY DEF Delivered
<1> HIDE DEF s, ph
<1>3. a \in Ops /\ Marks(o, a, at, s)
  BY <1>1, StatusSet
<1> HIDE DEF a, p
<1>4. p \in Ops /\ Marks(o, p, at, s) /\ p.phase = ph
  <2>1. p = Phased(a, ph)
    BY <1>2 DEF Phased
  <2> QED
    BY <1>1, <1>3, <2>1, PhaseOf
<1> QED
  BY <1>4, MarksFollows DEF p, s, ph

(* A new send of a client, or of a wake.                                   *)
LEMMA SoundSends ==
    ASSUME Sound, NEW g \in Flight, flights' = flights \cup {g}, FlightOK(g)', g.at = 0,
           \A f \in flights : f.by = "client" /\ g.by = "client" => f.text # g.text,
           op' = op, frames' = frames, worker' = worker,
           WakesFit', WatchOK', HistoryOK', budget'.messages <= budget.messages, HostOK'
    PROVE  Sound'
<1>1. /\ FramesFit /\ FlightsFit /\ NoneYet /\ WatchOK /\ HistoryOK /\ op \in Ops
  BY DEF Sound
<1>2. Follows(op, op')
  BY FollowsSame
<1>3. Moves
  BY <1>1, Numbers DEF Moves
<1>4. FramesFit'
  BY <1>1, <1>2, FramesStay
<1>5. FlightsFit'
  BY <1>1, <1>2, <1>3, FlightsMore
<1>6. NoneYet'
  BY <1>1 DEF NoneYet
<1> QED
  BY <1>1, <1>4, <1>5, <1>6 DEF Sound

LEMMA SendBudget ==
    ASSUME HistoryOK, NEW n \in 1..MaxMessages, budget.messages = n, Spend("messages"),
           UNCHANGED <<taken, allowed, cancelled>>,
           promised' = promised \/ promised' = promised \cup {Message(n)}
    PROVE  HistoryOK' /\ budget'.messages = n - 1 /\ budget'.messages < n
           /\ budget'.messages <= budget.messages
<1>1. budget' = [budget EXCEPT !["messages"] = @ - 1]
  BY DEF Spend
<1>2. /\ budget \in [messages : 0..MaxMessages, requests : 0..MaxRequests,
                     faults : 0..MaxFaults, restarts : 0..MaxRestarts]
      /\ n - 1 \in 0..MaxMessages /\ n - 1 < n /\ n - 1 <= n
  BY BoundsAssumption DEF HistoryOK
<1>3. /\ budget' \in [messages : 0..MaxMessages, requests : 0..MaxRequests,
                      faults : 0..MaxFaults, restarts : 0..MaxRestarts]
      /\ budget'.requests = budget.requests /\ budget'.messages = n - 1
  BY <1>1, <1>2
<1>4. promised' \subseteq {Message(k) : k \in 1..MaxMessages}
  BY DEF HistoryOK
<1> QED
  BY <1>2, <1>3, <1>4 DEF HistoryOK

LEMMA SoundSend ==
    ASSUME Sound, NEW n \in 1..MaxMessages, NEW m \in Managers, Send(n, m)
    PROVE  Sound'
<1>1. /\ op \in Ops /\ FramesFit /\ FlightsFit /\ WakesFit /\ NoneYet /\ WatchOK /\ HistoryOK
      /\ HostOK
  BY DEF Sound
<1>2. /\ budget.messages = n /\ Spend("messages")
      /\ UNCHANGED <<signature, tasks, frames, groups, wakes, marks, worker, process, late,
                     fenced, taken, allowed, cancelled>>
  BY DEF Send, observer
<1>3. WatchOK' /\ WakesFit' /\ HostOK'
  BY <1>1, <1>2 DEF WatchOK, WakesFit, HostOK
<1>4. Message(n) \in Texts /\ Message(n).kind = "message" /\ Message(n).n = n
  BY TextTypes
<1>5. CASE /\ Keeps(op, m) /\ op' = Appended(op, Message(n))
           /\ promised' = promised \cup {Message(n)} /\ UNCHANGED flights
  <2>1. HistoryOK' /\ budget'.messages <= budget.messages
    BY <1>1, <1>2, <1>5, SendBudget
  <2>2. op' \in Ops /\ Follows(op, op') /\ op'.phase = op.phase
    BY <1>1, <1>4, <1>5, Appending
  <2>3. op.phase # "none"
    BY <1>1, <1>5, KeepsStarted
  <2> QED
    BY <1>1, <1>2, <1>3, <1>5, <2>1, <2>2, <2>3, Numbers, SoundStay
<1>6. CASE /\ flights' = flights \cup
                {[text |-> Message(n), to |-> m, at |-> 0, by |-> "client"]}
           /\ UNCHANGED <<op, promised>>
  <2> DEFINE g == [text |-> Message(n), to |-> m, at |-> 0, by |-> "client"]
  <2>1. HistoryOK' /\ budget'.messages < n /\ budget'.messages <= budget.messages
    BY <1>1, <1>2, <1>6, SendBudget
  <2>2. /\ g \in Flight /\ g.at = 0 /\ g.by = "client" /\ g.text = Message(n)
        /\ g.by \notin Processes
    BY <1>4 DEF Flight, Processes
  <2> HIDE DEF g
  <2>6. n > budget'.messages
    <3>1. budget'.messages \in Nat
      BY <2>1, BoundsAssumption DEF HistoryOK
    <3> QED
      BY <2>1, <3>1
  <2>3. FlightOK(g)'
    BY <1>4, <2>2, <2>6 DEF FlightOK
  <2>4. ASSUME NEW f \in flights, f.by = "client" PROVE f.text # g.text
    <3>1. f.text.n > n
      BY <1>1, <1>2, <2>4 DEF FlightsFit, FlightOK
    <3> QED
      BY <1>4, <2>2, <3>1
  <2>5. flights' = flights \cup {g}
    BY <1>6 DEF g
  <2> QED
    BY <1>2, <1>3, <1>6, <2>1, <2>2, <2>3, <2>4, <2>5, SoundSends
<1> QED
  BY <1>5, <1>6 DEF Send

LEMMA SoundWakeSends ==
    ASSUME Sound, NEW m \in Managers, WakeSends(m)
    PROVE  Sound'
<1>1. /\ op \in Ops /\ FramesFit /\ FlightsFit /\ WakesFit /\ NoneYet /\ WatchOK /\ HistoryOK
      /\ HostOK
  BY DEF Sound
<1>2. /\ wakes[m].pc = "send" /\ wakes[m].turn >= 1
      /\ UNCHANGED <<tasks, frames, worker, process, late, fenced, history, budget>>
  BY <1>1 DEF WakeSends, WakesFit
<1>3. /\ worker.turn \in Nat /\ worker.turn \in 0..MaxTurns /\ worker.turn <= worker.turn
      /\ wakes[m].turn \in Nat
  BY <1>1, Numbers
<1>4. HistoryOK' /\ budget'.messages <= budget.messages /\ HostOK'
  BY <1>1, <1>2, Spent, Numbers, HostStays
<1>5. CASE /\ Current(m) /\ Keeps(op, m)
           /\ op' = Told(Appended(op, Report(worker.turn)), worker.turn)
           /\ Tells(worker.turn) /\ WakeIdle(m)
           /\ UNCHANGED <<flights, groups>>
  <2>1. worker.turn \in 1..MaxTurns
    BY <1>2, <1>3, <1>5 DEF Current
  <2>2. Report(worker.turn) \in Texts
    BY <2>1, TextTypes
  <2> DEFINE o == Appended(op, Report(worker.turn))
  <2>3. o \in Ops /\ Follows(op, o) /\ o.phase = op.phase
    BY <1>1, <2>2, Appending
  <2> HIDE DEF o
  <2>4. op' \in Ops /\ op'.deliveries = o.deliveries /\ op'.phase = op.phase
    BY <1>5, <2>3, ToldFacts DEF o
  <2>5. Follows(op, op')
    BY <2>3, <2>4 DEF Follows
  <2>6. /\ signature' = worker.turn /\ marks'.signature = worker.turn
        /\ marks' \in [signature : 0..MaxTurns, finish : 0..MaxTurns]
    BY <1>1, <1>3, <1>5, TellsFacts
  <2>7. wakes' \in [Managers -> Wake] /\ wakes'[m].pc = "idle"
    BY <1>1, <1>5, WakeSet DEF WakeIdle, NoWake, WatchOK
  <2>8. WatchOK'
    BY <1>1, <1>2, <1>3, <1>5, <2>6, <2>7 DEF WatchOK
  <2>9. WakesFit'
    BY <1>1, <1>2, <1>3, <1>5, <2>6, <2>7, WakeFits
  <2>10. op.phase # "none"
    BY <1>1, <1>5, KeepsStarted
  <2> QED
    BY <1>1, <1>2, <1>3, <1>4, <1>5, <2>4, <2>5, <2>8, <2>9, <2>10, Numbers, SoundStay
<1>6. CASE /\ Current(m) /\ wakes' = [wakes EXCEPT ![m].pc = "sent"]
           /\ flights' = flights \cup
                 {[text |-> Report(worker.turn), to |-> m, at |-> 0, by |-> "wake"]}
           /\ UNCHANGED <<op, signature, marks, groups>>
  <2>0. PICK g : g = [text |-> Report(worker.turn), to |-> m, at |-> 0, by |-> "wake"]
    OBVIOUS
  <2>1. worker.turn \in 1..MaxTurns
    BY <1>2, <1>3, <1>6 DEF Current
  <2>2. /\ Report(worker.turn) \in Texts /\ Report(worker.turn).kind = "report"
        /\ Report(worker.turn).n = worker.turn
    BY <2>1, TextTypes
  <2>3. /\ g \in Flight /\ g.at = 0 /\ g.by = "wake" /\ g.text = Report(worker.turn)
        /\ g.by \notin Processes /\ g.by # "client"
    BY <2>0, <2>2 DEF Flight, Processes
  <2>4. flights' = flights \cup {g}
    BY <1>6, <2>0
  <2>5. FlightOK(g)'
    <3>1. g.text.kind = "report" /\ g.text.n <= worker'.turn
      BY <1>2, <1>3, <2>2, <2>3
    <3> QED
      BY <2>3, <3>1 DEF FlightOK
  <2>6. /\ wakes' \in [Managers -> Wake] /\ wakes'[m].pc = "sent"
    <3>1. wakes \in [Managers -> Wake] /\ wakes[m] \in Wake
      BY <1>1 DEF WatchOK
    <3>2. wakes'[m] = [wakes[m] EXCEPT !.pc = "sent"]
      BY <1>6, <3>1
    <3>3. wakes'[m].pc = "sent"
      BY <3>1, <3>2 DEF Wake
    <3>4. wakes' \in [Managers -> Wake]
      BY <1>1, <1>6, WakeSet
    <3> QED
      BY <3>3, <3>4
  <2>7. WatchOK'
    BY <1>1, <1>2, <1>6, <2>6 DEF WatchOK
  <2>8. WakesFit'
    BY <1>1, <1>2, <1>6, <2>6, WakeFits DEF WakesFit
  <2>9. \A f \in flights : f.by = "client" /\ g.by = "client" => f.text # g.text
    BY <2>3
  <2>10. op' = op /\ frames' = frames /\ worker' = worker
    BY <1>2, <1>6
  <2> QED
    BY <1>4, <2>3, <2>4, <2>5, <2>7, <2>8, <2>9, <2>10, SoundSends
<1>7. CASE /\ WakeIdle(m) /\ groups' \in {groups, groups \cup {Target}, groups \cup {}}
           /\ UNCHANGED <<op, signature, flights, marks>>
  <2>1. /\ wakes' \in [Managers -> Wake] /\ groups' \subseteq Managers
        /\ wakes'[m].pc = "idle"
    BY <1>1, <1>7, WakeSet, Targets DEF WatchOK, WakeIdle, NoWake
  <2>2. WatchOK'
    BY <1>1, <1>2, <1>7, <2>1 DEF WatchOK
  <2>3. WakesFit'
    BY <1>1, <1>2, <1>7, <2>1, WakeFits DEF WakesFit
  <2>4. Follows(op, op')
    BY <1>7, FollowsSame
  <2> QED
    BY <1>1, <1>2, <1>3, <1>4, <1>7, <2>2, <2>3, <2>4, Numbers, SoundStay
<1> QED
  BY <1>5, <1>6, <1>7 DEF WakeSends

LEMMA SoundDrain ==
    ASSUME Sound, NEW m \in Managers, Drain(m)
    PROVE  Sound'
<1>1. /\ op \in Ops /\ FramesFit /\ WakesFit /\ NoneYet /\ WatchOK /\ HistoryOK
      /\ HostOK
  BY DEF Sound
<1> DEFINE pc == IF m = "old" THEN "wait" ELSE "wait new"
<1>2. /\ IF m \in groups THEN Begins(m, TRUE) ELSE UNCHANGED <<groups, wakes>>
      /\ Goes("task", pc)
      /\ UNCHANGED <<op, signature, tasks, flights, marks, worker, process, late, fenced,
                     history, budget>>
  BY DEF Drain, journal
<1>3. \/ m = "old" /\ frames["task"].pc = "drain"
      \/ m = "new" /\ frames["task"].pc = "wait" /\ wakes["old"].pc = "idle"
  BY DEF Drain, At
<1>4. /\ groups' \subseteq Managers /\ wakes' \in [Managers -> Wake]
      /\ \A r \in Managers : r # m => wakes'[r] = wakes[r]
      /\ \/ wakes' = wakes
         \/ /\ wakes'[m].pc = "capture" /\ wakes'[m].turn = worker.turn
            /\ wakes'[m].inline = TRUE
  BY <1>1, <1>2, BeginsFacts DEF WatchOK
<1>5. pc \in Steps /\ pc \in Flushes /\ frames["task"].pc \in Flushes
      /\ frames["task"].pc # "sent"
  BY <1>3 DEF Flushes, Steps
<1> HIDE DEF pc
<1>6. /\ Turns("task", Gone("task", pc)) /\ Gone("task", pc).pc = pc
      /\ FrameOK(Gone("task", pc), op'.deliveries)
  BY <1>1, <1>2, <1>5, GoesFacts, Managing
<1>7. frames' \in [Processes -> Frames] /\ frames'["task"].pc = pc
  BY <1>6 DEF Turns
<1>8. WakesFit'
  <2>1. ~wakes["old"].inline \/ (m = "new" /\ wakes["old"].pc = "idle")
    BY <1>1, <1>3 DEF WakesFit
  <2>2. ~wakes["old"].inline /\ ~wakes["new"].inline
    BY <1>1, <1>3, <2>1, Managing DEF WakesFit
  <2>3. ASSUME NEW r \in Managers
        PROVE  /\ wakes'[r].turn <= worker'.turn
               /\ wakes'[r].pc \in {"record", "send"} => wakes'[r].turn >= 1
               /\ wakes'[r].pc = "idle" => ~wakes'[r].inline
               /\ wakes'[r].inline => r = m
    <3>1. CASE wakes'[r] = wakes[r]
      BY <1>1, <1>2, <2>2, <3>1, Managing DEF WakesFit
    <3>2. CASE r = m /\ wakes'[m].pc = "capture" /\ wakes'[m].turn = worker.turn
      BY <1>1, <1>2, <3>2, Numbers
    <3> QED
      BY <1>4, <3>1, <3>2
  <2>4. wakes'["old"].inline => frames'["task"].pc = "wait"
    BY <1>7, <2>3, Managing DEF pc
  <2>5. wakes'["new"].inline => frames'["task"].pc = "wait new"
    BY <1>7, <2>3, Managing DEF pc
  <2> QED
    BY <1>1, <1>2, <2>3, <2>4, <2>5 DEF WakesFit
<1>9. WatchOK'
  BY <1>1, <1>2, <1>4 DEF WatchOK
<1>10. /\ HistoryOK' /\ budget'.messages <= budget.messages /\ HostOK'
       /\ Follows(op, op') /\ op.phase # "none"
  BY <1>1, <1>2, <1>3, Spent, Numbers, HostStays, FollowsSame, Begun, Managing
<1>11. \A q \in Processes : \/ frames'[q] = frames[q]
                            \/ /\ frames[q].pc # "sent"
                               /\ FrameOK(frames'[q], op'.deliveries)
  BY <1>5, <1>6 DEF Turns
<1> QED
  BY <1>1, <1>2, <1>7, <1>8, <1>9, <1>10, <1>11, Numbers, SoundChange

-----------------------------------------------------------------------------
(* The types: deliveries                                                   *)

LEMMA FollowsThrough ==
    ASSUME NEW o, NEW p, NEW r, Follows(o, p), Follows(p, r)
    PROVE  Follows(o, r)
  BY DEF Follows

LEMMA SoundDelivers ==
    ASSUME Sound, NEW q \in Processes, NEW o \in Ops, Follows(op, o), o.phase # "none",
           NEW i \in DOMAIN o.deliveries, NEW to \in Managers, NEW ok \in Oks,
           NEW no \in Nos, NEW then \in Thens, ok = "drain" => then = "evidence",
           ok = "release" => then \in {"evidence", "finish", "end", "idle"},
           Deliver(q, o, i, to, ok, no, then),
           frames[q].pc # "sent", q = "task" => Outside,
           UNCHANGED <<signature, observer, worker>>,
           HistoryOK', budget'.messages <= budget.messages, HostOK'
    PROVE  Sound'
<1>1. /\ op \in Ops /\ FramesFit /\ FlightsFit /\ WakesFit /\ WatchOK /\ HistoryOK
  BY DEF Sound
<1>2. /\ op' \in Ops /\ Follows(o, op') /\ op'.phase = o.phase
      /\ FrameOK(frames'[q], op'.deliveries)
      /\ \/ Handed(q, o, i, to, ok, no, then)
         \/ PassedOn(q, o, i, to, ok, no, then)
  BY <1>1, DeliverFacts
<1>3. Follows(op, op')
  BY <1>2, FollowsThrough
<1>4. Turns(q, frames'[q])
  BY <1>2 DEF Handed, PassedOn, Turns
<1>5. FramesFit'
  BY <1>1, <1>2, <1>3, <1>4, FramesTurn
<1>6. WatchOK' /\ Moves
  <2>1. WatchOK'
    BY <1>1 DEF WatchOK, observer
  <2> QED
    BY <1>1, <2>1, Numbers DEF Moves
<1>7. \A r \in Processes : frames[r].pc = "sent" => frames'[r] = frames[r]
  BY <1>4 DEF Turns
<1>8. FlightsFit'
  <2>1. CASE Handed(q, o, i, to, ok, no, then)
    <3> DEFINE g == [text |-> o.deliveries[i].text, to |-> to, at |-> 0, by |-> q]
    <3>1. /\ g \in Flight /\ g.at = 0 /\ g.by = q /\ g.text = o.deliveries[i].text
          /\ g.to = to
      BY Entries DEF Flight
    <3>2. q # "client" /\ q # "wake"
      BY DEF Processes
    <3>3. flights' = flights \cup {g}
      BY <2>1 DEF Handed
    <3>4. g = Fly(q)' /\ frames'[q].pc = "sent"
      <4>1. frames'[q] = Frame("sent", to, i, ok, no, then)
        BY <2>1 DEF Handed, Turns
      <4>2. frames'[q].pc = "sent" /\ frames'[q].at = i /\ frames'[q].to = to
        BY <4>1, FrameFields
      <4>3. op'.deliveries[i].text = o.deliveries[i].text
        BY <2>1 DEF Handed, Marks
      <4> QED
        BY <4>2, <4>3 DEF Fly
    <3> HIDE DEF g
    <3>5. FlightOK(g)'
      BY <3>1, <3>2, <3>4 DEF FlightOK
    <3> QED
      BY <1>1, <1>3, <1>6, <1>7, <3>1, <3>2, <3>3, <3>5, FlightsMore
  <2>2. CASE flights' = flights
    BY <1>1, <1>3, <1>6, <1>7, <2>2, FlightsFewer
  <2> QED
    BY <1>2, <2>1, <2>2 DEF PassedOn
<1>9. WakesFit'
  <2>1. frames'["task"] = frames["task"] \/ Outside
    BY <1>4, Managing DEF Turns
  <2> QED
    BY <1>1, <2>1, Managing DEF WakesFit, Outside, observer
<1>10. NoneYet'
  BY <1>2 DEF NoneYet
<1> QED
  BY <1>2, <1>5, <1>6, <1>8, <1>9, <1>10 DEF Sound

LEMMA FollowsItself == \A o : Follows(o, o)
  BY DEF Follows

LEMMA SoundRelease ==
    ASSUME Sound, NEW q \in Processes, Release(q)
    PROVE  Sound'
<1>1. /\ op \in Ops /\ FramesFit /\ WakesFit /\ HistoryOK /\ HostOK
      /\ frames[q].pc = "release" /\ op.phase # "none" /\ (q = "task" => Outside)
  BY Begun, NotFlushing DEF Sound, Release, At
<1>2. UNCHANGED <<signature, tasks, observer, worker, process, late, fenced, history, budget>>
  BY DEF Release
<1>3. HistoryOK' /\ budget'.messages <= budget.messages /\ HostOK'
  BY <1>1, <1>2, Spent, Numbers, HostStays DEF HistoryOK
<1> DEFINE open == {i \in DOMAIN op.deliveries :
                       Releasable(op.deliveries[i].text) /\ ~Settled(op.deliveries[i])}
           f == frames[q]
<1>4. /\ f \in Frames /\ Follow(f) /\ f.to \in Managers /\ f.then \in Thens
      /\ f.then \in {"evidence", "finish", "end", "idle"}
  BY <1>1, FrameTypes DEF FramesFit, FrameOK, Follow
<1>5. CASE open # {} /\ Deliver(q, op, First(open), f.to, "release", Ending(q), f.then)
  <2>1. open \in SUBSET Nat
    BY <1>1, Entries
  <2>2. First(open) \in DOMAIN op.deliveries
    BY <1>5, <2>1, FirstIs
  <2>3. "release" \in Oks /\ Ending(q) \in Nos
    BY DEF Oks, Nos, Ending
  <2> HIDE DEF open, f
  <2> QED
    BY <1>1, <1>2, <1>3, <1>4, <1>5, <2>2, <2>3, FollowsItself, SoundDelivers
<1>6. CASE Goes(q, f.then) /\ UNCHANGED <<op, flights>>
  <2>1. Plain(f.then)
    BY <1>4, PlainSteps
  <2>2. Keeping
    BY <1>1, <1>2, <1>3, <1>6, Kept
  <2> QED
    BY <1>1, <1>6, <2>1, <2>2, SoundGoes
<1> QED
  BY <1>5, <1>6 DEF Release

LEMMA Listed ==
    ASSUME NEW o \in Ops, NEW text \in Texts
    PROVE  LET p == Lists(o, text)
               i == First(Places(p, text))
           IN /\ p \in Ops /\ Follows(o, p) /\ p.phase = o.phase
              /\ p.intent = o.intent /\ p.committed = o.committed /\ p.bound = o.bound
              /\ p.finish = o.finish
              /\ i \in DOMAIN p.deliveries /\ p.deliveries[i].text = text
              /\ p = o \/ (p = Appended(o, text) /\ ~HasText(o, text))
<1> DEFINE p == Lists(o, text)
<1>1. CASE HasText(o, text)
  <2>1. p = o /\ Places(o, text) # {} /\ Places(o, text) \in SUBSET Nat
    BY <1>1, Entries DEF Lists, HasText, Places
  <2>2. First(Places(o, text)) \in Places(o, text)
    BY <2>1, FirstIs
  <2> QED
    BY <2>1, <2>2, FollowsItself DEF Places
<1>2. CASE ~HasText(o, text)
  <2> DEFINE a == Appended(o, text)
             n == Len(o.deliveries) + 1
  <2>1. p = a
    BY <1>2 DEF Lists
  <2>2. /\ a \in Ops /\ Follows(o, a) /\ a.phase = o.phase /\ a.intent = o.intent
        /\ a.committed = o.committed /\ a.bound = o.bound /\ a.finish = o.finish
        /\ DOMAIN a.deliveries = 1..n /\ n \in Nat /\ n # 0
        /\ a.deliveries[n] = [text |-> text, status |-> "pending"]
    BY Appending
  <2> HIDE DEF a, n
  <2>3. n \in 1..n
    BY <2>2
  <2>4. Places(a, text) # {} /\ Places(a, text) \in SUBSET Nat
    BY <2>2, <2>3 DEF Places
  <2>5. First(Places(a, text)) \in Places(a, text)
    BY <2>4, FirstIs
  <2> HIDE DEF p
  <2> QED
    BY <1>2, <2>1, <2>2, <2>5 DEF Places, p, a
<1> QED
  BY <1>1, <1>2

LEMMA SoundBrief ==
    ASSUME Sound, Brief
    PROVE  Sound'
<1>1. /\ op \in Ops /\ FramesFit /\ WakesFit /\ HistoryOK /\ HostOK
      /\ frames["task"].pc = "brief" /\ op.phase # "none" /\ Outside
  BY Begun, Managing, NotFlushing DEF Sound, Brief, At
<1>2. UNCHANGED <<signature, tasks, observer, worker, process, late, fenced, history, budget>>
  BY DEF Brief
<1>3. HistoryOK' /\ budget'.messages <= budget.messages /\ HostOK'
  BY <1>1, <1>2, Spent, Numbers, HostStays DEF HistoryOK
<1> DEFINE o == Lists(op, Preparation)
           i == First(Places(o, Preparation))
<1>4. CASE Deliver("task", o, i, "old", "receipt", "end", "idle")
  <2>1. /\ o \in Ops /\ Follows(op, o) /\ o.phase = op.phase /\ i \in DOMAIN o.deliveries
    BY <1>1, TextTypes, Listed
  <2>2. "receipt" \in Oks /\ "end" \in Nos /\ "idle" \in Thens
    BY DEF Oks, Nos, Thens
  <2> HIDE DEF i, o
  <2> QED
    BY <1>1, <1>2, <1>3, <1>4, <2>1, <2>2, Managing, SoundDelivers
<1>5. CASE Ends("task") /\ UNCHANGED <<op, flights>>
  <2>1. Keeping
    BY <1>1, <1>2, <1>3, <1>5, Kept, Managing
  <2> QED
    BY <1>1, <1>5, <2>1, SoundEnds, Managing
<1> QED
  BY <1>4, <1>5 DEF Brief

LEMMA SoundKicksOff ==
    ASSUME Sound, KicksOff
    PROVE  Sound'
<1>1. /\ op \in Ops /\ FramesFit /\ WakesFit /\ HistoryOK /\ HostOK
      /\ frames["task"].pc = "kickoff" /\ op.phase # "none" /\ Outside
  BY Begun, Managing, NotFlushing DEF Sound, KicksOff, At
<1>2. UNCHANGED <<signature, tasks, observer, worker, process, late, fenced, history, budget>>
  BY DEF KicksOff
<1>3. HistoryOK' /\ budget'.messages <= budget.messages /\ HostOK'
  BY <1>1, <1>2, Spent, Numbers, HostStays DEF HistoryOK
<1> DEFINE p == Lists(op, Kickoff)
           o == [p EXCEPT !.phase = "activating"]
           i == First(Places(p, Kickoff))
<1>4. Deliver("task", o, First(Places(o, Kickoff)), "new", "drain", "end", "evidence")
  BY DEF KicksOff
<1>5. /\ p \in Ops /\ Follows(op, p) /\ i \in DOMAIN p.deliveries
  BY <1>1, TextTypes, Listed
<1>6. "activating" \in Phases
  BY DEF Phases
<1> HIDE DEF p
<1>7. o \in Ops /\ o.deliveries = p.deliveries /\ o.phase = "activating"
  BY <1>5, <1>6, PhaseSet
<1> HIDE DEF o
<1>8. Places(o, Kickoff) = Places(p, Kickoff)
  BY <1>7 DEF Places
<1>9. Follows(op, o)
  BY <1>5, <1>7 DEF Follows
<1>10. "drain" \in Oks /\ "end" \in Nos /\ "evidence" \in Thens
  BY DEF Oks, Nos, Thens
<1>11. First(Places(o, Kickoff)) \in DOMAIN o.deliveries
  BY <1>5, <1>7, <1>8
<1> QED
  BY <1>1, <1>2, <1>3, <1>4, <1>7, <1>9, <1>10, <1>11, Managing, SoundDelivers

LEMMA SoundSentEnds ==
    ASSUME Sound, NEW q \in Processes, SentEnds(q)
    PROVE  Sound'
<1>1. /\ op \in Ops /\ FramesFit /\ FlightsFit /\ WakesFit /\ WatchOK /\ HistoryOK /\ HostOK
      /\ frames[q].pc = "sent" /\ op.phase # "none" /\ (q = "task" => Outside)
  BY Begun, NotFlushing DEF Sound, SentEnds, At
<1> DEFINE f == frames[q]
           text == op.deliveries[f.at].text
<1>2. /\ flights' = flights \ {Fly(q)}
      /\ UNCHANGED <<signature, tasks, observer, worker, process, late, fenced, allowed, promised,
                     cancelled>>
  BY DEF SentEnds, Fly
<1>3. PICK x \in Outcomes(f.to) :
         /\ Costs(f.to, x) /\ Reaches(text, x)
         /\ op' = Delivered(op, f.at, x)
         /\ Returns(q, f, x.result = "accepted")
  BY DEF SentEnds
<1>4. /\ f \in Frames /\ Follow(f) /\ f.at \in DOMAIN op.deliveries
  BY <1>1 DEF FramesFit, FrameOK
<1>5. text \in Texts /\ x \in [result : {"accepted", "rejected", "uncertain"}, reached : BOOLEAN]
  BY <1>1, <1>4, Entries, OutcomesFacts
<1>6. /\ op' \in Ops /\ Follows(op, op') /\ op'.phase \in {op.phase, "recovery-required"}
  <2>1. op' = Delivered(op, f.at, x)
    BY <1>3
  <2> HIDE DEF f, text
  <2> QED
    BY <1>1, <1>4, <1>5, <2>1, DeliveredFacts
<1>7. HistoryOK' /\ budget'.messages <= budget.messages
  <2>1. promised' \subseteq {Message(n) : n \in 1..MaxMessages}
    BY <1>1, <1>2 DEF HistoryOK
  <2>2. Costs(f.to, x) /\ Reaches(text, x) /\ allowed' = allowed /\ cancelled' = cancelled
    BY <1>2, <1>3
  <2> HIDE DEF text, f
  <2> QED
    BY <1>1, <1>5, <2>1, <2>2, Sent1
<1> DEFINE done == x.result = "accepted"
           r == Returned(f.to, f.at, f.ok, f.no, f.then, done)
<1>8. Turns(q, r) /\ FrameOK(r, op'.deliveries) /\ r.pc # "sent"
  <2>1. f.at \in DOMAIN op'.deliveries
    BY <1>4, <1>6 DEF Follows
  <2>2. /\ f.ok = "drain" => f.then = "evidence"
        /\ f.ok = "release" => f.then \in {"evidence", "finish", "end", "idle"}
    BY <1>1, <1>4 DEF Follow
  <2>3. done \in BOOLEAN /\ Returns(q, f, done)
    BY <1>3
  <2> HIDE DEF done, f
  <2> QED
    BY <1>1, <1>4, <2>1, <2>2, <2>3, ReturnsFacts
<1> HIDE DEF r
<1>9. FramesFit'
  BY <1>1, <1>6, <1>8, FramesTurn
<1>10. WatchOK' /\ Moves
  <2>1. WatchOK'
    BY <1>1, <1>2 DEF WatchOK, observer
  <2> QED
    BY <1>1, <1>2, <1>7, <2>1, Numbers DEF Moves
<1>11. FlightsFit'
  <2>1. ASSUME NEW s \in Processes, frames[s].pc = "sent"
        PROVE  frames'[s] = frames[s] \/ \A g \in flights' : g.by # s
    <3>1. CASE s # q
      BY <1>8, <3>1 DEF Turns
    <3>2. CASE s = q
      <4>1. ASSUME NEW g \in flights', g.by = q PROVE FALSE
        <5>1. FlightOK(g) /\ g # Fly(q)
          BY <1>1, <1>2 DEF FlightsFit
        <5>2. g = Fly(q)
          BY <4>1, <5>1 DEF FlightOK
        <5> QED
          BY <5>1, <5>2
      <4> QED
        BY <3>2, <4>1
    <3> QED
      BY <3>1, <3>2
  <2> QED
    BY <1>1, <1>2, <1>6, <1>10, <2>1, FlightsFewer
<1>12. WakesFit'
  <2>1. frames'["task"] = frames["task"] \/ Outside
    BY <1>1, <1>8, Managing DEF Turns
  <2> QED
    BY <1>1, <1>2, <2>1, Managing DEF WakesFit, Outside, observer
<1>13. NoneYet' /\ HostOK'
  BY <1>1, <1>2, <1>6, HostStays DEF NoneYet
<1> QED
  BY <1>6, <1>7, <1>9, <1>10, <1>11, <1>12, <1>13 DEF Sound

-----------------------------------------------------------------------------
(* The types: failures, resolutions and the start                          *)

LEMMA SoundDrainFails ==
    ASSUME Sound, DrainFails
    PROVE  Sound'
<1>1. /\ op \in Ops /\ FramesFit /\ FlightsFit /\ WakesFit /\ WatchOK /\ HistoryOK /\ HostOK
      /\ frames["task"].pc \in Flushes /\ frames["task"].pc # "sent" /\ op.phase # "none"
  BY Begun, Managing DEF Sound, DrainFails, Flushes
<1> DEFINE inline == {m \in Managers : wakes[m].inline}
           sends == {f \in flights : f.by = "wake" /\ f.to \in inline}
<1>2. /\ Goes("task", "fail") /\ Fault
      /\ wakes' = [m \in Managers |-> IF m \in inline THEN NoWake ELSE wakes[m]]
      /\ flights' = flights \ sends
      /\ IF sends = {} THEN UNCHANGED <<op, taken>>
         ELSE \E f \in sends : \E x \in Outcomes(f.to) :
                /\ x.result = "uncertain"
                /\ op' = Noted(op, f.at, x) /\ Reaches(f.text, x)
      /\ UNCHANGED <<signature, tasks, groups, marks, worker, process, late, fenced, allowed,
                     promised, cancelled>>
  BY DEF DrainFails
<1>3. sends \subseteq flights
  OBVIOUS
<1>4. wakes' \in [Managers -> Wake] /\ \A m \in Managers :
          (wakes'[m] = wakes[m] /\ ~wakes[m].inline) \/ wakes'[m] = NoWake
  <2>1. NoWake \in Wake
    BY BoundsAssumption DEF NoWake, Wake
  <2> QED
    BY <1>1, <1>2, <2>1 DEF WatchOK
<1> HIDE DEF inline, sends
<1>5. /\ Turns("task", Gone("task", "fail")) /\ FrameOK(Gone("task", "fail"), op'.deliveries)
  <2>1. "fail" \in Steps /\ "fail" \notin Flushes \cup {"sent", "resolved", "release"}
    BY DEF Steps, Flushes
  <2> QED
    BY <1>1, <1>2, <2>1, GoesFacts, Managing
<1>6. /\ frames' \in [Processes -> Frames] /\ frames'["request"] = frames["request"]
      /\ FrameOK(frames'["task"], op'.deliveries)
  BY <1>5, Managing DEF Turns
<1>7. /\ op' \in Ops /\ Follows(op, op') /\ op'.phase # "none"
      /\ HistoryOK' /\ budget'.messages <= budget.messages
  <2>1. CASE UNCHANGED <<op, taken>>
    <3>1. HistoryOK' /\ budget'.messages = budget.messages
      BY <1>1, <1>2, <2>1, Asked DEF HistoryOK
    <3> QED
      BY <1>1, <2>1, <3>1, FollowsItself, Numbers
  <2>2. ASSUME NEW f \in sends, NEW x \in Outcomes(f.to), x.result = "uncertain",
               op' = Noted(op, f.at, x), Reaches(f.text, x)
        PROVE  /\ op' \in Ops /\ Follows(op, op') /\ op'.phase # "none"
               /\ HistoryOK' /\ budget'.messages <= budget.messages
    <3>1. f \in Flight /\ FlightOK(f)
      BY <1>1, <1>3 DEF FlightsFit
    <3>2. /\ f.text \in Texts /\ f.at \in Nat
          /\ (f.at # 0 => f.at \in DOMAIN op.deliveries)
      BY <3>1 DEF Flight, FlightOK
    <3>3. x \in [result : {"accepted", "rejected", "uncertain"}, reached : BOOLEAN]
      BY OutcomesFacts
    <3>4. op' \in Ops /\ Follows(op, op') /\ op'.phase \in {op.phase, "recovery-required"}
      BY <1>1, <2>2, <3>2, <3>3, NotedFacts
    <3>5. Costs(f.to, x)
      BY <1>2, <2>2 DEF Costs
    <3>6. promised' \subseteq {Message(n) : n \in 1..MaxMessages}
      BY <1>1, <1>2 DEF HistoryOK
    <3>7. HistoryOK' /\ budget'.messages <= budget.messages
      BY <1>1, <1>2, <2>2, <3>2, <3>5, <3>6, Sent1
    <3> QED
      BY <1>1, <3>4, <3>7
  <2> QED
    BY <1>2, <2>1, <2>2
<1>8. WatchOK'
  BY <1>1, <1>2, <1>4 DEF WatchOK
<1>9. WakesFit'
  <2>1. ASSUME NEW m \in Managers
        PROVE  /\ wakes'[m].turn <= worker'.turn
               /\ wakes'[m].pc \in {"record", "send"} => wakes'[m].turn >= 1
               /\ wakes'[m].pc = "idle" => ~wakes'[m].inline
               /\ ~wakes'[m].inline
    <3>1. CASE wakes'[m] = wakes[m] /\ ~wakes[m].inline
      BY <1>1, <1>2, <3>1 DEF WakesFit
    <3>2. CASE wakes'[m] = NoWake
      BY <1>1, <1>2, <3>2, Numbers DEF NoWake
    <3> QED
      BY <1>4, <3>1, <3>2
  <2> QED
    BY <1>1, <1>2, <2>1, Managing DEF WakesFit
<1>10. HostOK'
  BY <1>1, <1>2, HostStays
<1>11. flights' \subseteq flights
  BY <1>2
<1> QED
  BY <1>1, <1>2, <1>6, <1>7, <1>8, <1>9, <1>10, <1>11, Numbers, SoundHears

(* What was being sent is uncertain.                                       *)
Shut(o, p) ==
    /\ DOMAIN p.deliveries = DOMAIN o.deliveries
    /\ \A i \in DOMAIN o.deliveries :
          /\ p.deliveries[i].text = o.deliveries[i].text
          /\ p.deliveries[i].status = IF o.deliveries[i].status = "sending" THEN "uncertain"
                                      ELSE o.deliveries[i].status

LEMMA Shutting ==
    ASSUME NEW o \in Ops, NEW d,
           d = [i \in DOMAIN o.deliveries |->
                  IF o.deliveries[i].status = "sending"
                  THEN [o.deliveries[i] EXCEPT !.status = "uncertain"] ELSE o.deliveries[i]]
    PROVE  /\ d \in Deliveries /\ DOMAIN d = DOMAIN o.deliveries
           /\ \A i \in DOMAIN o.deliveries :
                 /\ d[i].text = o.deliveries[i].text
                 /\ d[i].status = IF o.deliveries[i].status = "sending" THEN "uncertain"
                                  ELSE o.deliveries[i].status
<1>1. /\ DOMAIN o.deliveries = 1..Len(o.deliveries) /\ Len(o.deliveries) \in Nat
      /\ \A i \in DOMAIN o.deliveries : o.deliveries[i] \in Entry
  BY Entries
<1>2. ASSUME NEW i \in DOMAIN o.deliveries
      PROVE  /\ d[i] \in Entry /\ d[i].text = o.deliveries[i].text
             /\ d[i].status = IF o.deliveries[i].status = "sending" THEN "uncertain"
                              ELSE o.deliveries[i].status
  <2>1. o.deliveries[i] \in Entry /\ "uncertain" \in Statuses
    BY <1>1 DEF Statuses
  <2>2. d[i] = IF o.deliveries[i].status = "sending"
               THEN [o.deliveries[i] EXCEPT !.status = "uncertain"] ELSE o.deliveries[i]
    OBVIOUS
  <2> QED
    BY <2>1, <2>2 DEF Entry
<1>3. d \in [1..Len(o.deliveries) -> Entry] /\ DOMAIN d = DOMAIN o.deliveries
  BY <1>1, <1>2
<1>4. d \in Seq(Entry)
  BY <1>1, <1>3
<1> QED
  BY <1>2, <1>3, <1>4 DEF Deliveries, Entry

LEMMA ShutFollows ==
    ASSUME NEW o, NEW p, Shut(o, p)
    PROVE  Follows(o, p)
  BY DEF Shut, Follows

LEMMA FailFacts ==
    ASSUME op \in Ops, Fail
    PROVE  /\ op' \in Ops /\ Shut(op, op')
           /\ op'.phase \in {"recovery-required", "failed"}
           /\ op'.intent = op.intent /\ op'.committed = op.committed /\ op'.bound = op.bound
           /\ op'.finish = op.finish
<1> DEFINE d == [i \in DOMAIN op.deliveries |->
                  IF op.deliveries[i].status = "sending"
                  THEN [op.deliveries[i] EXCEPT !.status = "uncertain"] ELSE op.deliveries[i]]
           ph == IF op.intent \/ Exists(op, "sending") \/ Exists(op, "uncertain")
                 THEN "recovery-required" ELSE "failed"
<1>1. op' = [op EXCEPT !.deliveries = d, !.phase = ph]
  BY DEF Fail
<1>2. /\ d \in Deliveries /\ DOMAIN d = DOMAIN op.deliveries
      /\ \A i \in DOMAIN op.deliveries :
            /\ d[i].text = op.deliveries[i].text
            /\ d[i].status = IF op.deliveries[i].status = "sending" THEN "uncertain"
                             ELSE op.deliveries[i].status
  BY Shutting
<1>3. ph \in Phases /\ ph \in {"recovery-required", "failed"}
  BY DEF Phases
<1> HIDE DEF d, ph
<1>4. /\ op' \in Ops /\ op'.deliveries = d /\ op'.phase = ph /\ op'.intent = op.intent
      /\ op'.committed = op.committed /\ op'.bound = op.bound /\ op'.finish = op.finish
  BY <1>1, <1>2, <1>3 DEF Ops
<1> QED
  BY <1>2, <1>3, <1>4 DEF Shut

LEMMA SoundFail ==
    ASSUME Sound, Fail
    PROVE  Sound'
<1>1. /\ op \in Ops /\ FramesFit /\ HistoryOK /\ HostOK /\ Outside
      /\ frames["task"].pc = "fail"
  BY NotFlushing DEF Sound, Fail, At
<1>2. UNCHANGED <<signature, tasks, flights, observer, worker, process, late, fenced, history,
                  budget>>
  BY DEF Fail
<1>3. op' \in Ops /\ Follows(op, op') /\ op'.phase # "none"
  BY <1>1, FailFacts, ShutFollows
<1>4. HistoryOK' /\ budget'.messages = budget.messages /\ HostOK'
  BY <1>1, <1>2, Spent, HostStays
<1>5. CASE Ends("task")
  <2>1. Turns("task", Idle) /\ FrameOK(Idle, op'.deliveries)
    BY <1>1, <1>5, EndsFacts, IdleFrame, Managing
  <2> QED
    BY <1>1, <1>2, <1>3, <1>4, <2>1, SoundTurn, Managing
<1>6. CASE Goes("task", "close")
  <2>1. /\ Turns("task", Gone("task", "close"))
        /\ FrameOK(Gone("task", "close"), op'.deliveries)
    <3>1. "close" \in Steps /\ "close" \notin Flushes \cup {"sent", "resolved", "release"}
      BY DEF Steps, Flushes
    <3> QED
      BY <1>1, <1>6, <3>1, GoesFacts, Managing
  <2> QED
    BY <1>1, <1>2, <1>3, <1>4, <2>1, SoundTurn, Managing
<1> QED
  BY <1>5, <1>6 DEF Fail

(* The entry that the owner resolves.                                      *)
Settling(o, i) == [o EXCEPT !.deliveries[i].status = "reconciled"]

LEMMA SettlingFacts ==
    ASSUME NEW o \in Ops, NEW i \in DOMAIN o.deliveries
    PROVE  /\ Settling(o, i) \in Ops /\ Follows(o, Settling(o, i))
           /\ Marks(o, Settling(o, i), i, "reconciled") /\ Settling(o, i).phase = o.phase
           /\ Len(Settling(o, i).deliveries) = Len(o.deliveries)
<1> DEFINE p == Settling(o, i)
<1>1. p = [o EXCEPT !.deliveries[i].status = "reconciled"] /\ "reconciled" \in Statuses
  BY DEF Settling, Statuses
<1> HIDE DEF p
<1>2. p \in Ops /\ Marks(o, p, i, "reconciled") /\ p.phase = o.phase
  BY <1>1, StatusSet
<1>3. Follows(o, p)
  BY <1>2, MarksFollows
<1>4. /\ Len(p.deliveries) \in Nat /\ Len(o.deliveries) \in Nat
      /\ 1..Len(p.deliveries) = 1..Len(o.deliveries)
  BY <1>2, Entries DEF Marks
<1>5. Len(p.deliveries) = Len(o.deliveries)
  BY <1>4
<1> QED
  BY <1>2, <1>3, <1>5 DEF p

Onward(o, i) == IF o.deliveries[i].text = Preparation /\ ~op.intent THEN "prepare" ELSE "reconcile"

LEMMA ResolvesIs ==
    ASSUME NEW o, NEW i, NEW retry, Resolves(o, i, retry)
    PROVE  /\ o.deliveries[i].status \in {"uncertain", "pending"}
           /\ \/ /\ retry
                 /\ allowed' = [allowed EXCEPT ![o.deliveries[i].text] = @ + 1]
                 /\ Deliver("request", Appended(Settling(o, i), o.deliveries[i].text),
                            Len(o.deliveries) + 1, Owner(o), "resolved", "resolved",
                            Onward(o, i))
              \/ /\ ~retry /\ op' = Settling(o, i) /\ UNCHANGED <<flights, allowed>>
                 /\ frames' = [frames EXCEPT !["request"] =
                       [Idle EXCEPT !.pc = "resolved", !.at = i, !.then = Onward(o, i)]]
  BY DEF Resolves, Settling, Onward

LEMMA ResolvedFrame ==
    ASSUME NEW i \in Nat, NEW then \in Thens, NEW d, i \in DOMAIN d
    PROVE  LET f == [Idle EXCEPT !.pc = "resolved", !.at = i, !.then = then]
           IN /\ f = Frame("resolved", "old", i, "idle", "idle", then)
              /\ f \in Frames /\ FrameOK(f, d)
<1> DEFINE f == Frame("resolved", "old", i, "idle", "idle", then)
<1>1. [Idle EXCEPT !.pc = "resolved"] = Frame("resolved", "old", 0, "idle", "idle", "idle")
  BY DEF Idle, Frame
<1>2. [Frame("resolved", "old", 0, "idle", "idle", "idle") EXCEPT !.at = i]
        = Frame("resolved", "old", i, "idle", "idle", "idle")
  BY DEF Frame
<1>3. [Frame("resolved", "old", i, "idle", "idle", "idle") EXCEPT !.then = then] = f
  BY DEF Frame
<1>4. [Idle EXCEPT !.pc = "resolved", !.at = i, !.then = then]
        = [[[Idle EXCEPT !.pc = "resolved"] EXCEPT !.at = i] EXCEPT !.then = then]
  OBVIOUS
<1>5. [Idle EXCEPT !.pc = "resolved", !.at = i, !.then = then] = f
  BY <1>1, <1>2, <1>3, <1>4
<1>6. /\ "resolved" \in Steps /\ "old" \in Managers /\ "idle" \in Oks /\ "idle" \in Nos
  BY DEF Steps, Managers, Oks, Nos
<1>7. f \in Frames /\ f.pc = "resolved" /\ f.at = i
  BY <1>6, FrameMade, FrameFields
<1>8. FrameOK(f, d)
  BY <1>7 DEF FrameOK, Follow, Flushes
<1> QED
  BY <1>5, <1>7, <1>8

LEMMA SoundResolves ==
    ASSUME Sound, NEW o \in Ops, Follows(op, o), o.phase # "none",
           NEW i \in DOMAIN o.deliveries, NEW retry, Resolves(o, i, retry),
           frames["request"].pc = "idle", Spend("requests"), HostOK',
           UNCHANGED <<signature, observer, worker, taken, promised, cancelled>>
    PROVE  Sound'
<1>1. /\ op \in Ops /\ FramesFit /\ WatchOK /\ HistoryOK /\ WakesFit
  BY DEF Sound
<1> DEFINE s == Settling(o, i)
           text == o.deliveries[i].text
           then == Onward(o, i)
<1>2. /\ s \in Ops /\ Follows(o, s) /\ s.phase = o.phase /\ DOMAIN s.deliveries = DOMAIN o.deliveries
      /\ Len(s.deliveries) = Len(o.deliveries)
  BY SettlingFacts DEF Marks
<1>3. text \in Texts /\ then \in Thens /\ i \in Nat
  BY Entries DEF Onward, Thens
<1>4. HistoryOK' /\ budget'.messages <= budget.messages
  <2>1. cancelled' \in BOOLEAN
    BY <1>1 DEF HistoryOK
  <2>2. UNCHANGED allowed \/ \E t \in Texts : allowed' = [allowed EXCEPT ![t] = @ + 1]
    BY <1>3, ResolvesIs
  <2> QED
    BY <1>1, <2>1, <2>2, Asked, Numbers
<1>5. CASE Deliver("request", Appended(s, text), Len(o.deliveries) + 1, Owner(o), "resolved",
                   "resolved", then)
  <2> HIDE DEF s, text, then
  <2>0. PICK p, n : p = Appended(s, text) /\ n = Len(s.deliveries) + 1
    OBVIOUS
  <2>1. /\ p \in Ops /\ Follows(s, p) /\ p.phase = s.phase /\ n \in DOMAIN p.deliveries
    <3>1. /\ Appended(s, text) \in Ops /\ Follows(s, Appended(s, text))
          /\ Appended(s, text).phase = s.phase
          /\ DOMAIN Appended(s, text).deliveries = 1..(Len(s.deliveries) + 1)
          /\ Len(s.deliveries) + 1 \in Nat /\ Len(s.deliveries) + 1 # 0
      BY <1>2, <1>3, Appending
    <3> QED
      BY <2>0, <3>1
  <2>2. Owner(o) \in Managers /\ "resolved" \in Oks /\ "resolved" \in Nos
    BY Targets DEF Oks, Nos
  <2>3. Follows(op, p)
    BY <1>2, <2>1, FollowsThrough
  <2>4. Deliver("request", p, n, Owner(o), "resolved", "resolved", then)
    BY <1>2, <1>5, <2>0
  <2> QED
    BY <1>2, <1>3, <1>4, <2>1, <2>2, <2>3, <2>4, Managing, SoundDelivers
<1>6. CASE /\ op' = s /\ UNCHANGED <<flights, allowed>>
           /\ frames' = [frames EXCEPT !["request"] =
                 [Idle EXCEPT !.pc = "resolved", !.at = i, !.then = then]]
  <2> DEFINE f == [Idle EXCEPT !.pc = "resolved", !.at = i, !.then = then]
  <2> HIDE DEF s, text, then
  <2>1. i \in DOMAIN op'.deliveries
    BY <1>2, <1>6
  <2>2. f \in Frames /\ FrameOK(f, op'.deliveries)
    BY <1>3, <2>1, ResolvedFrame
  <2> HIDE DEF f
  <2>3. frames' = [frames EXCEPT !["request"] = f]
    BY <1>6 DEF f
  <2>4. Turns("request", f)
    BY <1>1, <2>2, <2>3, TurnsMade, Managing
  <2>5. op' \in Ops /\ Follows(op, op') /\ op'.phase # "none"
    BY <1>2, <1>6, FollowsThrough
  <2>6. budget'.messages = budget.messages
    BY <1>1, <1>6, Asked DEF HistoryOK
  <2> QED
    BY <1>4, <1>6, <2>2, <2>4, <2>5, <2>6, SoundTurn, Managing
<1> QED
  BY <1>5, <1>6, ResolvesIs

LEMMA SoundResolve ==
    ASSUME Sound, Resolve
    PROVE  Sound'
<1>1. /\ op \in Ops /\ HostOK /\ HistoryOK
      /\ frames["request"].pc = "idle" /\ op.phase # "none" /\ Spend("requests")
      /\ UNCHANGED <<signature, tasks, observer, worker, process, late, fenced, taken, promised,
                     cancelled>>
  BY DEF Sound, Resolve, Admitted, At
<1>2. HostOK'
  BY <1>1, HostStays
<1>3. ASSUME NEW i \in DOMAIN op.deliveries, NEW retry \in BOOLEAN, Resolves(op, i, retry)
      PROVE  Sound'
  BY <1>1, <1>2, <1>3, FollowsItself, SoundResolves
<1>4. ASSUME NEW retry \in BOOLEAN, op.finish # 0,
             Resolves([Appended(op, Report(op.finish)) EXCEPT !.finish = 0],
                      Len(op.deliveries) + 1, retry)
      PROVE  Sound'
  <2> DEFINE p == Appended(op, Report(op.finish))
             o == [p EXCEPT !.finish = 0]
             n == Len(op.deliveries) + 1
  <2>1. op.finish \in 1..MaxTurns /\ 0 \in 0..MaxTurns
    BY <1>1, <1>4, Entries, BoundsAssumption
  <2>2. Report(op.finish) \in Texts
    BY <2>1, TextTypes
  <2>3. /\ p \in Ops /\ Follows(op, p) /\ p.phase = op.phase
        /\ DOMAIN p.deliveries = 1..n /\ n \in Nat /\ n # 0
    BY <1>1, <2>2, Appending
  <2>4. n \in DOMAIN p.deliveries
    BY <2>3
  <2> HIDE DEF p, n
  <2>5. o \in Ops /\ o.deliveries = p.deliveries /\ o.phase = p.phase
    BY <2>1, <2>3, FinishSet
  <2>6. Resolves(o, n, retry)
    BY <1>4 DEF p, n
  <2> HIDE DEF o
  <2>7. Follows(op, o)
    BY <2>3, <2>5 DEF Follows
  <2> QED
    BY <1>1, <1>2, <2>3, <2>4, <2>5, <2>6, <2>7, SoundResolves
<1> QED
  BY <1>3, <1>4 DEF Resolve

(* The sends that the start captures.                                      *)
Old == {f \in flights : f.to = "old"}
CapturedAt(sends) == {[sends[i] EXCEPT !.at = i] : i \in DOMAIN sends}

LEMMA OldListed ==
    ASSUME FlightsFit
    PROVE  LET s == SetToSeq(Old)
           IN /\ DOMAIN s = 1..Cardinality(Old) /\ Cardinality(Old) \in Nat
              /\ \A i \in DOMAIN s : s[i] \in Old /\ i \in Nat /\ i # 0
              /\ \A x \in Old : \E i \in DOMAIN s : s[i] = x
              /\ \A i, j \in DOMAIN s : s[i] = s[j] => i = j
<1>1. IsFiniteSet(Old)
  BY FS_Subset DEF FlightsFit, Old
<1> DEFINE s == SetToSeq(Old)
           n == Cardinality(Old)
<1>2. /\ s \in [1..n -> Old] /\ n \in Nat /\ IsInjective(s)
      /\ \A x \in Old : \E i \in DOMAIN s : s[i] = x
  BY <1>1, Listing
<1> HIDE DEF s, n
<1>3. DOMAIN s = 1..n
  BY <1>2
<1>4. \A i \in DOMAIN s : s[i] \in Old /\ i \in Nat /\ i # 0
  BY <1>2, <1>3
<1>5. \A i, j \in DOMAIN s : s[i] = s[j] => i = j
  BY <1>2 DEF IsInjective
<1> QED
  BY <1>2, <1>3, <1>4, <1>5 DEF s, n

LEMMA StartIs ==
    ASSUME Start
    PROVE  LET s == SetToSeq(Old)
           IN /\ op.phase = "none" /\ Live("old") /\ Goes("task", "ready")
              /\ op' = [op EXCEPT !.phase = "preparing",
                          !.deliveries = [i \in DOMAIN s |-> [text |-> s[i].text,
                                                              status |-> "sending"]],
                          !.finish = marks.finish]
              /\ flights' = (flights \ Old) \cup CapturedAt(s)
              /\ signature' = IF marks.signature # 0 THEN marks.signature
                              ELSE IF signature # 0 THEN signature
                              ELSE IF \E f \in Old : f.by = "wake"
                              THEN (CHOOSE f \in Old : f.by = "wake").text.n ELSE 0
              /\ UNCHANGED <<tasks, observer, worker, process, late, fenced, history, budget>>
  BY DEF Start, Old, CapturedAt

(* The journal entry as it is started, and the sends it captured.          *)
Starting ==
    LET s == SetToSeq(Old)
    IN /\ op' \in Ops /\ op'.phase = "preparing" /\ op'.finish = marks.finish
       /\ op'.intent = op.intent /\ op'.committed = op.committed /\ op'.bound = op.bound
       /\ DOMAIN op'.deliveries = DOMAIN s
       /\ \A i \in DOMAIN s : /\ op'.deliveries[i].text = s[i].text
                              /\ op'.deliveries[i].status = "sending"
       /\ \A g \in flights' :
             \/ g \in flights /\ g.to # "old"
             \/ \E i \in DOMAIN s : /\ g = [s[i] EXCEPT !.at = i]
                                    /\ g.text = s[i].text /\ g.to = s[i].to /\ g.by = s[i].by
                                    /\ g.at = i /\ g \in Flight
       /\ IsFiniteSet(flights')

LEMMA StartFacts ==
    ASSUME Sound, Start
    PROVE  Starting
<1> DEFINE s == SetToSeq(Old)
           d == [i \in DOMAIN s |-> [text |-> s[i].text, status |-> "sending"]]
<1>1. /\ op \in Ops /\ FlightsFit /\ WatchOK
  BY DEF Sound
<1>2. /\ DOMAIN s = 1..Cardinality(Old) /\ Cardinality(Old) \in Nat
      /\ \A i \in DOMAIN s : s[i] \in Old /\ i \in Nat /\ i # 0
  BY <1>1, OldListed
<1>3. /\ op' = [op EXCEPT !.phase = "preparing", !.deliveries = d, !.finish = marks.finish]
      /\ flights' = (flights \ Old) \cup CapturedAt(s)
  BY StartIs
<1> HIDE DEF s
<1>4. \A i \in DOMAIN s : s[i] \in Flight /\ s[i] \in flights
  BY <1>1, <1>2 DEF Old, FlightsFit
<1>5. /\ d \in Seq(Entry) /\ DOMAIN d = DOMAIN s
      /\ \A i \in DOMAIN s : d[i].text = s[i].text /\ d[i].status = "sending"
  <2>1. \A i \in DOMAIN s : [text |-> s[i].text, status |-> "sending"] \in Entry
    BY <1>4 DEF Flight, Entry, Statuses
  <2>2. d \in [1..Cardinality(Old) -> Entry]
    BY <1>2, <2>1
  <2> QED
    BY <1>2, <2>2
<1> HIDE DEF d
<1>6. "preparing" \in Phases /\ marks.finish \in 0..MaxTurns
  BY <1>1 DEF Phases, WatchOK
<1>7. /\ op' \in Ops /\ op'.phase = "preparing" /\ op'.finish = marks.finish
      /\ op'.deliveries = d
      /\ op'.intent = op.intent /\ op'.committed = op.committed /\ op'.bound = op.bound
  BY <1>1, <1>3, <1>5, <1>6 DEF Ops, Deliveries, Entry
<1>8. ASSUME NEW i \in DOMAIN s
      PROVE  LET g == [s[i] EXCEPT !.at = i]
             IN /\ g.text = s[i].text /\ g.to = s[i].to /\ g.by = s[i].by
                /\ g.at = i /\ g \in Flight
  BY <1>2, <1>4 DEF Flight
<1>9. ASSUME NEW g \in flights'
      PROVE  \/ g \in flights /\ g.to # "old"
             \/ \E i \in DOMAIN s : /\ g = [s[i] EXCEPT !.at = i]
                                    /\ g.text = s[i].text /\ g.to = s[i].to /\ g.by = s[i].by
                                    /\ g.at = i /\ g \in Flight
  <2>1. CASE g \in flights \ Old
    BY <2>1 DEF Old
  <2>2. CASE g \in CapturedAt(s)
    <3>1. PICK i \in DOMAIN s : g = [s[i] EXCEPT !.at = i]
      BY <2>2 DEF CapturedAt
    <3> QED
      BY <1>8, <3>1
  <2> QED
    BY <1>3, <2>1, <2>2
<1>10. IsFiniteSet(flights')
  <2>1. IsFiniteSet(DOMAIN s)
    BY <1>2, FS_Interval
  <2>2. IsFiniteSet(CapturedAt(s))
    <3> DEFINE cap(i) == [s[i] EXCEPT !.at = i]
               c == [i \in DOMAIN s |-> cap(i)]
    <3> HIDE DEF cap
    <3>1. c \in Surjection(DOMAIN s, {cap(i) : i \in DOMAIN s})
      BY DEF Surjection
    <3>2. IsFiniteSet({cap(i) : i \in DOMAIN s})
      BY <2>1, <3>1, FS_Surjection
    <3> QED
      BY <3>2 DEF CapturedAt, cap
  <2>3. IsFiniteSet(flights \ Old)
    BY <1>1, FS_Subset DEF FlightsFit
  <2> QED
    BY <1>3, <2>2, <2>3, FS_Union
<1> QED
  BY <1>5, <1>7, <1>9, <1>10 DEF Starting, s

LEMMA StartFlights ==
    ASSUME Sound, Starting, op.phase = "none", Moves, Follows(op, op')
    PROVE  FlightsFit'
<1>0. PICK s : s = SetToSeq(Old)
  OBVIOUS
<1>1. /\ FramesFit /\ FlightsFit /\ HistoryOK /\ WatchOK /\ NoneYet
      /\ \A q \in Processes : frames[q].pc # "sent"
      /\ op.deliveries = <<>>
  BY DEF Sound, NoneYet
<1>2. /\ \A i \in DOMAIN s : s[i] \in flights /\ s[i].to = "old" /\ i \in Nat /\ i # 0
      /\ \A i, j \in DOMAIN s : s[i] = s[j] => i = j
  <2>1. \A i \in DOMAIN s : s[i] \in Old /\ i \in Nat /\ i # 0
    BY <1>0, <1>1, OldListed
  <2>2. \A i, j \in DOMAIN s : s[i] = s[j] => i = j
    BY <1>0, <1>1, OldListed
  <2> QED
    BY <2>1, <2>2 DEF Old
<1>3. /\ DOMAIN op'.deliveries = DOMAIN s
      /\ \A i \in DOMAIN s : op'.deliveries[i].text = s[i].text
      /\ \A g \in flights' :
            \/ g \in flights /\ g.to # "old"
            \/ \E i \in DOMAIN s : /\ g = [s[i] EXCEPT !.at = i]
                                   /\ g.text = s[i].text /\ g.to = s[i].to /\ g.by = s[i].by
                                   /\ g.at = i /\ g \in Flight
      /\ IsFiniteSet(flights')
  BY <1>0 DEF Starting
<1>4. ASSUME NEW g \in flights
      PROVE  g \in Flight /\ FlightOK(g)' /\ FlightOK(g) /\ g.at = 0 /\ g.by \notin Processes
  <2>1. g \in Flight /\ FlightOK(g)
    BY <1>1 DEF FlightsFit
  <2>2. FlightOK(g)'
    BY <1>1, <2>1, FlightStays
  <2> QED
    BY <1>1, <2>1, <2>2 DEF FlightOK
<1>5. ASSUME NEW i \in DOMAIN s, NEW g \in Flight, g.text = s[i].text, g.by = s[i].by, g.at = i
      PROVE  FlightOK(g)'
  <2>1. FlightOK(s[i])' /\ s[i].by \notin Processes
    BY <1>2, <1>4
  <2> QED
    BY <1>3, <1>5, <2>1 DEF FlightOK
<1>6. \A g \in flights' : g \in Flight /\ FlightOK(g)'
  BY <1>3, <1>4, <1>5
<1>7. ASSUME NEW f \in flights', NEW g \in flights', f.by = "client", g.by = "client",
             f.text = g.text
      PROVE  f = g
  <2>0. \A a, b \in flights : a.by = "client" /\ b.by = "client" /\ a.text = b.text => a = b
    BY <1>1 DEF FlightsFit
  <2>1. CASE f \in flights /\ f.to # "old" /\ g \in flights /\ g.to # "old"
    BY <1>7, <2>0, <2>1
  <2>2. ASSUME NEW i \in DOMAIN s, f = [s[i] EXCEPT !.at = i], f.text = s[i].text, f.by = s[i].by,
               g \in flights, g.to # "old"
        PROVE  FALSE
    <3>1. s[i] = g
      BY <1>2, <1>7, <2>0, <2>2
    <3> QED
      BY <1>2, <2>2, <3>1
  <2>3. ASSUME NEW i \in DOMAIN s, g = [s[i] EXCEPT !.at = i], g.text = s[i].text, g.by = s[i].by,
               f \in flights, f.to # "old"
        PROVE  FALSE
    <3>1. s[i] = f
      BY <1>2, <1>7, <2>0, <2>3
    <3> QED
      BY <1>2, <2>3, <3>1
  <2>4. ASSUME NEW i \in DOMAIN s, f = [s[i] EXCEPT !.at = i], f.text = s[i].text, f.by = s[i].by,
               NEW j \in DOMAIN s, g = [s[j] EXCEPT !.at = j], g.text = s[j].text, g.by = s[j].by
        PROVE  f = g
    <3>1. s[i] = s[j]
      BY <1>2, <1>7, <2>0, <2>4
    <3>2. i = j
      BY <1>2, <3>1
    <3> QED
      BY <2>4, <3>2
  <2> QED
    BY <1>3, <2>1, <2>2, <2>3, <2>4
<1>8. ASSUME NEW f \in flights', NEW g \in flights', f.at = g.at, f.at # 0
      PROVE  f = g
  <2>1. f \notin flights /\ g \notin flights
    BY <1>4, <1>8
  <2>2. PICK i \in DOMAIN s : f = [s[i] EXCEPT !.at = i] /\ f.at = i
    BY <1>3, <2>1
  <2>3. PICK j \in DOMAIN s : g = [s[j] EXCEPT !.at = j] /\ g.at = j
    BY <1>3, <2>1
  <2> QED
    BY <1>8, <2>2, <2>3
<1> QED
  BY <1>3, <1>6, <1>7, <1>8 DEF FlightsFit

LEMMA SoundStart ==
    ASSUME Sound, Start
    PROVE  Sound'
<1>1. /\ op \in Ops /\ FramesFit /\ FlightsFit /\ WakesFit /\ NoneYet /\ WatchOK /\ HistoryOK
      /\ HostOK
  BY DEF Sound
<1>2. /\ op.phase = "none" /\ Goes("task", "ready")
      /\ signature' = IF marks.signature # 0 THEN marks.signature
                      ELSE IF signature # 0 THEN signature
                      ELSE IF \E f \in Old : f.by = "wake"
                      THEN (CHOOSE f \in Old : f.by = "wake").text.n ELSE 0
      /\ UNCHANGED <<tasks, groups, wakes, marks, worker, process, late, fenced, history, budget>>
  BY StartIs DEF observer
<1>3. Starting
  BY StartFacts
<1>4. op' \in Ops /\ op'.phase = "preparing" /\ op.deliveries = <<>>
  BY <1>1, <1>2, <1>3 DEF Starting, NoneYet
<1>5. Follows(op, op')
  BY <1>4 DEF Follows
<1>6. signature' \in 0..MaxTurns /\ signature' <= worker.turn
  <2>1. CASE marks.signature # 0 \/ signature # 0
    BY <1>1, <1>2, <2>1 DEF WatchOK, WakesFit
  <2>2. CASE marks.signature = 0 /\ signature = 0 /\ \E f \in Old : f.by = "wake"
    <3> DEFINE w == CHOOSE f \in Old : f.by = "wake"
    <3>1. w \in Old /\ w.by = "wake"
      BY <2>2
    <3>2. signature' = w.text.n
      BY <1>2, <2>2
    <3> HIDE DEF w
    <3>3. w \in Flight /\ FlightOK(w)
      BY <1>1, <3>1 DEF Old, FlightsFit
    <3>4. w.text \in Texts /\ w.text.kind = "report" /\ w.text.n <= worker.turn
      BY <3>1, <3>3 DEF Flight, FlightOK
    <3>5. w.text.n \in 1..MaxTurns
      BY <3>4, TextTypes
    <3> QED
      BY <3>2, <3>4, <3>5, BoundsAssumption
  <2>3. CASE signature' = 0
    BY <1>1, <2>3, Numbers, BoundsAssumption
  <2> QED
    BY <1>2, <2>1, <2>2, <2>3
<1>7. WatchOK' /\ HistoryOK' /\ HostOK'
  BY <1>1, <1>2, <1>6 DEF WatchOK, HistoryOK, HostOK, history
<1>8. Moves
  BY <1>1, <1>2, <1>7, Numbers DEF Moves
<1>9. FlightsFit'
  BY <1>2, <1>3, <1>5, <1>8, StartFlights
<1>10. Turns("task", Gone("task", "ready")) /\ FrameOK(Gone("task", "ready"), op'.deliveries)
  <2>1. "ready" \in Steps /\ "ready" \notin Flushes \cup {"sent", "resolved", "release"}
    BY DEF Steps, Flushes
  <2> QED
    BY <1>1, <1>2, <2>1, GoesFacts, Managing
<1>11. FramesFit'
  BY <1>1, <1>5, <1>10, FramesTurn, Managing
<1>12. WakesFit'
  <2>1. Outside
    BY <1>1, <1>2, Managing, NotFlushing DEF NoneYet
  <2> QED
    BY <1>1, <1>2, <1>6, <2>1 DEF WakesFit, Outside
<1>13. NoneYet'
  BY <1>4 DEF NoneYet
<1> QED
  BY <1>4, <1>7, <1>9, <1>11, <1>12, <1>13 DEF Sound

-----------------------------------------------------------------------------
(* The types: the restart of the hub                                       *)

LEMMA RecoveredFacts ==
    ASSUME NEW o \in Ops
    PROVE  /\ Recovered(o) \in Ops /\ Shut(o, Recovered(o))
           /\ Recovered(o).intent = o.intent /\ Recovered(o).committed = o.committed
           /\ Recovered(o).finish = o.finish
           /\ Recovered(o).phase = IF o.phase \in Over \cup {"none"} THEN o.phase
                                   ELSE "recovery-required"
           /\ Recovered(o).bound = (o.bound /\ o.phase \in Over)
<1> DEFINE d == [i \in DOMAIN o.deliveries |->
                  IF o.deliveries[i].status = "sending"
                  THEN [o.deliveries[i] EXCEPT !.status = "uncertain"] ELSE o.deliveries[i]]
           ph == IF o.phase \in Over \cup {"none"} THEN o.phase ELSE "recovery-required"
           b == o.bound /\ o.phase \in Over
           p == Recovered(o)
<1>1. p = [o EXCEPT !.bound = b, !.phase = ph, !.deliveries = d]
  BY DEF Recovered
<1>2. /\ d \in Deliveries /\ DOMAIN d = DOMAIN o.deliveries
      /\ \A i \in DOMAIN o.deliveries :
            /\ d[i].text = o.deliveries[i].text
            /\ d[i].status = IF o.deliveries[i].status = "sending" THEN "uncertain"
                             ELSE o.deliveries[i].status
  BY Shutting
<1>3. ph \in Phases /\ b \in BOOLEAN
  BY Entries DEF Phases
<1> HIDE DEF d, ph, b, p
<1>4. /\ p \in Ops /\ p.deliveries = d /\ p.phase = ph /\ p.intent = o.intent
      /\ p.committed = o.committed /\ p.bound = b /\ p.finish = o.finish
  BY <1>1, <1>2, <1>3 DEF Ops
<1>5. Shut(o, p)
  BY <1>2, <1>4 DEF Shut
<1> QED
  BY <1>4, <1>5 DEF p, ph, b

LEMMA RestartTaken ==
    ASSUME HistoryOK, Restart
    PROVE  /\ taken' \in [Texts -> Nat]
           /\ \A t \in Texts : taken'[t] \in {taken[t], taken[t] + 1}
<1>1. PICK reached : taken' = [text \in Texts |-> taken[text] +
                                  IF \E f \in reached : f.text = text THEN 1 ELSE 0]
  BY DEF Restart
<1>2. taken \in [Texts -> Nat]
  BY DEF HistoryOK
<1> QED
  BY <1>1, <1>2

LEMMA NoEntries ==
    ASSUME NEW s \in Seq(Entry), DOMAIN s = DOMAIN << >>
    PROVE  s = << >>
<1>1. Len(s) \in Nat /\ 1..Len(s) = {}
  OBVIOUS
<1>2. Len(s) = 0
  BY <1>1
<1> QED
  BY <1>2

LEMMA SoundRestart ==
    ASSUME Sound, Restart
    PROVE  Sound'
<1>1. /\ op \in Ops /\ NoneYet /\ WatchOK /\ HistoryOK /\ HostOK /\ WakesFit
  BY DEF Sound
<1>2. /\ Spend("restarts") /\ op' = Recovered(op)
      /\ fenced' = (op.intent /\ op.phase # "complete")
      /\ frames' = [q \in Processes |-> Idle]
      /\ flights' = {} /\ late' = FALSE
      /\ wakes' = [m \in Managers |-> NoWake]
      /\ process' = [m \in Managers |-> IF process[m] = "live" THEN "ended" ELSE process[m]]
      /\ worker' = [worker EXCEPT !.busy = FALSE]
      /\ \/ groups' = {} /\ marks' = [signature |-> 0, finish |-> 0]
         \/ /\ groups' = {Owner(op)}
            /\ marks' = [signature |-> signature, finish |-> 0]
      /\ UNCHANGED <<signature, tasks, allowed, promised, cancelled>>
  BY DEF Restart
<1>3. /\ op' \in Ops /\ (op'.phase = "none" => op.phase = "none")
      /\ Shut(op, op') /\ op'.intent = op.intent /\ op'.committed = op.committed
      /\ op'.bound \in BOOLEAN /\ (op'.bound => op.bound)
  BY <1>1, <1>2, RecoveredFacts, Entries
<1>4. frames' \in [Processes -> Frames] /\ \A q \in Processes : frames'[q] = Idle
  BY <1>2, IdleFrame
<1>5. FramesFit'
  BY <1>4, IdleFrame DEF FramesFit
<1>6. FlightsFit'
  BY <1>2, FS_EmptySet DEF FlightsFit
<1>7. /\ worker' \in [turn : 0..MaxTurns, busy : BOOLEAN] /\ worker'.turn = worker.turn
  BY <1>1, <1>2 DEF WatchOK
<1>8. /\ marks' \in [signature : 0..MaxTurns, finish : 0..MaxTurns]
      /\ marks'.signature \in {0, signature}
  BY <1>1, <1>2, BoundsAssumption DEF WatchOK
<1>9. /\ wakes' \in [Managers -> Wake]
      /\ \A m \in Managers : wakes'[m].pc = "idle" /\ wakes'[m].turn = 0 /\ ~wakes'[m].inline
  <2>1. NoWake \in Wake /\ NoWake.pc = "idle" /\ NoWake.turn = 0 /\ ~NoWake.inline
    BY BoundsAssumption DEF NoWake, Wake
  <2> QED
    BY <1>2, <2>1
<1>10. WatchOK'
  BY <1>1, <1>2, <1>7, <1>8, <1>9, Targets DEF WatchOK
<1>11. WakesFit'
  <2>1. worker.turn \in Nat /\ worker'.turn = worker.turn
    BY <1>1, <1>7, Numbers
  <2>2. \A m \in Managers : wakes'[m].turn <= worker'.turn
    BY <1>9, <2>1
  <2>3. signature' <= worker'.turn
    BY <1>1, <1>2, <2>1, TurnsRemembered
  <2>4. marks'.signature <= worker'.turn
    BY <1>1, <1>8, <2>1, TurnsRemembered
  <2> QED
    BY <1>9, <2>2, <2>3, <2>4, Managing DEF WakesFit
<1>12. NoneYet'
  <2>1. op'.phase = "none" => op'.deliveries = <<>>
    <3>1. ASSUME op'.phase = "none" PROVE op'.deliveries = <<>>
      <4>1. op.deliveries = <<>> /\ DOMAIN op'.deliveries = DOMAIN op.deliveries
        BY <1>1, <1>3, <3>1 DEF NoneYet, Shut
      <4>2. op'.deliveries \in Seq(Entry) /\ Len(op'.deliveries) \in Nat
            /\ DOMAIN op'.deliveries = 1..Len(op'.deliveries)
        BY <1>3, Entries
      <4> QED
        BY <4>1, <4>2, NoEntries
    <3> QED
      BY <3>1
  <2> QED
    BY <1>1, <1>3, <1>4, <2>1, IdleFrame DEF NoneYet
<1>13. HistoryOK'
  <2>1. taken' \in [Texts -> Nat]
    BY <1>1, RestartTaken
  <2>2. budget' = [budget EXCEPT !["restarts"] = @ - 1] /\ budget.restarts > 0
    BY <1>2 DEF Spend
  <2>3. /\ budget \in [messages : 0..MaxMessages, requests : 0..MaxRequests,
                       faults : 0..MaxFaults, restarts : 0..MaxRestarts]
        /\ budget.restarts - 1 \in 0..MaxRestarts
    BY <1>1, <2>2, BoundsAssumption DEF HistoryOK
  <2>4. /\ budget' \in [messages : 0..MaxMessages, requests : 0..MaxRequests,
                       faults : 0..MaxFaults, restarts : 0..MaxRestarts]
        /\ budget'.requests = budget.requests
    BY <2>2, <2>3
  <2> QED
    BY <1>1, <1>2, <2>1, <2>4 DEF HistoryOK
<1>14. HostOK'
  <2>1. /\ tasks' \in Managers /\ late' \in BOOLEAN /\ fenced' \in BOOLEAN
    BY <1>1, <1>2 DEF HostOK
  <2>2. process' \in [Managers -> {"absent", "live", "ended"}]
    BY <1>1, <1>2 DEF HostOK
  <2> QED
    BY <2>1, <2>2 DEF HostOK
<1> QED
  BY <1>3, <1>5, <1>6, <1>10, <1>11, <1>12, <1>13, <1>14 DEF Sound

-----------------------------------------------------------------------------
(* The types                                                               *)

LEMMA SoundInit ==
    ASSUME Init
    PROVE  Sound
<1>1. "none" \in Phases /\ << >> \in Deliveries /\ 0 \in 0..MaxTurns
  BY BoundsAssumption DEF Phases, Deliveries
<1>2. op \in Ops
  BY <1>1 DEF Init, Ops
<1>3. FramesFit
  BY IdleFrame DEF Init, FramesFit
<1>4. FlightsFit
  BY FS_EmptySet DEF Init, FlightsFit
<1>5. NoWake \in Wake /\ NoWake.pc = "idle" /\ NoWake.turn = 0 /\ ~NoWake.inline
  BY <1>1 DEF NoWake, Wake
<1>6. WakesFit
  <2>1. /\ wakes = [m \in Managers |-> NoWake] /\ worker.turn = 0
        /\ signature = 0 /\ marks.signature = 0
    BY DEF Init
  <2>2. \A m \in Managers :
            wakes[m].pc = "idle" /\ wakes[m].turn <= worker.turn /\ ~wakes[m].inline
    BY <1>5, <2>1
  <2>3. /\ signature <= worker.turn /\ marks.signature <= worker.turn
        /\ ~wakes["old"].inline /\ ~wakes["new"].inline
    BY <2>1, <2>2, Managing
  <2> QED
    BY <2>2, <2>3 DEF WakesFit
<1>7. NoneYet
  BY IdleFrame DEF Init, NoneYet
<1>8. WatchOK
  BY <1>1, <1>5 DEF Init, WatchOK
<1>9. HistoryOK
  <2>1. /\ taken = [text \in Texts |-> 0] /\ allowed = [text \in Texts |-> 0]
        /\ promised = {} /\ cancelled = FALSE
        /\ budget = [messages |-> MaxMessages, requests |-> MaxRequests, faults |-> MaxFaults,
                     restarts |-> MaxRestarts]
    BY DEF Init
  <2>2. /\ taken \in [Texts -> Nat] /\ allowed \in [Texts -> 0..MaxRequests]
        /\ \A t \in Texts : allowed[t] = 0
    BY <2>1, BoundsAssumption
  <2>3. /\ budget \in [messages : 0..MaxMessages, requests : 0..MaxRequests,
                       faults : 0..MaxFaults, restarts : 0..MaxRestarts]
        /\ budget.requests = MaxRequests
    BY <2>1, BoundsAssumption
  <2>4. \A t \in Texts : allowed[t] + budget.requests <= MaxRequests
    BY <2>2, <2>3, BoundsAssumption
  <2> QED
    BY <2>1, <2>2, <2>3, <2>4 DEF HistoryOK
<1>10. HostOK
  BY Managing DEF Init, HostOK
<1> QED
  BY <1>2, <1>3, <1>4, <1>6, <1>7, <1>8, <1>9, <1>10 DEF Sound

LEMMA SoundUnchanged ==
    ASSUME Sound, UNCHANGED vars
    PROVE  Sound'
<1>1. UNCHANGED <<op, signature, tasks, frames, flights, groups, wakes, marks, worker, process,
                  late, fenced, taken, allowed, promised, cancelled, budget>>
  BY DEF vars, journal, observer, history
<1>2. op' \in Ops /\ FramesFit' /\ FlightsFit'
  BY <1>1 DEF Sound, FramesFit, FlightsFit, FlightOK, Fly
<1>3. WakesFit' /\ NoneYet' /\ WatchOK' /\ HistoryOK' /\ HostOK'
  BY <1>1 DEF Sound, WakesFit, NoneYet, WatchOK, HistoryOK, HostOK
<1> QED
  BY <1>2, <1>3 DEF Sound

LEMMA SoundStep ==
    ASSUME Sound, [Next]_vars
    PROVE  Sound'
<1>1. CASE Sends
  BY <1>1, SoundSend DEF Sends
<1>2. CASE FlightEnds
  BY <1>2, SoundSendEnds, SoundWakeSent DEF FlightEnds
<1>3. CASE WorkerStarts \/ WorkerEnds
  BY <1>3, SoundWorkerStarts, SoundWorkerEnds
<1>4. CASE \E m \in Managers : WakeStep(m)
  BY <1>4, SoundWakeBegins, SoundWakeCaptured, SoundWakeRecorded, SoundWakeSends DEF WakeStep
<1>5. ASSUME NEW q \in Processes, Common(q) PROVE Sound'
  BY <1>5, SoundSentEnds, SoundRelease, SoundEnd, SoundAdopt, SoundReparentFails, SoundClose
     DEF Common, Transfer
<1>6. CASE Prepare
  BY <1>6, SoundReady, SoundBrief, SoundReceipt, SoundValidated, SoundSpawn, SoundCheck,
     SoundCheckFails, SoundIntend, SoundCommit DEF Prepare
<1>7. CASE Flush
  BY <1>7, SoundDrain, SoundDrained, SoundSettle, SoundDrainFails DEF Flush
<1>8. CASE Fail \/ Activate \/ KicksOff \/ KickoffFails \/ Evidence \/ Finish
  BY <1>8, SoundFail, SoundActivate, SoundKicksOff, SoundKickoffFails, SoundEvidence,
     SoundFinish
<1>9. CASE Reconciled \/ Resolved
  BY <1>9, SoundReconciled, SoundResolved
<1>10. CASE Start \/ Cancel \/ Reconcile \/ Resolve \/ Bind
  BY <1>10, SoundStart, SoundCancel, SoundReconcile, SoundResolve, SoundBind
<1>11. CASE SpawnsLate \/ Restart \/ \E m \in Managers : Exits(m) \/ Resumes(m)
  BY <1>11, SoundSpawnsLate, SoundRestart, SoundExits, SoundResumes
<1>12. CASE UNCHANGED vars
  BY <1>12, SoundUnchanged
<1> QED
  BY <1>1, <1>2, <1>3, <1>4, <1>5, <1>6, <1>7, <1>8, <1>9, <1>10, <1>11, <1>12, Managing
     DEF Next, TaskStep, RequestStep, Requests

LEMMA HandoffSound == Spec => []Sound
  BY SoundInit, SoundStep, PTL DEF Spec

(* Whatever the bounds, the variables of the handoff keep their types: in   *)
(* particular every frame and every send still refers to the entry it was   *)
(* begun for.                                                              *)
THEOREM HandoffTypeCorrect == Spec => []TypeOK
  BY HandoffSound, SoundTypes, PTL

-----------------------------------------------------------------------------
(* Steps that neither begin a send nor hear of one                         *)

(* Apart from what they do to the phases, to the frames that await no send, *)
(* to the wakes and to the managers, nothing changes.                      *)
Quiet ==
    /\ op'.deliveries = op.deliveries
    /\ UNCHANGED <<flights, taken, allowed, promised>>
    /\ budget'.messages = budget.messages
    /\ \A q \in Processes : frames[q].pc = "sent" \/ frames'[q].pc = "sent" =>
           frames'[q] = frames[q]
    /\ signature' = signature /\ marks'.signature \in {marks.signature, signature}

LEMMA QuietTurn ==
    ASSUME NEW q \in Processes, NEW f, Turns(q, f), f.pc # "sent", frames[q].pc # "sent"
    PROVE  \A r \in Processes : frames[r].pc = "sent" \/ frames'[r].pc = "sent" =>
               frames'[r] = frames[r]
  BY DEF Turns

LEMMA QuietKeeping ==
    ASSUME Sound, op'.deliveries = op.deliveries,
           UNCHANGED <<flights, signature, marks, taken, allowed, promised>>,
           UNCHANGED budget \/ Fault \/ Spend("requests"),
           NEW q \in Processes, frames[q].pc # "sent",
           \/ Ends(q) \/ \E pc \in Steps \ {"sent"} : Goes(q, pc)
           \/ \E f : f \in Frames /\ f.pc # "sent" /\ frames' = [frames EXCEPT ![q] = f]
    PROVE  Quiet
<1>1. FramesFit /\ HistoryOK
  BY DEF Sound
<1>2. budget'.messages = budget.messages
  <2>1. budget \in [messages : 0..MaxMessages, requests : 0..MaxRequests,
                    faults : 0..MaxFaults, restarts : 0..MaxRestarts]
    BY <1>1 DEF HistoryOK
  <2> QED
    BY <2>1 DEF Fault, Spend
<1>3. \E f : Turns(q, f) /\ f.pc # "sent"
  <2>1. CASE Ends(q)
    BY <1>1, <2>1, EndsFacts, IdleFrame
  <2>2. ASSUME NEW pc \in Steps \ {"sent"}, Goes(q, pc)
        PROVE  \E f : Turns(q, f) /\ f.pc # "sent"
    BY <1>1, <2>2, GoesFacts
  <2>3. ASSUME NEW f \in Frames, f.pc # "sent", frames' = [frames EXCEPT ![q] = f]
        PROVE  \E g : Turns(q, g) /\ g.pc # "sent"
    BY <1>1, <2>3, TurnsMade
  <2> QED
    BY <2>1, <2>2, <2>3
<1>4. \A r \in Processes : frames[r].pc = "sent" \/ frames'[r].pc = "sent" =>
          frames'[r] = frames[r]
  BY <1>3, QuietTurn
<1> QED
  BY <1>2, <1>4 DEF Quiet

LEMMA Speechless ==
    /\ \A pc \in {"idle", "end", "close", "adopt", "reparent", "ready", "brief", "receipt",
                  "validated", "spawn", "check", "recheck", "intend", "fail", "activate",
                  "kickoff", "evidence", "finish", "drain", "wait", "wait new", "settle"} :
           pc \in Steps \ {"sent"}
  BY DEF Steps

LEMMA PhaseOnly ==
    ASSUME op \in Ops
    PROVE  /\ \A ph : [op EXCEPT !.phase = ph].deliveries = op.deliveries
           /\ \A ph, c : [op EXCEPT !.committed = c, !.phase = ph].deliveries = op.deliveries
           /\ \A i : [op EXCEPT !.intent = i].deliveries = op.deliveries
           /\ \A b : [op EXCEPT !.bound = b].deliveries = op.deliveries
           /\ \A n : [op EXCEPT !.finish = n].deliveries = op.deliveries
  BY DEF Ops

LEMMA QuietCommon ==
    ASSUME Sound, NEW q \in Processes, End(q) \/ Adopt(q) \/ ReparentFails(q) \/ Close(q)
    PROVE  Quiet
<1>0. FramesFit /\ op \in Ops
  BY DEF Sound
<1>1. CASE End(q)
  BY <1>1, QuietKeeping DEF End, At, journal, observer, history
<1>2. CASE Adopt(q)
  <2>1. op'.deliveries = op.deliveries
    BY <1>0, <1>2, PhaseOnly DEF Adopt
  <2>2. frames[q].pc = "adopt" /\ (UNCHANGED budget \/ Fault)
        /\ UNCHANGED <<flights, signature, marks, taken, allowed, promised>>
    BY <1>2 DEF Adopt, At, observer, history
  <2>3. Goes(q, "reparent") \/ Goes(q, IF q = "task" THEN "fail" ELSE "idle")
    BY <1>2 DEF Adopt
  <2>4. /\ "reparent" \in Steps \ {"sent"}
        /\ (IF q = "task" THEN "fail" ELSE "idle") \in Steps \ {"sent"}
    BY Speechless
  <2>5. \E pc \in Steps \ {"sent"} : Goes(q, pc)
    BY <2>3, <2>4
  <2> QED
    BY <2>1, <2>2, <2>5, QuietKeeping
<1>3. CASE ReparentFails(q)
  <2>1. (IF q = "task" THEN "fail" ELSE "idle") \in Steps \ {"sent"}
    BY Speechless
  <2> QED
    BY <1>3, <2>1, QuietKeeping DEF ReparentFails, At, journal, observer, history
<1>4. CASE Close(q)
  <2>1. Ending(q) \in {"evidence", "finish", "end", "idle"} /\ Releases(q, "old", Ending(q))
    BY <1>4 DEF Ending, Close
  <2>2. \E f \in Frames : f.pc = "release" /\ frames' = [frames EXCEPT ![q] = f]
    BY <1>0, <2>1, ReleasesFrame, Managing
  <2>3. \E f : f \in Frames /\ f.pc # "sent" /\ frames' = [frames EXCEPT ![q] = f]
    BY <2>2
  <2> QED
    BY <1>4, <2>3, QuietKeeping DEF Close, At, journal, observer, history
<1> QED
  BY <1>1, <1>2, <1>3, <1>4

LEMMA QuietPrepares ==
    ASSUME Sound, Ready \/ Receipt \/ Validated \/ Spawn \/ Check \/ CheckFails \/ Intend \/ Commit
    PROVE  Quiet
<1>0. FramesFit /\ op \in Ops
  BY DEF Sound
<1> DEFINE Rest == /\ UNCHANGED <<flights, signature, marks, taken, allowed, promised>>
                   /\ UNCHANGED budget \/ Fault
                   /\ frames["task"].pc # "sent"
<1>1. CASE Ready
  <2>1. Rest /\ op'.deliveries = op.deliveries
    BY <1>1 DEF Ready, At, TaskFails, journal, observer, history
  <2>2. CASE frames' = [frames EXCEPT !["task"] = [Idle EXCEPT !.pc = "drain", !.then = "brief"]]
    BY <2>1, <2>2, DrainFrame, QuietKeeping, Managing
  <2>3. CASE frames' = [frames EXCEPT !["task"] = Idle]
    BY <2>1, <2>3, IdleFrame, QuietKeeping, Managing
  <2>4. CASE Goes("task", "fail")
    BY <2>1, <2>4, Speechless, QuietKeeping, Managing
  <2> QED
    BY <1>1, <2>2, <2>3, <2>4 DEF Ready, TaskFails
<1>2. CASE Receipt
  BY <1>2, Speechless, QuietKeeping, Managing
     DEF Receipt, At, TaskFails, journal, observer, history
<1>3. CASE Validated
  <2>1. op'.deliveries = op.deliveries
    BY <1>0, <1>3, PhaseOnly DEF Validated
  <2> QED
    BY <1>3, <2>1, Speechless, QuietKeeping, Managing
       DEF Validated, At, TaskFails, observer, history
<1>4. CASE Spawn
  BY <1>4, Speechless, QuietKeeping, Managing
     DEF Spawn, At, TaskFails, journal, observer, history
<1>5. CASE Check
  <2>1. (IF Live("new") THEN "recheck" ELSE "fail") \in Steps \ {"sent"}
    BY Speechless
  <2>2. Ends("task") \/ \E pc \in Steps \ {"sent"} : Goes("task", pc)
    BY <1>5, <2>1, Speechless DEF Check
  <2>3. frames["task"].pc # "sent"
    BY <1>5 DEF Check, At
  <2> QED
    BY <1>5, <2>2, <2>3, QuietKeeping, Managing DEF Check, journal, observer, history
<1>6. CASE CheckFails
  BY <1>6, Speechless, QuietKeeping, Managing
     DEF CheckFails, At, TaskFails, journal, observer, history
<1>7. CASE Intend
  <2>1. op'.deliveries = op.deliveries
    <3>1. CASE op' = [op EXCEPT !.phase = "transferring", !.intent = TRUE]
      <4>1. "transferring" \in Phases /\ TRUE \in BOOLEAN
        BY DEF Phases
      <4> QED
        BY <1>0, <3>1, <4>1, PhaseIntentSet
    <3>2. CASE op' = op
      BY <3>2
    <3> QED
      BY <1>7, <3>1, <3>2 DEF Intend
  <2> QED
    BY <1>7, <2>1, Speechless, QuietKeeping, Managing DEF Intend, At, observer, history
<1>8. CASE Commit
  <2>1. op'.deliveries = op.deliveries
    BY <1>0, <1>8, PhaseOnly DEF Commit
  <2> QED
    BY <1>8, <2>1, Speechless, QuietKeeping, Managing DEF Commit, At, observer, history
<1> QED
  BY <1>1, <1>2, <1>3, <1>4, <1>5, <1>6, <1>7, <1>8

LEMMA QuietFlush ==
    ASSUME Sound, Drained \/ Settle \/ \E m \in Managers : Drain(m)
    PROVE  Quiet
<1>0. FramesFit /\ op \in Ops
  BY DEF Sound
<1>1. CASE Drained
  BY <1>1, Speechless, QuietKeeping, Managing DEF Drained, At, journal, observer, history
<1>2. CASE Settle
  <2>1. frames["task"].pc = "settle" /\ Follow(frames["task"])
    BY <1>0, <1>2, Managing DEF Settle, At, FramesFit, FrameOK
  <2>2. CASE Goes("task", "brief")
    BY <1>2, <2>1, <2>2, Speechless, QuietKeeping, Managing
       DEF Settle, journal, observer, history
  <2>3. CASE frames["task"].then # "brief" /\ Releases("task", "new", frames["task"].then)
    <3>1. frames["task"].then \in {"evidence", "finish", "end", "idle"}
      BY <2>1, <2>3 DEF Follow, Flushes
    <3>2. \E f \in Frames : f.pc = "release" /\ frames' = [frames EXCEPT !["task"] = f]
      BY <1>0, <2>3, <3>1, ReleasesFrame, Managing
    <3>3. \E f : f \in Frames /\ f.pc # "sent" /\ frames' = [frames EXCEPT !["task"] = f]
      BY <3>2
    <3> QED
      BY <1>2, <2>1, <3>3, QuietKeeping, Managing DEF Settle, journal, observer, history
  <2> QED
    BY <1>2, <2>2, <2>3 DEF Settle
<1>3. ASSUME NEW m \in Managers, Drain(m) PROVE Quiet
  <2>1. frames["task"].pc # "sent" /\ Goes("task", IF m = "old" THEN "wait" ELSE "wait new")
        /\ (IF m = "old" THEN "wait" ELSE "wait new") \in Steps \ {"sent"}
    BY <1>3, Speechless DEF Drain, At
  <2>2. /\ UNCHANGED <<op, flights, signature, marks, taken, allowed, promised, budget>>
    BY <1>3 DEF Drain, journal, history
  <2> QED
    BY <2>1, <2>2, QuietKeeping, Managing
<1> QED
  BY <1>1, <1>2, <1>3

LEMMA QuietCompletes ==
    ASSUME Sound, Activate \/ KickoffFails \/ Evidence \/ Finish
    PROVE  Quiet
<1>0. FramesFit /\ op \in Ops
  BY DEF Sound
<1>1. CASE Activate
  BY <1>1, Speechless, QuietKeeping, Managing DEF Activate, At, journal, observer, history
<1>2. CASE KickoffFails
  BY <1>2, Speechless, QuietKeeping, Managing
     DEF KickoffFails, At, TaskFails, journal, observer, history
<1>3. CASE Evidence
  <2>1. /\ UNCHANGED <<op, flights, signature, marks, taken, allowed, promised>>
        /\ UNCHANGED budget \/ Fault
        /\ frames["task"].pc # "sent"
    BY <1>3 DEF Evidence, At, TaskFails, journal, observer, history
  <2>2. CASE frames' = [frames EXCEPT !["task"] = [Idle EXCEPT !.pc = "drain", !.then = "finish"]]
    BY <2>1, <2>2, DrainFrame, QuietKeeping, Managing
  <2>3. CASE Goes("task", "fail")
    BY <2>1, <2>3, Speechless, QuietKeeping, Managing
  <2> QED
    BY <1>3, <2>2, <2>3 DEF Evidence, TaskFails
<1>4. CASE Finish
  <2>1. op'.deliveries = op.deliveries
    BY <1>0, <1>4, PhaseOnly DEF Finish
  <2> QED
    BY <1>4, <2>1, Speechless, QuietKeeping, Managing DEF Finish, At, observer, history
<1> QED
  BY <1>1, <1>2, <1>3, <1>4

LEMMA QuietReconciles ==
    ASSUME Sound, Reconciles \/ Cancels, frames["request"].pc # "sent",
           UNCHANGED budget \/ Spend("requests")
    PROVE  Quiet
<1>0. op \in Ops
  BY DEF Sound
<1>1. CASE Cancels
  <2>1. op'.deliveries = op.deliveries
    BY <1>0, <1>1, PhaseOnly DEF Cancels
  <2> QED
    BY <1>1, <2>1, Speechless, QuietKeeping, Managing DEF Cancels, observer
<1>2. CASE /\ Goes("request", IF Live("new") THEN "adopt" ELSE "idle")
           /\ UNCHANGED <<journal, flights, observer, worker, process, late, fenced, history>>
  <2>1. (IF Live("new") THEN "adopt" ELSE "idle") \in Steps \ {"sent"}
    BY Speechless
  <2> QED
    BY <1>2, <2>1, QuietKeeping, Managing DEF journal, observer, history
<1> QED
  BY <1>1, <1>2 DEF Reconciles

LEMMA QuietRequests ==
    ASSUME Sound, Cancel \/ Reconcile \/ Reconciled \/ Resolved \/ Bind
    PROVE  Quiet
<1>0. FramesFit /\ op \in Ops /\ frames \in [Processes -> Frames]
  BY DEF Sound, FramesFit
<1>1. CASE Cancel \/ Reconcile
  BY <1>1, QuietReconciles DEF Cancel, Reconcile, Admitted, At
<1>2. ASSUME NEW pc \in {"activate", "ready"}, NEW fs \in [Processes -> Frames],
             fs["task"] = frames["task"], fs["request"].pc # "sent",
             frames["request"].pc # "sent" \/ fs["request"] = frames["request"],
             frames' = fs \/ frames' = Runs(fs, pc)
      PROVE  \A q \in Processes : frames[q].pc = "sent" \/ frames'[q].pc = "sent" =>
                 frames'[q] = frames[q]
  <2>1. Plain(pc) /\ pc # "sent"
    BY PlainSteps
  <2>2. \A q \in Processes : \/ frames'[q] = fs[q]
                             \/ q = "task" /\ fs[q].pc = "idle" /\ frames'[q].pc = pc
    BY <1>2, <2>1, RunsFacts
  <2> QED
    BY <1>2, <2>1, <2>2, Managing
<1>3. CASE Reconciled
  <2>1. op'.deliveries = op.deliveries
    BY <1>0, <1>3, PhaseOnly DEF Reconciled
  <2>2. marks'.signature \in {marks.signature, signature}
    <3>1. marks \in [signature : 0..MaxTurns, finish : 0..MaxTurns]
      BY DEF Sound, WatchOK
    <3> QED
      BY <1>3, <3>1 DEF Reconciled
  <2> DEFINE done == [frames EXCEPT !["request"] = Idle]
  <2>3. /\ done \in [Processes -> Frames] /\ done["request"].pc # "sent"
        /\ done["task"] = frames["task"]
    BY <1>0, IdleFrame, Managing
  <2>4. frames' = done \/ frames' = Runs(done, "activate")
    BY <1>3 DEF Reconciled
  <2>5. frames["request"].pc # "sent"
    BY <1>3 DEF Reconciled, At
  <2> HIDE DEF done
  <2>6. \A q \in Processes : frames[q].pc = "sent" \/ frames'[q].pc = "sent" =>
            frames'[q] = frames[q]
    BY <1>2, <2>3, <2>4, <2>5
  <2>7. UNCHANGED <<flights, signature, taken, allowed, promised, budget>>
    BY <1>3 DEF Reconciled, history
  <2> QED
    BY <2>1, <2>2, <2>6, <2>7 DEF Quiet
<1>4. CASE Resolved
  <2>0. frames["request"].pc = "resolved" /\ UNCHANGED budget
    BY <1>4 DEF Resolved, At
  <2>1. CASE /\ op' = [op EXCEPT !.phase = "preparing"]
             /\ frames' = Runs([frames EXCEPT !["request"] = Idle], "ready")
             /\ UNCHANGED <<signature, tasks, flights, observer, worker, process, late, fenced,
                            history>>
    <3> DEFINE done == [frames EXCEPT !["request"] = Idle]
    <3>1. /\ done \in [Processes -> Frames] /\ done["request"].pc # "sent"
          /\ done["task"] = frames["task"] /\ frames' = Runs(done, "ready")
      BY <1>0, <2>1, IdleFrame, Managing
    <3> HIDE DEF done
    <3>2. \A q \in Processes : frames[q].pc = "sent" \/ frames'[q].pc = "sent" =>
              frames'[q] = frames[q]
      BY <1>2, <2>0, <3>1
    <3>3. op'.deliveries = op.deliveries
      BY <1>0, <2>1, PhaseOnly
    <3> QED
      BY <2>0, <2>1, <3>2, <3>3 DEF Quiet, observer, history
  <2>2. CASE /\ Ends("request")
             /\ UNCHANGED <<journal, flights, observer, worker, process, late, fenced, history>>
    BY <2>0, <2>2, QuietKeeping, Managing DEF journal, observer, history
  <2>3. CASE Reconciles
    BY <2>0, <2>3, QuietReconciles
  <2> QED
    BY <1>4, <2>1, <2>2, <2>3 DEF Resolved
<1>5. CASE Bind
  <2>1. op'.deliveries = op.deliveries
    BY <1>0, <1>5, PhaseOnly DEF Bind
  <2>2. frames' = frames \/ frames' = Runs(frames, "activate")
    BY <1>5 DEF Bind
  <2>3. \A q \in Processes : \/ frames'[q] = frames[q]
                             \/ q = "task" /\ frames[q].pc = "idle" /\ frames'[q].pc = "activate"
    BY <1>0, <2>2, RunsFacts, PlainSteps
  <2> QED
    BY <1>5, <2>1, <2>3 DEF Bind, Quiet, observer, history
<1> QED
  BY <1>1, <1>3, <1>4, <1>5

LEMMA QuietHost ==
    ASSUME Sound, \/ WorkerStarts \/ WorkerEnds \/ SpawnsLate
                  \/ \E m \in Managers : WakeBegins(m) \/ WakeCaptured(m) \/ WakeRecorded(m)
                                         \/ Exits(m) \/ Resumes(m)
    PROVE  Quiet
<1>0. /\ op \in Ops /\ WatchOK /\ HistoryOK
      /\ marks \in [signature : 0..MaxTurns, finish : 0..MaxTurns]
  BY DEF Sound, WatchOK
<1>1. CASE WorkerStarts
  BY <1>0, <1>1 DEF WorkerStarts, Quiet, journal, history
<1>2. CASE WorkerEnds
  BY <1>2 DEF WorkerEnds, Quiet, journal, history
<1>3. CASE SpawnsLate
  BY <1>3 DEF SpawnsLate, Quiet, journal, history, observer
<1>4. ASSUME NEW m \in Managers, WakeBegins(m) \/ WakeCaptured(m) PROVE Quiet
  BY <1>4 DEF WakeBegins, WakeCaptured, Quiet, journal, history
<1>5. ASSUME NEW m \in Managers, WakeRecorded(m) PROVE Quiet
  <2>0. op' = op \/ op' = [op EXCEPT !.finish = worker.turn]
    BY <1>5 DEF WakeRecorded
  <2>1. op'.deliveries = op.deliveries
    BY <1>0, <2>0, PhaseOnly
  <2>2. marks'.signature = marks.signature
    BY <1>0, <1>5 DEF WakeRecorded
  <2> QED
    BY <1>5, <2>1, <2>2 DEF WakeRecorded, Quiet, history
<1>6. ASSUME NEW m \in Managers, Resumes(m) PROVE Quiet
  BY <1>6 DEF Resumes, Quiet, journal, history, observer
<1>7. ASSUME NEW m \in Managers, Exits(m) PROVE Quiet
  <2>1. budget'.messages = budget.messages
    BY <1>0, <1>7 DEF Exits, Fault, Spend, HistoryOK
  <2> QED
    BY <1>7, <2>1 DEF Exits, Quiet, journal, history, observer
<1> QED
  BY <1>1, <1>2, <1>3, <1>4, <1>5, <1>6, <1>7

-----------------------------------------------------------------------------
(* Nothing is lost                                                         *)

(* A step that counts nothing as accepted, promised or reported without     *)
(* reason, and forgets no entry.                                           *)
Careful ==
    /\ Follows(op, op')
    /\ \A t \in Texts : taken'[t] >= taken[t]
    /\ \A t \in promised' : t \in promised \/ taken'[t] > 0 \/ HasText(op', t)
    /\ \A i \in DOMAIN op'.deliveries : op'.deliveries[i].status = "accepted" =>
           \/ i \in DOMAIN op.deliveries /\ op.deliveries[i].status = "accepted"
           \/ taken'[op'.deliveries[i].text] > 0
    /\ \A n \in {signature', marks'.signature} \ {0} :
           \/ n \in {signature, marks.signature}
           \/ taken'[Report(n)] > 0 \/ HasText(op', Report(n))

LEMMA StaysListed ==
    ASSUME NEW o, NEW p, Follows(o, p), NEW text, HasText(o, text)
    PROVE  HasText(p, text)
  BY DEF Follows, HasText, Places

LEMMA MoreIsSome == \A a, b \in Nat : a > 0 /\ b >= a => b > 0
  OBVIOUS

LEMMA CarefulKeeps ==
    ASSUME Sound, HistoryOK', AcceptedIsKept, SuppressedIsKept, Careful
    PROVE  AcceptedIsKept' /\ SuppressedIsKept'
<1>1. /\ op \in Ops /\ HistoryOK /\ WatchOK
      /\ taken \in [Texts -> Nat] /\ taken' \in [Texts -> Nat]
      /\ promised \subseteq Texts
  BY TextTypes DEF Sound, HistoryOK
<1>2. ASSUME NEW t \in Texts, taken[t] > 0 \/ HasText(op, t)
      PROVE  taken'[t] > 0 \/ HasText(op', t)
  <2>1. taken[t] \in Nat /\ taken'[t] \in Nat /\ taken'[t] >= taken[t]
    BY <1>1 DEF Careful
  <2>2. CASE taken[t] > 0
    BY <2>1, <2>2, MoreIsSome
  <2>3. CASE HasText(op, t)
    BY <2>3, StaysListed DEF Careful
  <2> QED
    BY <1>2, <2>2, <2>3
<1>3. \A t \in promised' : taken'[t] > 0 \/ HasText(op', t)
  <2>1. ASSUME NEW t \in promised PROVE taken'[t] > 0 \/ HasText(op', t)
    BY <1>1, <1>2 DEF AcceptedIsKept
  <2> QED
    BY <2>1 DEF Careful
<1>4. ASSUME NEW i \in DOMAIN op'.deliveries, op'.deliveries[i].status = "accepted"
      PROVE  taken'[op'.deliveries[i].text] > 0
  <2>1. ASSUME i \in DOMAIN op.deliveries, op.deliveries[i].status = "accepted"
        PROVE  taken'[op'.deliveries[i].text] > 0
    <3>1. PICK t : t = op.deliveries[i].text
      OBVIOUS
    <3>2. t \in Texts /\ taken[t] > 0 /\ op'.deliveries[i].text = t
      BY <1>1, <2>1, <3>1, Entries DEF AcceptedIsKept, Careful, Follows
    <3>3. taken[t] \in Nat /\ taken'[t] \in Nat /\ taken'[t] >= taken[t]
      BY <1>1, <3>2 DEF Careful
    <3> QED
      BY <3>2, <3>3, MoreIsSome
  <2> QED
    BY <1>4, <2>1 DEF Careful
<1>5. ASSUME NEW n \in {signature', marks'.signature} \ {0}
      PROVE  taken'[Report(n)] > 0 \/ HasText(op', Report(n))
  <2>1. CASE n \in {signature, marks.signature}
    <3>1. n \in 1..MaxTurns /\ Report(n) \in Texts
      <4>1. signature \in 0..MaxTurns /\ marks.signature \in 0..MaxTurns
        BY <1>1 DEF WatchOK
      <4>2. n \in 1..MaxTurns
        BY <2>1, <4>1, BoundsAssumption
      <4> QED
        BY <4>2, TextTypes
    <3>2. taken[Report(n)] > 0 \/ HasText(op, Report(n))
      BY <2>1 DEF SuppressedIsKept
    <3> QED
      BY <1>2, <3>1, <3>2
  <2> QED
    BY <2>1 DEF Careful
<1>6. AcceptedIsKept'
  BY <1>3, <1>4 DEF AcceptedIsKept
<1>7. SuppressedIsKept'
  BY <1>5 DEF SuppressedIsKept
<1> QED
  BY <1>6, <1>7

(* No entry of p is accepted that was not in o.                            *)
AcceptsNone(o, p) ==
    \A i \in DOMAIN p.deliveries : p.deliveries[i].status = "accepted" =>
        i \in DOMAIN o.deliveries /\ o.deliveries[i].status = "accepted"

LEMMA AcceptsNoneMarks ==
    ASSUME NEW o, NEW p, NEW i, NEW s, Marks(o, p, i, s), s # "accepted"
    PROVE  AcceptsNone(o, p)
  BY DEF Marks, AcceptsNone

LEMMA AcceptsNoneAppended ==
    ASSUME NEW o \in Ops, NEW text \in Texts
    PROVE  AcceptsNone(o, Appended(o, text))
<1> DEFINE p == Appended(o, text)
           n == Len(o.deliveries) + 1
<1>1. /\ DOMAIN p.deliveries = 1..n /\ n \in Nat
      /\ \A j \in DOMAIN o.deliveries : p.deliveries[j] = o.deliveries[j]
      /\ p.deliveries[n] = [text |-> text, status |-> "pending"]
  BY Appending
<1>2. DOMAIN o.deliveries = 1..Len(o.deliveries) /\ Len(o.deliveries) \in Nat
  BY Entries
<1> HIDE DEF p
<1>3. \A j \in 1..n : j = n \/ j \in DOMAIN o.deliveries
  BY <1>2
<1>4. p.deliveries[n].status # "accepted"
  BY <1>1
<1> HIDE DEF n
<1> QED
  BY <1>1, <1>3, <1>4 DEF AcceptsNone, p

LEMMA AcceptsNoneShut ==
    ASSUME NEW o, NEW p, Shut(o, p)
    PROVE  AcceptsNone(o, p)
  BY DEF Shut, AcceptsNone

LEMMA AcceptsNoneThrough ==
    ASSUME NEW o, NEW p, NEW r, AcceptsNone(o, p), AcceptsNone(p, r)
    PROVE  AcceptsNone(o, r)
  BY DEF AcceptsNone

LEMMA AcceptsNoneSame ==
    ASSUME NEW o, NEW p, p.deliveries = o.deliveries
    PROVE  AcceptsNone(o, p)
  BY DEF AcceptsNone

(* A step that tells nobody anything.                                      *)
LEMMA CarefulSilent ==
    ASSUME HistoryOK, Follows(op, op'), AcceptsNone(op, op'), UNCHANGED <<taken, promised>>,
           {signature', marks'.signature} \subseteq {signature, marks.signature}
    PROVE  Careful
<1>1. \A t \in Texts : taken[t] \in Nat /\ taken'[t] = taken[t]
  BY DEF HistoryOK
<1>2. \A t \in Texts : taken'[t] >= taken[t]
  BY <1>1
<1> QED
  BY <1>2 DEF Careful, AcceptsNone

LEMMA CarefulQuiet ==
    ASSUME Sound, Quiet
    PROVE  Careful
<1>1. Follows(op, op') /\ AcceptsNone(op, op')
  BY FollowsSame, AcceptsNoneSame DEF Quiet
<1> QED
  BY <1>1, CarefulSilent DEF Quiet, Sound

LEMMA DeliversEntry ==
    ASSUME NEW q, NEW o \in Ops, NEW i \in DOMAIN o.deliveries, NEW to, NEW ok, NEW no, NEW then,
           Deliver(q, o, i, to, ok, no, then)
    PROVE  /\ op' \in Ops /\ Follows(o, op') /\ AcceptsNone(o, op')
           /\ op' = o \/ (o.deliveries[i].status = "pending" /\ Marks(o, op', i, "sending"))
<1>1. CASE o.deliveries[i].status = "pending"
  <2>1. op' = [o EXCEPT !.deliveries[i].status = "sending"] /\ "sending" \in Statuses
    BY <1>1 DEF Deliver, Statuses
  <2>2. op' \in Ops /\ Marks(o, op', i, "sending")
    BY <2>1, StatusSet
  <2> QED
    BY <1>1, <2>2, MarksFollows, AcceptsNoneMarks
<1>2. CASE o.deliveries[i].status # "pending"
  <2>1. op' = o
    BY <1>2 DEF Deliver
  <2> QED
    BY <2>1, FollowsItself, AcceptsNoneSame
<1> QED
  BY <1>1, <1>2

LEMMA CarefulDelivers ==
    ASSUME HistoryOK, NEW q, NEW o \in Ops, Follows(op, o), AcceptsNone(op, o),
           NEW i \in DOMAIN o.deliveries, NEW to, NEW ok, NEW no, NEW then,
           Deliver(q, o, i, to, ok, no, then),
           UNCHANGED <<signature, observer, taken, promised>>
    PROVE  Careful
<1>1. Follows(o, op') /\ AcceptsNone(o, op')
  BY DeliversEntry
<1>2. Follows(op, op') /\ AcceptsNone(op, op')
  BY <1>1, FollowsThrough, AcceptsNoneThrough
<1> QED
  BY <1>2, CarefulSilent DEF observer

LEMMA CarefulSend ==
    ASSUME Sound, NEW n \in 1..MaxMessages, NEW m \in Managers, Send(n, m)
    PROVE  Careful
<1>1. op \in Ops /\ HistoryOK /\ Message(n) \in Texts
  BY TextTypes DEF Sound
<1>2. UNCHANGED <<signature, marks, taken>>
  BY DEF Send, observer
<1>3. CASE op' = Appended(op, Message(n)) /\ promised' = promised \cup {Message(n)}
  <2>1. /\ Follows(op, op') /\ AcceptsNone(op, op')
    BY <1>1, <1>3, Appending, AcceptsNoneAppended
  <2>2. HasText(op', Message(n))
    <3>1. LET k == Len(op.deliveries) + 1
          IN /\ DOMAIN op'.deliveries = 1..k /\ k \in Nat /\ k # 0
             /\ op'.deliveries[k] = [text |-> Message(n), status |-> "pending"]
      BY <1>1, <1>3, Appending
    <3>2. \E k \in DOMAIN op'.deliveries : op'.deliveries[k].text = Message(n)
      BY <3>1
    <3> QED
      BY <3>2 DEF HasText, Places
  <2>3. \A t \in Texts : taken'[t] >= taken[t]
    BY <1>1, <1>2 DEF HistoryOK
  <2> QED
    BY <1>2, <1>3, <2>1, <2>2, <2>3 DEF Careful, AcceptsNone
<1>4. CASE UNCHANGED <<op, promised>>
  BY <1>1, <1>2, <1>4, FollowsSame, AcceptsNoneSame, CarefulSilent
<1> QED
  BY <1>3, <1>4 DEF Send

(* The end of a send, whose outcome its entry may have captured.           *)
LEMMA HeardEntry ==
    ASSUME Sound, NEW f \in flights, NEW x \in Outcomes(f.to), Reaches(f.text, x), NEW p,
           p = Noted(op, f.at, x)
    PROVE  /\ f.text \in Texts /\ p \in Ops /\ Follows(op, p)
           /\ \A t \in Texts : taken'[t] >= taken[t]
           /\ x.result = "accepted" => taken'[f.text] > 0
           /\ \A i \in DOMAIN p.deliveries : p.deliveries[i].status = "accepted" =>
                  \/ i \in DOMAIN op.deliveries /\ op.deliveries[i].status = "accepted"
                  \/ taken'[p.deliveries[i].text] > 0
<1>1. op \in Ops /\ HistoryOK /\ f \in Flight /\ FlightOK(f)
  BY DEF Sound, FlightsFit
<1>2. /\ f.text \in Texts /\ f.at \in Nat
      /\ f.at # 0 => f.at \in DOMAIN op.deliveries /\ op.deliveries[f.at].text = f.text
      /\ x \in [result : {"accepted", "rejected", "uncertain"}, reached : BOOLEAN]
      /\ (x.result = "accepted" => x.reached)
  BY <1>1, OutcomesFacts DEF Flight, FlightOK
<1>3. /\ p \in Ops /\ Follows(op, p) /\ Captured(op, p, f.at, x)
  BY <1>1, <1>2, NotedFacts
<1>4. /\ \A t \in Texts : taken'[t] >= taken[t]
      /\ taken'[f.text] = taken[f.text] + IF x.reached THEN 1 ELSE 0
      /\ taken[f.text] \in Nat
  BY <1>1, <1>2, TakenMore DEF HistoryOK
<1>5. x.result = "accepted" => taken'[f.text] > 0
  BY <1>2, <1>4
<1>6. ASSUME NEW i \in DOMAIN p.deliveries, p.deliveries[i].status = "accepted"
      PROVE  \/ i \in DOMAIN op.deliveries /\ op.deliveries[i].status = "accepted"
             \/ taken'[p.deliveries[i].text] > 0
  <2>1. CASE p = op
    BY <1>6, <2>1
  <2>2. CASE /\ f.at # 0
             /\ Marks(op, p, f.at, IF x.result = "rejected" THEN "pending" ELSE x.result)
    <3>1. CASE i # f.at
      BY <1>6, <2>2, <3>1 DEF Marks
    <3>2. CASE i = f.at
      <4>1. /\ p.deliveries[i].text = f.text
            /\ p.deliveries[i].status = IF x.result = "rejected" THEN "pending" ELSE x.result
        BY <1>2, <2>2, <3>2 DEF Marks
      <4>2. x.result = "accepted"
        BY <1>2, <1>6, <4>1
      <4> QED
        BY <1>5, <4>1, <4>2
    <3> QED
      BY <3>1, <3>2
  <2> QED
    BY <1>3, <2>1, <2>2 DEF Captured
<1> QED
  BY <1>2, <1>3, <1>4, <1>5, <1>6

LEMMA CarefulSendEnds ==
    ASSUME Sound, NEW f \in flights, SendEnds(f)
    PROVE  Careful
<1>1. PICK x \in Outcomes(f.to) :
         /\ Reaches(f.text, x) /\ op' = Noted(op, f.at, x)
         /\ promised' = IF x.result = "accepted" THEN promised \cup {f.text} ELSE promised
  BY DEF SendEnds
<1>2. UNCHANGED <<signature, marks>>
  BY DEF SendEnds, observer
<1>3. /\ op' \in Ops /\ Follows(op, op')
      /\ \A t \in Texts : taken'[t] >= taken[t]
      /\ x.result = "accepted" => taken'[f.text] > 0
      /\ \A i \in DOMAIN op'.deliveries : op'.deliveries[i].status = "accepted" =>
             \/ i \in DOMAIN op.deliveries /\ op.deliveries[i].status = "accepted"
             \/ taken'[op'.deliveries[i].text] > 0
  BY <1>1, HeardEntry
<1> QED
  BY <1>1, <1>2, <1>3 DEF Careful

LEMMA CarefulWakeSent ==
    ASSUME Sound, NEW f \in flights, WakeSent(f)
    PROVE  Careful
<1>1. /\ f.by = "wake" /\ promised' = promised
  BY DEF WakeSent
<1>2. PICK x \in Outcomes(f.to) :
         /\ Reaches(f.text, x)
         /\ \/ /\ x.result = "accepted"
               /\ op' = Told(Noted(op, f.at, x), f.text.n) /\ Tells(f.text.n)
            \/ /\ op' = Noted(op, f.at, x) /\ UNCHANGED <<signature, marks>>
  BY DEF WakeSent, IsTold
<1>3. PICK p : p = Noted(op, f.at, x)
  OBVIOUS
<1>4. /\ f.text \in Texts /\ p \in Ops /\ Follows(op, p)
      /\ \A t \in Texts : taken'[t] >= taken[t]
      /\ x.result = "accepted" => taken'[f.text] > 0
      /\ \A i \in DOMAIN p.deliveries : p.deliveries[i].status = "accepted" =>
             \/ i \in DOMAIN op.deliveries /\ op.deliveries[i].status = "accepted"
             \/ taken'[p.deliveries[i].text] > 0
  BY <1>2, <1>3, HeardEntry
<1>5. op'.deliveries = p.deliveries
  BY <1>2, <1>3, <1>4, ToldFacts
<1>6. /\ Follows(op, op')
      /\ \A i \in DOMAIN op'.deliveries : op'.deliveries[i].status = "accepted" =>
             \/ i \in DOMAIN op.deliveries /\ op.deliveries[i].status = "accepted"
             \/ taken'[op'.deliveries[i].text] > 0
  BY <1>4, <1>5 DEF Follows
<1>7. \A n \in {signature', marks'.signature} \ {0} :
          n \in {signature, marks.signature} \/ taken'[Report(n)] > 0
  <2>1. CASE x.result = "accepted" /\ Tells(f.text.n)
    <3>1. /\ FlightOK(f) /\ WatchOK
      BY DEF Sound, FlightsFit
    <3>2. f.text.kind = "report" /\ f.text = Report(f.text.n) /\ f.text.n \in 1..MaxTurns
      BY <1>1, <1>4, <3>1, TextTypes DEF FlightOK
    <3>3. f.text.n \in 0..MaxTurns
      BY <3>2, BoundsAssumption
    <3>4. signature' = f.text.n /\ marks'.signature = f.text.n
      BY <2>1, <3>1, <3>3, TellsFacts
    <3> QED
      BY <1>4, <2>1, <3>2, <3>4
  <2>2. CASE UNCHANGED <<signature, marks>>
    BY <2>2
  <2> QED
    BY <1>2, <2>1, <2>2
<1> QED
  BY <1>1, <1>4, <1>6, <1>7 DEF Careful

LEMMA CarefulWakeSends ==
    ASSUME Sound, NEW m \in Managers, WakeSends(m)
    PROVE  Careful
<1>1. op \in Ops /\ HistoryOK /\ WatchOK /\ WakesFit
  BY DEF Sound
<1>2. wakes[m].pc = "send" /\ UNCHANGED <<taken, promised>>
  BY DEF WakeSends, history
<1>3. CASE /\ Current(m) /\ op' = Told(Appended(op, Report(worker.turn)), worker.turn)
           /\ Tells(worker.turn)
  <2>1. worker.turn \in 1..MaxTurns /\ worker.turn \in 0..MaxTurns
    <3>1. wakes[m].turn >= 1 /\ worker.turn = wakes[m].turn
      BY <1>1, <1>2, <1>3 DEF WakesFit, Current
    <3> QED
      BY <1>1, <3>1, Numbers
  <2>2. PICK text : text = Report(worker.turn)
    OBVIOUS
  <2>3. text \in Texts
    BY <2>1, <2>2, TextTypes
  <2>4. PICK p : p = Appended(op, text)
    OBVIOUS
  <2>5. /\ p \in Ops /\ Follows(op, p) /\ AcceptsNone(op, p)
    BY <1>1, <2>3, <2>4, Appending, AcceptsNoneAppended
  <2>6. HasText(p, text)
    <3>1. LET k == Len(op.deliveries) + 1
          IN /\ DOMAIN p.deliveries = 1..k /\ k \in Nat /\ k # 0
             /\ p.deliveries[k] = [text |-> text, status |-> "pending"]
      BY <1>1, <2>3, <2>4, Appending
    <3>2. \E k \in DOMAIN p.deliveries : p.deliveries[k].text = text
      BY <3>1
    <3> QED
      BY <3>2 DEF HasText, Places
  <2>7. op'.deliveries = p.deliveries
    BY <1>3, <2>2, <2>4, <2>5, ToldFacts
  <2>8. signature' = worker.turn /\ marks'.signature = worker.turn
    BY <1>1, <1>3, <2>1, TellsFacts
  <2>9. HasText(op', text) /\ Follows(op, op') /\ AcceptsNone(op, op')
    BY <2>5, <2>6, <2>7 DEF HasText, Places, Follows, AcceptsNone
  <2>10. \A t \in Texts : taken'[t] >= taken[t]
    BY <1>1, <1>2 DEF HistoryOK
  <2> QED
    BY <1>2, <2>2, <2>8, <2>9, <2>10 DEF Careful, AcceptsNone
<1>4. CASE UNCHANGED <<op, signature, marks>>
  BY <1>1, <1>2, <1>4, FollowsSame, AcceptsNoneSame, CarefulSilent
<1> QED
  BY <1>3, <1>4 DEF WakeSends

LEMMA CarefulSentEnds ==
    ASSUME Sound, NEW q \in Processes, SentEnds(q)
    PROVE  Careful
<1>1. op \in Ops /\ FramesFit /\ HistoryOK /\ frames[q].pc = "sent"
  BY DEF Sound, SentEnds, At
<1>2. PICK at : at = frames[q].at
  OBVIOUS
<1>3. at \in DOMAIN op.deliveries
  BY <1>1, <1>2 DEF FramesFit, FrameOK
<1>4. PICK text : text = op.deliveries[at].text
  OBVIOUS
<1>5. text \in Texts
  BY <1>1, <1>3, <1>4, Entries
<1>6. PICK x \in Outcomes(frames[q].to) : Reaches(text, x) /\ op' = Delivered(op, at, x)
  BY <1>2, <1>4 DEF SentEnds
<1>7. /\ UNCHANGED <<signature, marks, promised>>
  BY DEF SentEnds, observer
<1>8. /\ x \in [result : {"accepted", "rejected", "uncertain"}, reached : BOOLEAN]
      /\ (x.result = "accepted" => x.reached)
  BY OutcomesFacts
<1>9. /\ Follows(op, op')
      /\ Marks(op, op', at, IF x.result = "rejected" THEN "pending" ELSE x.result)
  BY <1>1, <1>3, <1>6, <1>8, DeliveredFacts
<1>10. /\ \A t \in Texts : taken'[t] >= taken[t]
       /\ taken'[text] = taken[text] + IF x.reached THEN 1 ELSE 0
       /\ taken[text] \in Nat
  BY <1>1, <1>5, <1>6, <1>8, TakenMore DEF HistoryOK
<1>11. x.result = "accepted" => taken'[text] > 0
  BY <1>8, <1>10
<1>12. ASSUME NEW i \in DOMAIN op'.deliveries, op'.deliveries[i].status = "accepted"
       PROVE  \/ i \in DOMAIN op.deliveries /\ op.deliveries[i].status = "accepted"
              \/ taken'[op'.deliveries[i].text] > 0
  <2>1. CASE i # at
    BY <1>9, <1>12, <2>1 DEF Marks
  <2>2. CASE i = at
    <3>1. /\ op'.deliveries[i].text = text
          /\ op'.deliveries[i].status = IF x.result = "rejected" THEN "pending" ELSE x.result
      BY <1>3, <1>4, <1>9, <2>2 DEF Marks
    <3>2. x.result = "accepted"
      BY <1>8, <1>12, <3>1
    <3> QED
      BY <1>11, <3>1, <3>2
  <2> QED
    BY <2>1, <2>2
<1> QED
  BY <1>7, <1>9, <1>10, <1>12 DEF Careful

LEMMA CarefulDrainFails ==
    ASSUME Sound, DrainFails
    PROVE  Careful
<1>1. UNCHANGED <<signature, marks, promised>>
  BY DEF DrainFails
<1>2. CASE UNCHANGED <<op, taken>>
  BY <1>1, <1>2, FollowsSame, AcceptsNoneSame, CarefulSilent DEF Sound
<1>3. ASSUME NEW f \in flights, NEW x \in Outcomes(f.to), Reaches(f.text, x),
             op' = Noted(op, f.at, x)
      PROVE  Careful
  <2>1. /\ op' \in Ops /\ Follows(op, op')
        /\ \A t \in Texts : taken'[t] >= taken[t]
        /\ \A i \in DOMAIN op'.deliveries : op'.deliveries[i].status = "accepted" =>
               \/ i \in DOMAIN op.deliveries /\ op.deliveries[i].status = "accepted"
               \/ taken'[op'.deliveries[i].text] > 0
    BY <1>3, HeardEntry
  <2> QED
    BY <1>1, <2>1 DEF Careful
<1> QED
  BY <1>2, <1>3 DEF DrainFails

LEMMA CarefulFail ==
    ASSUME Sound, Fail
    PROVE  Careful
<1>1. Follows(op, op') /\ AcceptsNone(op, op')
  BY FailFacts, ShutFollows, AcceptsNoneShut DEF Sound
<1> QED
  BY <1>1, CarefulSilent DEF Sound, Fail, observer, history

LEMMA CarefulRestart ==
    ASSUME Sound, Restart
    PROVE  Careful
<1>1. op \in Ops /\ HistoryOK /\ WatchOK
  BY DEF Sound
<1>2. /\ op' = Recovered(op) /\ promised' = promised /\ signature' = signature
      /\ marks'.signature \in {0, signature}
  BY DEF Restart
<1>3. Follows(op, op') /\ AcceptsNone(op, op')
  BY <1>1, <1>2, RecoveredFacts, ShutFollows, AcceptsNoneShut
<1>4. \A t \in Texts : taken'[t] >= taken[t]
  BY <1>1, RestartTaken DEF HistoryOK
<1> QED
  BY <1>2, <1>3, <1>4 DEF Careful, AcceptsNone

(* The turn that the start remembers is that of a report it captures.      *)
LEMMA CarefulStart ==
    ASSUME Sound, Start
    PROVE  Careful
<1>1. /\ op \in Ops /\ FlightsFit /\ HistoryOK /\ NoneYet /\ op.phase = "none"
  BY StartIs DEF Sound
<1>2. PICK s : s = SetToSeq(Old)
  OBVIOUS
<1>3. /\ DOMAIN op'.deliveries = DOMAIN s
      /\ \A i \in DOMAIN s : /\ op'.deliveries[i].text = s[i].text
                             /\ op'.deliveries[i].status = "sending"
  BY <1>2, StartFacts DEF Starting
<1>4. Follows(op, op') /\ AcceptsNone(op, op')
  BY <1>1, <1>3 DEF Follows, AcceptsNone, NoneYet
<1>5. UNCHANGED <<marks, taken, promised>>
  BY StartIs DEF observer, history
<1>6. CASE signature' \in {signature, marks.signature, 0}
  BY <1>1, <1>4, <1>5, <1>6 DEF Careful, AcceptsNone, HistoryOK
<1>7. CASE /\ \E f \in Old : f.by = "wake"
           /\ signature' = (CHOOSE f \in Old : f.by = "wake").text.n
  <2>1. PICK w : w = CHOOSE f \in Old : f.by = "wake"
    OBVIOUS
  <2>2. w \in Old /\ w.by = "wake" /\ signature' = w.text.n
    BY <1>7, <2>1
  <2>3. w \in Flight /\ w.text.kind = "report"
    BY <1>1, <2>2 DEF Old, FlightsFit, FlightOK
  <2>4. w.text = Report(signature')
    BY <2>2, <2>3, TextTypes DEF Flight
  <2>5. PICK i \in DOMAIN s : s[i] = w
    BY <1>1, <1>2, <2>2, OldListed
  <2>6. op'.deliveries[i].text = Report(signature')
    BY <1>3, <2>4, <2>5
  <2>7. HasText(op', Report(signature'))
    BY <1>3, <2>6 DEF HasText, Places
  <2>8. \A t \in Texts : taken'[t] >= taken[t]
    BY <1>1, <1>5 DEF HistoryOK
  <2> QED
    BY <1>4, <1>5, <2>7, <2>8 DEF Careful, AcceptsNone
<1> QED
  BY <1>6, <1>7, StartIs

LEMMA CarefulRelease ==
    ASSUME Sound, NEW q \in Processes, Release(q)
    PROVE  Careful
<1>1. /\ op \in Ops /\ HistoryOK /\ UNCHANGED <<signature, observer, taken, promised>>
  BY DEF Sound, Release, history
<1> DEFINE open == {i \in DOMAIN op.deliveries :
                       Releasable(op.deliveries[i].text) /\ ~Settled(op.deliveries[i])}
           f == frames[q]
<1>2. CASE open # {} /\ Deliver(q, op, First(open), f.to, "release", Ending(q), f.then)
  <2>1. open \in SUBSET Nat
    BY <1>1, Entries
  <2>2. First(open) \in DOMAIN op.deliveries
    BY <1>2, <2>1, FirstIs
  <2> HIDE DEF open, f
  <2> QED
    BY <1>1, <1>2, <2>2, FollowsItself, AcceptsNoneSame, CarefulDelivers
<1>3. CASE UNCHANGED op
  BY <1>1, <1>3, FollowsItself, AcceptsNoneSame, CarefulSilent DEF observer
<1> QED
  BY <1>2, <1>3 DEF Release

LEMMA AcceptsNoneLists ==
    ASSUME NEW o \in Ops, NEW text \in Texts
    PROVE  AcceptsNone(o, Lists(o, text))
  BY AcceptsNoneAppended, AcceptsNoneSame DEF Lists

LEMMA CarefulBrief ==
    ASSUME Sound, Brief
    PROVE  Careful
<1>1. /\ op \in Ops /\ HistoryOK /\ UNCHANGED <<signature, observer, taken, promised>>
      /\ Preparation \in Texts
  BY TextTypes DEF Sound, Brief, history
<1> DEFINE o == Lists(op, Preparation)
           i == First(Places(o, Preparation))
<1>2. CASE Deliver("task", o, i, "old", "receipt", "end", "idle")
  <2>1. /\ o \in Ops /\ Follows(op, o) /\ i \in DOMAIN o.deliveries /\ AcceptsNone(op, o)
    BY <1>1, Listed, AcceptsNoneLists
  <2> HIDE DEF i, o
  <2> QED
    BY <1>1, <1>2, <2>1, CarefulDelivers
<1>3. CASE UNCHANGED op
  BY <1>1, <1>3, FollowsItself, AcceptsNoneSame, CarefulSilent DEF observer
<1> QED
  BY <1>2, <1>3 DEF Brief

(* The entry and the journal entry that a kickoff is delivered from.       *)
LEMMA KickoffEntry ==
    ASSUME op \in Ops, KicksOff
    PROVE  \E o \in Ops : \E i \in DOMAIN o.deliveries :
              /\ o.phase = "activating" /\ o.deliveries[i].text = Kickoff
              /\ o.deliveries = Lists(op, Kickoff).deliveries
              /\ o.intent = op.intent /\ o.committed = op.committed /\ o.bound = op.bound
              /\ o.finish = op.finish
              /\ Follows(op, o) /\ AcceptsNone(op, o)
              /\ Deliver("task", o, i, "new", "drain", "end", "evidence")
<1> DEFINE p == Lists(op, Kickoff)
           o == [p EXCEPT !.phase = "activating"]
           i == First(Places(p, Kickoff))
<1>1. Deliver("task", o, First(Places(o, Kickoff)), "new", "drain", "end", "evidence")
  BY DEF KicksOff
<1>2. /\ p \in Ops /\ Follows(op, p) /\ i \in DOMAIN p.deliveries /\ p.deliveries[i].text = Kickoff
      /\ p.intent = op.intent /\ p.committed = op.committed /\ p.bound = op.bound
      /\ p.finish = op.finish /\ AcceptsNone(op, p)
  BY TextTypes, Listed, AcceptsNoneLists
<1>3. "activating" \in Phases
  BY DEF Phases
<1>4. p = Lists(op, Kickoff)
  OBVIOUS
<1> HIDE DEF p
<1>5. /\ o \in Ops /\ o.deliveries = p.deliveries /\ o.phase = "activating"
      /\ o.intent = p.intent /\ o.committed = p.committed /\ o.bound = p.bound
      /\ o.finish = p.finish
  BY <1>2, <1>3, PhaseSet
<1> HIDE DEF o
<1>6. Places(o, Kickoff) = Places(p, Kickoff)
  BY <1>5 DEF Places
<1>7. Follows(op, o) /\ AcceptsNone(op, o)
  BY <1>2, <1>5 DEF Follows, AcceptsNone
<1>8. Deliver("task", o, i, "new", "drain", "end", "evidence")
  BY <1>1, <1>6
<1> HIDE DEF i
<1> QED
  BY <1>2, <1>4, <1>5, <1>7, <1>8

LEMMA CarefulKicksOff ==
    ASSUME Sound, KicksOff
    PROVE  Careful
<1>1. /\ op \in Ops /\ HistoryOK /\ UNCHANGED <<signature, observer, taken, promised>>
  BY DEF Sound, KicksOff, history
<1>2. PICK o \in Ops : \E i \in DOMAIN o.deliveries :
         /\ Follows(op, o) /\ AcceptsNone(op, o)
         /\ Deliver("task", o, i, "new", "drain", "end", "evidence")
  BY <1>1, KickoffEntry
<1> QED
  BY <1>1, <1>2, CarefulDelivers

LEMMA CarefulResolves ==
    ASSUME HistoryOK, NEW o \in Ops, Follows(op, o), AcceptsNone(op, o),
           NEW i \in DOMAIN o.deliveries, NEW retry, Resolves(o, i, retry),
           UNCHANGED <<signature, observer, taken, promised>>
    PROVE  Careful
<1>1. PICK s : s = Settling(o, i)
  OBVIOUS
<1>2. /\ s \in Ops /\ Follows(o, s) /\ Marks(o, s, i, "reconciled")
      /\ Len(s.deliveries) = Len(o.deliveries)
  BY <1>1, SettlingFacts
<1>3. Follows(op, s) /\ AcceptsNone(op, s)
  BY <1>2, FollowsThrough, AcceptsNoneMarks, AcceptsNoneThrough
<1>4. PICK text : text = o.deliveries[i].text
  OBVIOUS
<1>5. text \in Texts
  BY <1>4, Entries
<1>6. CASE Deliver("request", Appended(s, text), Len(o.deliveries) + 1, Owner(o), "resolved",
                   "resolved", Onward(o, i))
  <2>1. PICK p : p = Appended(s, text)
    OBVIOUS
  <2>2. PICK n : n = Len(o.deliveries) + 1
    OBVIOUS
  <2>3. /\ p \in Ops /\ Follows(s, p) /\ AcceptsNone(s, p) /\ n \in DOMAIN p.deliveries
    <3>1. n = Len(s.deliveries) + 1
      BY <1>2, <2>2
    <3>2. p \in Ops /\ Follows(s, p) /\ DOMAIN p.deliveries = 1..n /\ n \in Nat /\ n # 0
      BY <1>2, <1>5, <2>1, <3>1, Appending
    <3>3. AcceptsNone(s, p)
      BY <1>2, <1>5, <2>1, AcceptsNoneAppended
    <3> QED
      BY <3>2, <3>3
  <2>4. Follows(op, p) /\ AcceptsNone(op, p)
    BY <1>3, <2>3, FollowsThrough, AcceptsNoneThrough
  <2>5. Deliver("request", p, n, Owner(o), "resolved", "resolved", Onward(o, i))
    BY <1>6, <2>1, <2>2
  <2> QED
    BY <2>3, <2>4, <2>5, CarefulDelivers
<1>7. CASE op' = s
  BY <1>3, <1>7, CarefulSilent DEF observer
<1> QED
  BY <1>1, <1>4, <1>6, <1>7, ResolvesIs

LEMMA CarefulResolve ==
    ASSUME Sound, Resolve
    PROVE  Careful
<1>1. /\ op \in Ops /\ HistoryOK /\ UNCHANGED <<signature, observer, taken, promised>>
  BY DEF Sound, Resolve
<1>2. ASSUME NEW i \in DOMAIN op.deliveries, NEW retry \in BOOLEAN, Resolves(op, i, retry)
      PROVE  Careful
  BY <1>1, <1>2, FollowsItself, AcceptsNoneSame, CarefulResolves
<1>3. ASSUME NEW retry \in BOOLEAN, op.finish # 0,
             Resolves([Appended(op, Report(op.finish)) EXCEPT !.finish = 0],
                      Len(op.deliveries) + 1, retry)
      PROVE  Careful
  <2>1. PICK p : p = Appended(op, Report(op.finish))
    OBVIOUS
  <2>2. PICK n : n = Len(op.deliveries) + 1
    OBVIOUS
  <2>3. op.finish \in 1..MaxTurns /\ 0 \in 0..MaxTurns
    BY <1>1, <1>3, Entries, BoundsAssumption
  <2>4. Report(op.finish) \in Texts
    BY <2>3, TextTypes
  <2>5. /\ p \in Ops /\ Follows(op, p) /\ AcceptsNone(op, p)
        /\ DOMAIN p.deliveries = 1..n /\ n \in Nat /\ n # 0
    BY <1>1, <2>1, <2>2, <2>4, Appending, AcceptsNoneAppended
  <2>6. PICK o : o = [p EXCEPT !.finish = 0]
    OBVIOUS
  <2>7. o \in Ops /\ o.deliveries = p.deliveries
    BY <2>3, <2>5, <2>6, FinishSet
  <2>8. Follows(op, o) /\ AcceptsNone(op, o) /\ n \in DOMAIN o.deliveries
    BY <2>5, <2>7 DEF Follows, AcceptsNone
  <2>9. Resolves(o, n, retry)
    BY <1>3, <2>1, <2>2, <2>6
  <2> QED
    BY <1>1, <2>7, <2>8, <2>9, CarefulResolves
<1> QED
  BY <1>2, <1>3 DEF Resolve

LEMMA CarefulStep ==
    ASSUME Sound, [Next]_vars
    PROVE  Careful
<1>1. CASE Sends
  BY <1>1, CarefulSend DEF Sends
<1>2. CASE FlightEnds
  BY <1>2, CarefulSendEnds, CarefulWakeSent DEF FlightEnds
<1>3. ASSUME Quiet PROVE Careful
  BY <1>3, CarefulQuiet
<1>4. CASE \/ WorkerStarts \/ WorkerEnds \/ SpawnsLate
           \/ \E m \in Managers : Exits(m) \/ Resumes(m)
  BY <1>3, <1>4, QuietHost
<1>5. CASE \E m \in Managers : WakeStep(m)
  BY <1>3, <1>5, QuietHost, CarefulWakeSends DEF WakeStep
<1>6. ASSUME NEW q \in Processes, Common(q) PROVE Careful
  BY <1>3, <1>6, CarefulSentEnds, CarefulRelease, QuietCommon DEF Common, Transfer
<1>7. CASE Prepare
  BY <1>3, <1>7, CarefulBrief, QuietPrepares DEF Prepare
<1>8. CASE Flush
  BY <1>3, <1>8, QuietFlush, CarefulDrainFails DEF Flush
<1>9. CASE Fail \/ Activate \/ KicksOff \/ KickoffFails \/ Evidence \/ Finish
  BY <1>3, <1>9, CarefulFail, CarefulKicksOff, QuietCompletes
<1>10. CASE Reconciled \/ Resolved \/ Cancel \/ Reconcile \/ Bind
  BY <1>3, <1>10, QuietRequests
<1>11. CASE Start \/ Resolve \/ Restart
  BY <1>11, CarefulStart, CarefulResolve, CarefulRestart
<1>12. CASE UNCHANGED vars
  BY <1>12, CarefulSilent, FollowsSame, AcceptsNoneSame
     DEF Sound, vars, journal, observer, history
<1> QED
  BY <1>1, <1>2, <1>4, <1>5, <1>6, <1>7, <1>8, <1>9, <1>10, <1>11, <1>12, Managing
     DEF Next, TaskStep, RequestStep, Requests

(* Nobody believes in a delivery that neither took place nor is on record:  *)
(* what hold_message and note_inflight_message promised a sender, what the  *)
(* journal counts as accepted and what the wakes remember as reported was   *)
(* taken or is still listed, across captures, failures and restarts.        *)
THEOREM HandoffLosesNothing == Spec => []NothingIsLost
<1> DEFINE Accounted == AcceptedIsKept /\ SuppressedIsKept
<1>1. Init => Accounted
  BY DEF Init, AcceptedIsKept, SuppressedIsKept
<1>2. Sound /\ Accounted /\ [Next]_vars => Accounted'
  <2> SUFFICES ASSUME Sound, Accounted, [Next]_vars PROVE Accounted'
    OBVIOUS
  <2>1. Careful /\ Sound'
    BY CarefulStep, SoundStep
  <2> QED
    BY <2>1, CarefulKeeps DEF Sound
<1>3. Sound /\ Accounted => NothingIsLost
  BY SoundTypes DEF NothingIsLost
<1> QED
  BY <1>1, <1>2, <1>3, HandoffSound, PTL DEF Spec

-----------------------------------------------------------------------------
(* Nothing is replayed                                                     *)

Once == {t \in Texts : t.kind # "report"}
Pending(o, t) == {i \in DOMAIN o.deliveries : /\ o.deliveries[i].text = t
                                              /\ o.deliveries[i].status = "pending"}

(* How often a text has reached an agent or still may: as a pending entry,  *)
(* as one that a frame awaits, as the send of a client, or because it was   *)
(* not sent yet.                                                           *)
One(b) == IF b THEN 1 ELSE 0
Awaits(q, t) == One(frames[q].pc = "sent" /\ op.deliveries[frames[q].at].text = t)
Flying(t) == One(\E f \in flights : f.by = "client" /\ f.text = t)
Unsent(t) == One(IF t.kind = "message" THEN t.n <= budget.messages ELSE ~HasText(op, t))
Attempts(t) == taken[t] + Cardinality(Pending(op, t)) + Awaits("task", t) + Awaits("request", t)
               + Flying(t) + Unsent(t)
Tokens == \A t \in Once : Attempts(t) <= 1 + allowed[t]

(* A step that adds no attempt but one that the owner asked for.           *)
Frugal(t) == Attempts(t)' + allowed[t] <= Attempts(t) + allowed'[t]

LEMMA PendingFinite ==
    ASSUME NEW o \in Ops, NEW t
    PROVE  IsFiniteSet(Pending(o, t)) /\ Cardinality(Pending(o, t)) \in Nat
<1>1. /\ DOMAIN o.deliveries = 1..Len(o.deliveries) /\ Len(o.deliveries) \in Nat
  BY Entries
<1>2. IsFiniteSet(DOMAIN o.deliveries)
  BY <1>1, FS_Interval
<1>3. IsFiniteSet(Pending(o, t))
  BY <1>2, FS_Subset DEF Pending
<1> QED
  BY <1>3, FS_CardinalityType

LEMMA Ones == \A b : One(b) \in {0, 1} /\ (b => One(b) = 1) /\ (~b => One(b) = 0)
  BY DEF One

LEMMA AttemptTypes ==
    ASSUME Sound, NEW t \in Texts
    PROVE  /\ taken[t] \in Nat /\ allowed[t] \in Nat /\ Cardinality(Pending(op, t)) \in Nat
           /\ \A q \in Processes : Awaits(q, t) \in Nat
           /\ Flying(t) \in Nat /\ Unsent(t) \in Nat
<1>1. HistoryOK /\ op \in Ops
  BY DEF Sound
<1>2. taken[t] \in Nat /\ allowed[t] \in Nat
  BY <1>1, BoundsAssumption DEF HistoryOK
<1>3. \A q \in Processes : Awaits(q, t) \in Nat
  BY DEF Awaits, One
<1>4. Flying(t) \in Nat /\ Unsent(t) \in Nat
  BY DEF Flying, Unsent, One
<1> QED
  BY <1>1, <1>2, <1>3, <1>4, PendingFinite

LEMMA AwaitsLess ==
    ASSUME Sound, Follows(op, op'), NEW q \in Processes, NEW t,
           frames'[q].pc # "sent" \/ frames'[q] = frames[q]
    PROVE  Awaits(q, t)' <= Awaits(q, t)
<1>1. frames[q].pc = "sent" => frames[q].at \in DOMAIN op.deliveries
  BY DEF Sound, FramesFit, FrameOK
<1>2. CASE frames'[q].pc # "sent"
  BY <1>2 DEF Awaits, One
<1>3. CASE frames'[q] = frames[q]
  BY <1>1, <1>3 DEF Awaits, One, Follows
<1> QED
  BY <1>2, <1>3

LEMMA UnsentLess ==
    ASSUME Follows(op, op'), NEW t \in Texts, budget.messages \in Nat, budget'.messages \in Nat,
           budget'.messages <= budget.messages
    PROVE  Unsent(t)' <= Unsent(t)
<1>1. HasText(op, t) => HasText(op', t)
  BY StaysListed
<1>2. t.n \in Nat
  BY TextTypes
<1>3. t.n <= budget'.messages => t.n <= budget.messages
  BY <1>2
<1> QED
  BY <1>1, <1>3 DEF Unsent, One

LEMMA FlyingLess ==
    ASSUME NEW t, \A f \in flights' : f.by = "client" /\ f.text = t =>
                      \E g \in flights : g.by = "client" /\ g.text = t
    PROVE  Flying(t)' <= Flying(t)
<1>1. (\E f \in flights' : f.by = "client" /\ f.text = t) =>
          \E f \in flights : f.by = "client" /\ f.text = t
  OBVIOUS
<1> QED
  BY <1>1 DEF Flying, One

LEMMA PendingWithin ==
    ASSUME NEW o \in Ops, NEW p \in Ops, NEW t, Pending(p, t) \subseteq Pending(o, t)
    PROVE  Cardinality(Pending(p, t)) <= Cardinality(Pending(o, t))
  BY PendingFinite, FS_Subset

LEMMA PendingMore ==
    ASSUME NEW o \in Ops, NEW p \in Ops, NEW t, NEW i,
           Pending(p, t) \subseteq Pending(o, t) \cup {i}
    PROVE  Cardinality(Pending(p, t)) <= Cardinality(Pending(o, t)) + 1
<1>1. IsFiniteSet(Pending(o, t)) /\ IsFiniteSet(Pending(p, t))
      /\ Cardinality(Pending(o, t)) \in Nat /\ Cardinality(Pending(p, t)) \in Nat
  BY PendingFinite
<1> DEFINE a == Pending(o, t)
           b == Pending(p, t)
<1> HIDE DEF a, b
<1>2. IsFiniteSet(a \cup {i}) /\ Cardinality(a \cup {i}) \in {Cardinality(a), Cardinality(a) + 1}
  BY <1>1, FS_AddElement DEF a
<1>3. Cardinality(b) <= Cardinality(a \cup {i})
  BY <1>2, FS_Subset DEF a, b
<1> QED
  BY <1>1, <1>2, <1>3 DEF a, b

LEMMA PendingLess ==
    ASSUME NEW o \in Ops, NEW p \in Ops, NEW t, NEW i \in Pending(o, t),
           Pending(p, t) \subseteq Pending(o, t) \ {i}
    PROVE  Cardinality(Pending(p, t)) + 1 <= Cardinality(Pending(o, t))
<1>1. IsFiniteSet(Pending(o, t)) /\ IsFiniteSet(Pending(p, t))
      /\ Cardinality(Pending(o, t)) \in Nat /\ Cardinality(Pending(p, t)) \in Nat
  BY PendingFinite
<1> DEFINE a == Pending(o, t)
           b == Pending(p, t)
<1> HIDE DEF a, b
<1>2. IsFiniteSet(a \ {i}) /\ Cardinality(a \ {i}) = Cardinality(a) - 1
  BY <1>1, FS_RemoveElement DEF a
<1>3. Cardinality(b) <= Cardinality(a \ {i})
  BY <1>2, FS_Subset DEF a, b
<1> QED
  BY <1>1, <1>2, <1>3 DEF a, b

LEMMA PendingMarks ==
    ASSUME NEW o \in Ops, NEW p \in Ops, NEW i \in DOMAIN o.deliveries, NEW s, Marks(o, p, i, s),
           NEW t
    PROVE  /\ o.deliveries[i].text # t \/ s # "pending" =>
                  Cardinality(Pending(p, t)) <= Cardinality(Pending(o, t))
           /\ Cardinality(Pending(p, t)) <= Cardinality(Pending(o, t)) + 1
           /\ o.deliveries[i].text = t /\ s # "pending" /\ o.deliveries[i].status = "pending" =>
                  Cardinality(Pending(p, t)) + 1 <= Cardinality(Pending(o, t))
<1>1. ASSUME o.deliveries[i].text # t \/ s # "pending"
      PROVE  Pending(p, t) \subseteq Pending(o, t)
  BY <1>1 DEF Marks, Pending
<1>2. Pending(p, t) \subseteq Pending(o, t) \cup {i}
  BY DEF Marks, Pending
<1>3. ASSUME o.deliveries[i].text = t, s # "pending", o.deliveries[i].status = "pending"
      PROVE  i \in Pending(o, t) /\ Pending(p, t) \subseteq Pending(o, t) \ {i}
  BY <1>3 DEF Marks, Pending
<1> QED
  BY <1>1, <1>2, <1>3, PendingWithin, PendingMore, PendingLess

LEMMA PendingAppended ==
    ASSUME NEW o \in Ops, NEW text \in Texts, NEW t
    PROVE  /\ text # t =>
                  Cardinality(Pending(Appended(o, text), t)) <= Cardinality(Pending(o, t))
           /\ Cardinality(Pending(Appended(o, text), t)) <= Cardinality(Pending(o, t)) + 1
<1>1. PICK p, n : p = Appended(o, text) /\ n = Len(o.deliveries) + 1
  OBVIOUS
<1>2. /\ p \in Ops /\ DOMAIN p.deliveries = 1..n
      /\ \A j \in DOMAIN o.deliveries : p.deliveries[j] = o.deliveries[j]
      /\ p.deliveries[n] = [text |-> text, status |-> "pending"]
  BY <1>1, Appending
<1>3. DOMAIN o.deliveries = 1..Len(o.deliveries) /\ Len(o.deliveries) \in Nat
  BY Entries
<1>4. \A j \in DOMAIN p.deliveries : j = n \/ j \in DOMAIN o.deliveries
  BY <1>1, <1>2, <1>3
<1>5. Pending(p, t) \subseteq Pending(o, t) \cup {n}
  BY <1>2, <1>4 DEF Pending
<1>6. ASSUME text # t PROVE Pending(p, t) \subseteq Pending(o, t)
  <2>1. p.deliveries[n].text # t
    BY <1>2, <1>6
  <2> QED
    BY <1>2, <1>4, <2>1 DEF Pending
<1> QED
  BY <1>1, <1>2, <1>5, <1>6, PendingWithin, PendingMore

LEMMA PendingSame ==
    ASSUME NEW o, NEW p, p.deliveries = o.deliveries, NEW t
    PROVE  Pending(p, t) = Pending(o, t)
  BY DEF Pending

LEMMA PendingShut ==
    ASSUME NEW o \in Ops, NEW p \in Ops, Shut(o, p), NEW t
    PROVE  Cardinality(Pending(p, t)) <= Cardinality(Pending(o, t))
<1>1. Pending(p, t) \subseteq Pending(o, t)
  BY DEF Shut, Pending
<1> QED
  BY <1>1, PendingWithin

LEMMA AttemptTypesNext ==
    ASSUME Sound', NEW t \in Texts
    PROVE  /\ taken'[t] \in Nat /\ allowed'[t] \in Nat /\ Cardinality(Pending(op', t)) \in Nat
           /\ \A q \in Processes : Awaits(q, t)' \in Nat
           /\ Flying(t)' \in Nat /\ Unsent(t)' \in Nat
<1>1. HistoryOK' /\ op' \in Ops
  BY DEF Sound
<1>2. taken'[t] \in Nat /\ allowed'[t] \in Nat
  BY <1>1, BoundsAssumption DEF HistoryOK
<1>3. \A q \in Processes : Awaits(q, t)' \in Nat
  BY DEF Awaits, One
<1>4. Flying(t)' \in Nat /\ Unsent(t)' \in Nat
  BY DEF Flying, Unsent, One
<1> QED
  BY <1>1, <1>2, <1>3, <1>4, PendingFinite

(* A step after which no text is pending, awaited or under way that was not. *)
LEMMA FrugalSame ==
    ASSUME Sound, Sound', Follows(op, op'), NEW t \in Texts,
           taken'[t] = taken[t], allowed'[t] = allowed[t],
           Cardinality(Pending(op', t)) <= Cardinality(Pending(op, t)),
           \A q \in Processes : frames'[q].pc # "sent" \/ frames'[q] = frames[q],
           \A f \in flights' : f.by = "client" /\ f.text = t =>
               \E g \in flights : g.by = "client" /\ g.text = t,
           budget'.messages <= budget.messages
    PROVE  Frugal(t)
<1>1. /\ budget.messages \in Nat /\ budget'.messages \in Nat
  BY Numbers, BoundsAssumption DEF Sound, HistoryOK
<1>2. /\ Awaits("task", t)' <= Awaits("task", t) /\ Awaits("request", t)' <= Awaits("request", t)
  BY AwaitsLess, Managing
<1>3. Unsent(t)' <= Unsent(t) /\ Flying(t)' <= Flying(t)
  BY <1>1, UnsentLess, FlyingLess
<1>4. /\ taken[t] \in Nat /\ allowed[t] \in Nat /\ Cardinality(Pending(op, t)) \in Nat
      /\ Awaits("task", t) \in Nat /\ Awaits("request", t) \in Nat
      /\ Flying(t) \in Nat /\ Unsent(t) \in Nat
  BY AttemptTypes, Managing
<1>5. /\ Cardinality(Pending(op', t)) \in Nat
      /\ Awaits("task", t)' \in Nat /\ Awaits("request", t)' \in Nat
      /\ Flying(t)' \in Nat /\ Unsent(t)' \in Nat
  BY AttemptTypesNext, Managing
<1>6. Attempts(t)' = taken'[t] + Cardinality(Pending(op', t)) + Awaits("task", t)'
                     + Awaits("request", t)' + Flying(t)' + Unsent(t)'
  BY DEF Attempts
<1> QED
  BY <1>2, <1>3, <1>4, <1>5, <1>6 DEF Frugal, Attempts

LEMMA FrugalQuiet ==
    ASSUME Sound, Sound', Quiet, NEW t \in Texts
    PROVE  Frugal(t)
<1>1. op \in Ops /\ Follows(op, op') /\ budget.messages \in Nat
  BY FollowsSame, Numbers DEF Quiet, Sound
<1>2. Pending(op', t) = Pending(op, t)
  BY PendingSame DEF Quiet
<1>3. /\ \A q \in Processes : frames'[q].pc # "sent" \/ frames'[q] = frames[q]
      /\ UNCHANGED <<flights, taken, allowed>> /\ budget'.messages = budget.messages
  BY DEF Quiet
<1>4. Cardinality(Pending(op', t)) <= Cardinality(Pending(op, t))
  BY <1>1, <1>2, PendingFinite
<1>5. budget'.messages <= budget.messages
  BY <1>1, <1>3
<1> QED
  BY <1>1, <1>3, <1>4, <1>5, FrugalSame

LEMMA FrugalUnchanged ==
    ASSUME Sound, UNCHANGED vars, NEW t \in Texts
    PROVE  Frugal(t)
<1>1. Attempts(t)' = Attempts(t) /\ allowed' = allowed
  <2>1. UNCHANGED <<op, frames, flights, taken, allowed, budget>>
    BY DEF vars, journal, history
  <2> QED
    BY <2>1 DEF Attempts, Awaits, Flying, Unsent
<1>2. Attempts(t) \in Nat /\ allowed[t] \in Nat
  BY AttemptTypes, Managing DEF Attempts
<1> QED
  BY <1>1, <1>2 DEF Frugal

LEMMA FrugalFail ==
    ASSUME Sound, Sound', Fail, NEW t \in Texts
    PROVE  Frugal(t)
<1>1. op \in Ops /\ op' \in Ops /\ FramesFit /\ HistoryOK /\ budget.messages \in Nat
  BY Numbers DEF Sound
<1>2. Follows(op, op') /\ Cardinality(Pending(op', t)) <= Cardinality(Pending(op, t))
  BY <1>1, FailFacts, ShutFollows, PendingShut
<1>3. UNCHANGED <<flights, taken, allowed, budget>>
  BY DEF Fail, history
<1>4. frames["task"].pc = "fail" /\ (Ends("task") \/ Goes("task", "close"))
  BY DEF Fail, At
<1>5. \A q \in Processes : frames'[q].pc # "sent" \/ frames'[q] = frames[q]
  <2>1. CASE Ends("task")
    BY <1>1, <2>1, EndsFacts, IdleFrame, Managing DEF Turns
  <2>2. CASE Goes("task", "close")
    <3>1. Turns("task", Gone("task", "close")) /\ Gone("task", "close").pc = "close"
      BY <1>1, <2>2, PlainSteps, GoesFacts, Managing
    <3> QED
      BY <3>1 DEF Turns
  <2> QED
    BY <1>4, <2>1, <2>2
<1>6. budget'.messages <= budget.messages
  BY <1>1, <1>3
<1> QED
  BY <1>2, <1>3, <1>5, <1>6, FrugalSame

LEMMA FrugalStart ==
    ASSUME Sound, Sound', Start, NEW t \in Texts
    PROVE  Frugal(t)
<1>0. PICK s : s = SetToSeq(Old)
  OBVIOUS
<1>1. op \in Ops /\ op' \in Ops /\ NoneYet /\ FramesFit /\ FlightsFit /\ budget.messages \in Nat
  BY Numbers DEF Sound
<1>2. /\ op.phase = "none" /\ Goes("task", "ready") /\ UNCHANGED <<taken, allowed, budget>>
  BY StartIs DEF history
<1>3. /\ DOMAIN op'.deliveries = DOMAIN s
      /\ \A i \in DOMAIN s : op'.deliveries[i].status = "sending"
      /\ \A g \in flights' :
            \/ g \in flights
            \/ \E i \in DOMAIN s : g.text = s[i].text /\ g.by = s[i].by
  BY <1>0, StartFacts DEF Starting
<1>4. \A i \in DOMAIN s : s[i] \in flights
  BY <1>0, <1>1, OldListed DEF Old
<1>5. Follows(op, op')
  BY <1>1, <1>2 DEF Follows, NoneYet
<1>6. Pending(op', t) \subseteq Pending(op, t)
  BY <1>3 DEF Pending
<1>7. Cardinality(Pending(op', t)) <= Cardinality(Pending(op, t))
  BY <1>1, <1>6, PendingWithin
<1>8. \A q \in Processes : frames'[q].pc # "sent" \/ frames'[q] = frames[q]
  <2>1. Turns("task", Gone("task", "ready")) /\ Gone("task", "ready").pc = "ready"
    BY <1>1, <1>2, PlainSteps, GoesFacts, Managing
  <2> QED
    BY <2>1 DEF Turns
<1>9. \A f \in flights' : f.by = "client" /\ f.text = t =>
          \E g \in flights : g.by = "client" /\ g.text = t
  BY <1>3, <1>4
<1>10. budget'.messages <= budget.messages
  BY <1>1, <1>2
<1> QED
  BY <1>2, <1>5, <1>7, <1>8, <1>9, <1>10, FrugalSame

LEMMA FrugalDelivers ==
    ASSUME Sound, Sound', NEW q \in Processes, NEW o \in Ops, Follows(op, o),
           NEW i \in DOMAIN o.deliveries, NEW to \in Managers, NEW ok \in Oks,
           NEW no \in Nos, NEW then \in Thens, ok = "drain" => then = "evidence",
           ok = "release" => then \in {"evidence", "finish", "end", "idle"},
           Deliver(q, o, i, to, ok, no, then), frames[q].pc # "sent", taken' = taken,
           NEW t \in Texts,
           Cardinality(Pending(o, t)) + Unsent(t)' + allowed[t]
             <= Cardinality(Pending(op, t)) + Unsent(t) + allowed'[t]
    PROVE  Frugal(t)
<1>1. FramesFit /\ op \in Ops /\ op' \in Ops
  BY DEF Sound
<1>2. /\ Follows(o, op') /\ DOMAIN op'.deliveries \subseteq DOMAIN op'.deliveries
      /\ \/ Handed(q, o, i, to, ok, no, then)
         \/ PassedOn(q, o, i, to, ok, no, then)
  BY <1>1, DeliverFacts
<1>3. Follows(op, op')
  BY <1>2, FollowsThrough
<1>4. \A r \in Processes : r # q => frames'[r] = frames[r]
  BY <1>2 DEF Handed, PassedOn, Turns
<1>5. \A r \in Processes : r # q => Awaits(r, t)' <= Awaits(r, t)
  BY <1>3, <1>4, AwaitsLess
<1>6. Awaits(q, t) = 0
  BY DEF Awaits, One
<1>7. Cardinality(Pending(op', t)) + Awaits(q, t)' <= Cardinality(Pending(o, t))
  <2>0. Cardinality(Pending(op', t)) \in Nat /\ Cardinality(Pending(o, t)) \in Nat
    BY <1>1, PendingFinite
  <2>1. CASE Handed(q, o, i, to, ok, no, then)
    <3>1. /\ o.deliveries[i].status = "pending" /\ Marks(o, op', i, "sending")
          /\ frames'[q] = Frame("sent", to, i, ok, no, then)
      BY <2>1 DEF Handed, Turns
    <3>2. frames'[q].at = i /\ op'.deliveries[i].text = o.deliveries[i].text
      BY <3>1, FrameFields DEF Marks
    <3>3. CASE o.deliveries[i].text = t
      <4>1. Cardinality(Pending(op', t)) + 1 <= Cardinality(Pending(o, t))
        BY <1>1, <3>1, <3>3, PendingMarks
      <4>2. Awaits(q, t)' \in {0, 1}
        BY DEF Awaits, One
      <4> QED
        BY <2>0, <4>1, <4>2
    <3>4. CASE o.deliveries[i].text # t
      <4>1. Cardinality(Pending(op', t)) <= Cardinality(Pending(o, t))
        BY <1>1, <3>1, <3>4, PendingMarks
      <4>2. Awaits(q, t)' = 0
        BY <3>2, <3>4 DEF Awaits, One
      <4> QED
        BY <2>0, <4>1, <4>2
    <3> QED
      BY <3>3, <3>4
  <2>2. CASE PassedOn(q, o, i, to, ok, no, then)
    <3>1. op' = o /\ frames'[q].pc # "sent"
      BY <2>2 DEF PassedOn, Turns, Oks, Nos
    <3>2. Awaits(q, t)' = 0
      BY <3>1 DEF Awaits, One
    <3> QED
      BY <2>0, <3>1, <3>2
  <2> QED
    BY <1>2, <2>1, <2>2
<1>8. Flying(t)' <= Flying(t)
  <2>1. \A f \in flights' : f \in flights \/ f.by = q
    BY <1>2 DEF Handed, PassedOn
  <2>2. q # "client"
    BY DEF Processes
  <2> QED
    BY <2>1, <2>2, FlyingLess
<1>9. /\ taken[t] \in Nat /\ allowed[t] \in Nat /\ Cardinality(Pending(op, t)) \in Nat
      /\ Awaits("task", t) \in Nat /\ Awaits("request", t) \in Nat
      /\ Flying(t) \in Nat /\ Unsent(t) \in Nat
  BY AttemptTypes, Managing
<1>10. /\ Cardinality(Pending(op', t)) \in Nat /\ allowed'[t] \in Nat /\ taken'[t] = taken[t]
       /\ Awaits("task", t)' \in Nat /\ Awaits("request", t)' \in Nat
       /\ Flying(t)' \in Nat /\ Unsent(t)' \in Nat
  BY AttemptTypesNext, Managing
<1>11. Cardinality(Pending(o, t)) \in Nat
  BY PendingFinite
<1>12. Cardinality(Pending(op', t)) + Awaits("task", t)' + Awaits("request", t)'
         <= Cardinality(Pending(o, t)) + Awaits("task", t) + Awaits("request", t)
  <2>1. CASE q = "task"
    BY <1>5, <1>6, <1>7, <1>9, <1>10, <1>11, <2>1, Managing
  <2>2. CASE q = "request"
    BY <1>5, <1>6, <1>7, <1>9, <1>10, <1>11, <2>2, Managing
  <2> QED
    BY <2>1, <2>2 DEF Processes
<1>13. Attempts(t)' = taken'[t] + Cardinality(Pending(op', t)) + Awaits("task", t)'
                      + Awaits("request", t)' + Flying(t)' + Unsent(t)'
  BY DEF Attempts
<1> QED
  BY <1>8, <1>9, <1>10, <1>11, <1>12, <1>13 DEF Frugal, Attempts

(* A prompt that is listed is sent for the first time.                     *)
LEMMA UnsentListed ==
    ASSUME Sound, NEW text \in {Preparation, Kickoff}, NEW t \in Texts,
           Follows(Lists(op, text), op'), UNCHANGED <<allowed, budget>>
    PROVE  Cardinality(Pending(Lists(op, text), t)) + Unsent(t)' + allowed[t]
             <= Cardinality(Pending(op, t)) + Unsent(t) + allowed'[t]
<1>1. /\ op \in Ops /\ text \in Texts /\ text.kind # "message" /\ budget.messages \in Nat
  BY TextTypes, Numbers DEF Sound
<1>2. PICK p : p = Lists(op, text)
  OBVIOUS
<1>3. /\ p \in Ops /\ Follows(op, p) /\ Follows(p, op')
      /\ p = op \/ (p = Appended(op, text) /\ ~HasText(op, text))
      /\ HasText(p, text)
  <2>1. /\ p \in Ops /\ Follows(op, p) /\ Follows(p, op')
    BY <1>1, <1>2, Listed
  <2>2. p = op \/ (p = Appended(op, text) /\ ~HasText(op, text))
    BY <1>2 DEF Lists
  <2>3. HasText(p, text)
    <3>1. HasText(op, text) => HasText(p, text)
      BY <1>2 DEF Lists
    <3>2. PICK a, n : a = Appended(op, text) /\ n = Len(op.deliveries) + 1
      OBVIOUS
    <3>3. /\ DOMAIN a.deliveries = 1..n /\ n \in Nat /\ n # 0
          /\ a.deliveries[n] = [text |-> text, status |-> "pending"]
      BY <1>1, <3>2, Appending
    <3>4. n \in DOMAIN a.deliveries /\ a.deliveries[n].text = text
      BY <3>3
    <3>5. HasText(a, text)
      BY <3>4 DEF HasText, Places
    <3>6. HasText(op, text) \/ p = a
      BY <1>2, <3>2 DEF Lists
    <3> QED
      BY <3>1, <3>5, <3>6
  <2> QED
    BY <2>1, <2>2, <2>3
<1>4. Follows(op, op')
  BY <1>3, FollowsThrough
<1>5. Unsent(t)' <= Unsent(t)
  BY <1>1, <1>4, UnsentLess
<1>6. /\ allowed[t] \in Nat /\ allowed'[t] = allowed[t] /\ Cardinality(Pending(op, t)) \in Nat
      /\ Unsent(t) \in Nat /\ Unsent(t)' \in Nat /\ Cardinality(Pending(p, t)) \in Nat
  BY <1>3, AttemptTypes, PendingFinite DEF Unsent, One
<1>7. CASE p = op
  BY <1>2, <1>5, <1>6, <1>7
<1>8. CASE p = Appended(op, text) /\ ~HasText(op, text)
  <2>1. CASE t # text
    <3>1. Cardinality(Pending(p, t)) <= Cardinality(Pending(op, t))
      BY <1>1, <1>8, <2>1, PendingAppended
    <3> QED
      BY <1>2, <1>5, <1>6, <3>1
  <2>2. CASE t = text
    <3>1. Cardinality(Pending(p, t)) <= Cardinality(Pending(op, t)) + 1
      BY <1>1, <1>8, PendingAppended
    <3>2. HasText(op', t)
      BY <1>3, <2>2, StaysListed
    <3>3. Unsent(t) = 1 /\ Unsent(t)' = 0
      BY <1>1, <1>8, <2>2, <3>2 DEF Unsent, One
    <3> QED
      BY <1>2, <1>6, <3>1, <3>3
  <2> QED
    BY <2>1, <2>2
<1> QED
  BY <1>3, <1>7, <1>8

LEMMA FrugalBrief ==
    ASSUME Sound, Sound', Brief, NEW t \in Texts
    PROVE  Frugal(t)
<1>1. /\ op \in Ops /\ FramesFit /\ frames["task"].pc = "brief" /\ Preparation \in Texts
      /\ UNCHANGED <<taken, allowed, budget>> /\ budget.messages \in Nat
  BY TextTypes, Numbers DEF Sound, Brief, At, history
<1>2. PICK o, i : o = Lists(op, Preparation) /\ i = First(Places(o, Preparation))
  OBVIOUS
<1>3. CASE Deliver("task", o, i, "old", "receipt", "end", "idle")
  <2>1. /\ o \in Ops /\ Follows(op, o) /\ i \in DOMAIN o.deliveries
    BY <1>1, <1>2, Listed
  <2>2. "receipt" \in Oks /\ "end" \in Nos /\ "idle" \in Thens
    BY DEF Oks, Nos, Thens
  <2>3. Follows(o, op')
    BY <1>3, <2>1, DeliversEntry
  <2>4. Cardinality(Pending(o, t)) + Unsent(t)' + allowed[t]
          <= Cardinality(Pending(op, t)) + Unsent(t) + allowed'[t]
    BY <1>1, <1>2, <2>3, UnsentListed
  <2> QED
    BY <1>1, <1>3, <2>1, <2>2, <2>4, Managing, FrugalDelivers
<1>4. CASE Ends("task") /\ UNCHANGED <<op, flights>>
  <2>1. Turns("task", Idle)
    BY <1>1, <1>4, EndsFacts, Managing
  <2>2. \A q \in Processes : frames'[q].pc # "sent" \/ frames'[q] = frames[q]
    BY <2>1, IdleFrame DEF Turns
  <2>3. Cardinality(Pending(op', t)) <= Cardinality(Pending(op, t))
        /\ budget'.messages <= budget.messages
    BY <1>1, <1>4, PendingFinite
  <2> QED
    BY <1>1, <1>4, <2>2, <2>3, FollowsSame, FrugalSame
<1> QED
  BY <1>2, <1>3, <1>4 DEF Brief

LEMMA FrugalKicksOff ==
    ASSUME Sound, Sound', KicksOff, NEW t \in Texts
    PROVE  Frugal(t)
<1>1. /\ op \in Ops /\ frames["task"].pc = "kickoff" /\ UNCHANGED <<taken, allowed, budget>>
  BY DEF Sound, KicksOff, At, history
<1>2. PICK o \in Ops : \E i \in DOMAIN o.deliveries :
         /\ o.deliveries = Lists(op, Kickoff).deliveries /\ Follows(op, o)
         /\ Deliver("task", o, i, "new", "drain", "end", "evidence")
  BY <1>1, KickoffEntry
<1>3. PICK i \in DOMAIN o.deliveries : Deliver("task", o, i, "new", "drain", "end", "evidence")
  BY <1>2
<1>4. "drain" \in Oks /\ "end" \in Nos /\ "evidence" \in Thens
  BY DEF Oks, Nos, Thens
<1>5. Follows(o, op')
  BY <1>3, DeliversEntry
<1>6. Follows(Lists(op, Kickoff), op') /\ Pending(Lists(op, Kickoff), t) = Pending(o, t)
  BY <1>2, <1>5 DEF Follows, Pending
<1>7. Cardinality(Pending(o, t)) + Unsent(t)' + allowed[t]
        <= Cardinality(Pending(op, t)) + Unsent(t) + allowed'[t]
  BY <1>1, <1>6, UnsentListed
<1> QED
  BY <1>1, <1>2, <1>3, <1>4, <1>7, Managing, FrugalDelivers

LEMMA FrugalRelease ==
    ASSUME Sound, Sound', NEW q \in Processes, Release(q), NEW t \in Texts
    PROVE  Frugal(t)
<1>1. /\ op \in Ops /\ FramesFit /\ frames[q].pc = "release"
      /\ UNCHANGED <<taken, allowed, budget>> /\ budget.messages \in Nat
  BY Numbers DEF Sound, Release, At, history
<1> DEFINE open == {i \in DOMAIN op.deliveries :
                       Releasable(op.deliveries[i].text) /\ ~Settled(op.deliveries[i])}
           f == frames[q]
<1>2. /\ f \in Frames /\ f.to \in Managers /\ f.then \in Thens
      /\ f.then \in {"evidence", "finish", "end", "idle"}
  BY <1>1, FrameTypes DEF FramesFit, FrameOK, Follow
<1>3. CASE open # {} /\ Deliver(q, op, First(open), f.to, "release", Ending(q), f.then)
  <2>1. open \in SUBSET Nat
    BY <1>1, Entries
  <2>2. First(open) \in DOMAIN op.deliveries
    BY <1>3, <2>1, FirstIs
  <2>3. "release" \in Oks /\ Ending(q) \in Nos
    BY DEF Oks, Nos, Ending
  <2> HIDE DEF open, f
  <2>4. Follows(op, op')
    BY <1>1, <1>3, <2>2, DeliversEntry
  <2>5. Unsent(t)' <= Unsent(t)
    BY <1>1, <2>4, UnsentLess
  <2>6. Cardinality(Pending(op, t)) + Unsent(t)' + allowed[t]
          <= Cardinality(Pending(op, t)) + Unsent(t) + allowed'[t]
    BY <1>1, <2>5, AttemptTypes, AttemptTypesNext
  <2> QED
    BY <1>1, <1>2, <1>3, <2>2, <2>3, <2>6, FollowsItself, FrugalDelivers
<1>4. CASE Goes(q, f.then) /\ UNCHANGED <<op, flights>>
  <2>1. f.then \in Steps /\ f.then # "sent"
    BY <1>2, PlainSteps
  <2>2. Turns(q, Gone(q, f.then)) /\ Gone(q, f.then).pc # "sent"
    BY <1>1, <1>4, <2>1, GoesFacts
  <2>3. \A r \in Processes : frames'[r].pc # "sent" \/ frames'[r] = frames[r]
    BY <2>2 DEF Turns
  <2>4. Cardinality(Pending(op', t)) <= Cardinality(Pending(op, t))
        /\ budget'.messages <= budget.messages
    BY <1>1, <1>4, PendingFinite
  <2> QED
    BY <1>1, <1>4, <2>3, <2>4, FollowsSame, FrugalSame
<1> QED
  BY <1>3, <1>4 DEF Release

(* A message is either handed to the manager or held, which is its one send. *)
LEMMA FrugalSend ==
    ASSUME Sound, Sound', NEW n \in 1..MaxMessages, NEW m \in Managers, Send(n, m), NEW t \in Texts
    PROVE  Frugal(t)
<1>1. /\ op \in Ops /\ HistoryOK /\ Message(n) \in Texts /\ n \in Nat
      /\ Message(n).kind = "message" /\ Message(n).n = n
  BY TextTypes DEF Sound
<1>2. /\ budget.messages = n /\ Spend("messages") /\ UNCHANGED <<frames, taken, allowed, cancelled>>
      /\ \/ op' = Appended(op, Message(n)) /\ UNCHANGED flights
         \/ /\ flights' = flights \cup
                  {[text |-> Message(n), to |-> m, at |-> 0, by |-> "client"]}
            /\ UNCHANGED op
  BY DEF Send
<1>3. budget'.messages = n - 1
  BY <1>1, <1>2 DEF Spend, HistoryOK
<1>4. budget'.messages \in Nat /\ budget'.messages <= budget.messages /\ ~(n <= budget'.messages)
  BY <1>1, <1>2, <1>3, Numbers, BoundsAssumption
<1>5. Follows(op, op')
  BY <1>1, <1>2, Appending, FollowsSame
<1>6. \A q \in Processes : Awaits(q, t)' <= Awaits(q, t)
  BY <1>2, <1>5, AwaitsLess
<1>7. Unsent(t)' <= Unsent(t)
  BY <1>1, <1>2, <1>4, <1>5, UnsentLess
<1>8. /\ taken[t] \in Nat /\ allowed[t] \in Nat /\ Cardinality(Pending(op, t)) \in Nat
      /\ Awaits("task", t) \in Nat /\ Awaits("request", t) \in Nat
      /\ Flying(t) \in Nat /\ Unsent(t) \in Nat
  BY AttemptTypes, Managing
<1>9. /\ Cardinality(Pending(op', t)) \in Nat
      /\ Awaits("task", t)' \in Nat /\ Awaits("request", t)' \in Nat
      /\ Flying(t)' \in Nat /\ Unsent(t)' \in Nat
  BY AttemptTypesNext, Managing
<1>10. Cardinality(Pending(op', t)) + Flying(t)' + Unsent(t)'
         <= Cardinality(Pending(op, t)) + Flying(t) + Unsent(t)
  <2>1. CASE op' = Appended(op, Message(n)) /\ UNCHANGED flights
    <3>1. Flying(t)' = Flying(t)
      BY <2>1 DEF Flying
    <3>2. CASE t # Message(n)
      <4>1. Cardinality(Pending(op', t)) <= Cardinality(Pending(op, t))
        BY <1>1, <2>1, <3>2, PendingAppended
      <4> QED
        BY <1>7, <1>8, <1>9, <3>1, <4>1
    <3>3. CASE t = Message(n)
      <4>1. Cardinality(Pending(op', t)) <= Cardinality(Pending(op, t)) + 1
        BY <1>1, <2>1, PendingAppended
      <4>2. Unsent(t) = 1 /\ Unsent(t)' = 0
        BY <1>1, <1>2, <1>4, <3>3 DEF Unsent, One
      <4> QED
        BY <1>8, <1>9, <3>1, <4>1, <4>2
    <3> QED
      BY <3>2, <3>3
  <2>2. CASE /\ flights' = flights \cup
                   {[text |-> Message(n), to |-> m, at |-> 0, by |-> "client"]}
             /\ UNCHANGED op
    <3>1. Cardinality(Pending(op', t)) = Cardinality(Pending(op, t))
      BY <2>2
    <3>2. CASE t # Message(n)
      <4>1. \A f \in flights' : f.by = "client" /\ f.text = t =>
                \E g \in flights : g.by = "client" /\ g.text = t
        BY <2>2, <3>2
      <4>2. Flying(t)' <= Flying(t)
        BY <4>1, FlyingLess
      <4> QED
        BY <1>7, <1>8, <1>9, <3>1, <4>2
    <3>3. CASE t = Message(n)
      <4>1. Flying(t)' <= 1
        BY DEF Flying, One
      <4>2. Unsent(t) = 1 /\ Unsent(t)' = 0
        BY <1>1, <1>2, <1>4, <3>3 DEF Unsent, One
      <4> QED
        BY <1>8, <1>9, <3>1, <4>1, <4>2
    <3> QED
      BY <3>2, <3>3
  <2> QED
    BY <1>2, <2>1, <2>2
<1>11. /\ Awaits("task", t)' <= Awaits("task", t) /\ Awaits("request", t)' <= Awaits("request", t)
  BY <1>6, Managing
<1>12. Attempts(t)' = taken[t] + Cardinality(Pending(op', t)) + Awaits("task", t)'
                      + Awaits("request", t)' + Flying(t)' + Unsent(t)'
  BY <1>2 DEF Attempts
<1> QED
  BY <1>2, <1>8, <1>9, <1>10, <1>11, <1>12 DEF Frugal, Attempts

(* What the end of a send, which its entry may have captured, leaves open.  *)
LEMMA HeardPending ==
    ASSUME Sound, NEW f \in flights, NEW x \in Outcomes(f.to), Reaches(f.text, x), NEW p,
           p = Noted(op, f.at, x), NEW t \in Texts
    PROVE  /\ p \in Ops
           /\ f.text # t => /\ taken'[t] = taken[t]
                            /\ Cardinality(Pending(p, t)) <= Cardinality(Pending(op, t))
           /\ taken'[t] + Cardinality(Pending(p, t)) <= taken[t] + Cardinality(Pending(op, t)) + 1
<1>1. op \in Ops /\ HistoryOK /\ f \in Flight /\ FlightOK(f)
  BY DEF Sound, FlightsFit
<1>2. /\ f.text \in Texts /\ f.at \in Nat
      /\ f.at # 0 => f.at \in DOMAIN op.deliveries /\ op.deliveries[f.at].text = f.text
      /\ x \in [result : {"accepted", "rejected", "uncertain"}, reached : BOOLEAN]
      /\ (x.result = "rejected" => ~x.reached)
  BY <1>1, OutcomesFacts DEF Flight, FlightOK
<1>3. /\ p \in Ops /\ Captured(op, p, f.at, x)
  BY <1>1, <1>2, NotedFacts
<1>4. /\ taken'[f.text] = taken[f.text] + (IF x.reached THEN 1 ELSE 0)
      /\ f.text # t => taken'[t] = taken[t]
      /\ taken[t] \in Nat
  BY <1>1, <1>2, TakenMore DEF HistoryOK
<1>5. taken'[t] \in {taken[t], taken[t] + 1} /\ (~x.reached => taken'[t] = taken[t])
  BY <1>4
<1>6. Cardinality(Pending(p, t)) \in Nat /\ Cardinality(Pending(op, t)) \in Nat
  BY <1>1, <1>3, PendingFinite
<1>7. CASE p = op
  BY <1>4, <1>5, <1>6, <1>1, <1>7
<1>8. CASE /\ f.at # 0
           /\ Marks(op, p, f.at, IF x.result = "rejected" THEN "pending" ELSE x.result)
  <2>1. PICK s : s = IF x.result = "rejected" THEN "pending" ELSE x.result
    OBVIOUS
  <2>2. /\ Marks(op, p, f.at, s) /\ f.at \in DOMAIN op.deliveries
        /\ op.deliveries[f.at].text = f.text /\ (s = "pending" => ~x.reached)
    BY <1>2, <1>8, <2>1
  <2>3. /\ f.text # t \/ s # "pending" =>
               Cardinality(Pending(p, t)) <= Cardinality(Pending(op, t))
        /\ Cardinality(Pending(p, t)) <= Cardinality(Pending(op, t)) + 1
    BY <1>1, <1>3, <2>2, PendingMarks
  <2> QED
    BY <1>3, <1>4, <1>5, <1>6, <2>2, <2>3
<1> QED
  BY <1>3, <1>7, <1>8 DEF Captured

LEMMA FrugalSendEnds ==
    ASSUME Sound, Sound', NEW f \in flights, SendEnds(f), NEW t \in Texts
    PROVE  Frugal(t)
<1>1. PICK x \in Outcomes(f.to) :
         /\ Costs(f.to, x) /\ Reaches(f.text, x) /\ op' = Noted(op, f.at, x)
  BY DEF SendEnds
<1>2. /\ f.by = "client" /\ flights' = flights \ {f} /\ UNCHANGED <<frames, allowed>>
      /\ FlightsFit /\ HistoryOK
  BY DEF SendEnds, Sound
<1>3. /\ op' \in Ops
      /\ f.text # t => /\ taken'[t] = taken[t]
                       /\ Cardinality(Pending(op', t)) <= Cardinality(Pending(op, t))
      /\ taken'[t] + Cardinality(Pending(op', t)) <= taken[t] + Cardinality(Pending(op, t)) + 1
  BY <1>1, HeardPending
<1>4. Follows(op, op')
  BY <1>1, HeardEntry
<1>5. budget'.messages = budget.messages /\ budget.messages \in Nat
  <2>1. UNCHANGED budget \/ Fault
    BY <1>1 DEF Costs
  <2> QED
    BY <1>2, <2>1, Numbers DEF Fault, Spend, HistoryOK
<1>6. CASE f.text # t
  <2>1. \A q \in Processes : frames'[q].pc # "sent" \/ frames'[q] = frames[q]
    BY <1>2
  <2>2. \A g \in flights' : g.by = "client" /\ g.text = t =>
            \E h \in flights : h.by = "client" /\ h.text = t
    BY <1>2
  <2>3. budget'.messages <= budget.messages /\ allowed'[t] = allowed[t]
    BY <1>2, <1>5
  <2> QED
    BY <1>3, <1>4, <1>6, <2>1, <2>2, <2>3, FrugalSame
<1>7. CASE f.text = t
  <2>1. Flying(t) = 1 /\ Flying(t)' = 0
    <3>1. \A g \in flights' : ~(g.by = "client" /\ g.text = t)
      BY <1>2, <1>7 DEF FlightsFit
    <3>2. \E g \in flights : g.by = "client" /\ g.text = t
      BY <1>2, <1>7
    <3> QED
      BY <3>1, <3>2 DEF Flying, One
  <2>2. Unsent(t)' <= Unsent(t)
    BY <1>4, <1>5, UnsentLess
  <2>3. \A q \in Processes : Awaits(q, t)' <= Awaits(q, t)
    BY <1>2, <1>4, AwaitsLess
  <2>4. /\ Awaits("task", t)' <= Awaits("task", t)
        /\ Awaits("request", t)' <= Awaits("request", t)
    BY <2>3, Managing
  <2>5. /\ taken[t] \in Nat /\ allowed[t] \in Nat /\ Cardinality(Pending(op, t)) \in Nat
        /\ Awaits("task", t) \in Nat /\ Awaits("request", t) \in Nat
        /\ Flying(t) \in Nat /\ Unsent(t) \in Nat
    BY AttemptTypes, Managing
  <2>6. /\ taken'[t] \in Nat /\ Cardinality(Pending(op', t)) \in Nat
        /\ Awaits("task", t)' \in Nat /\ Awaits("request", t)' \in Nat
        /\ Flying(t)' \in Nat /\ Unsent(t)' \in Nat
    BY AttemptTypesNext, Managing
  <2>7. Attempts(t)' = taken'[t] + Cardinality(Pending(op', t)) + Awaits("task", t)'
                       + Awaits("request", t)' + Flying(t)' + Unsent(t)'
    BY DEF Attempts
  <2> QED
    BY <1>2, <1>3, <2>1, <2>2, <2>4, <2>5, <2>6, <2>7 DEF Frugal, Attempts
<1> QED
  BY <1>6, <1>7

(* The steps of the wakes only send reports.                               *)
LEMMA FrugalWakeSent ==
    ASSUME Sound, Sound', NEW f \in flights, WakeSent(f), NEW t \in Once
    PROVE  Frugal(t)
<1>1. PICK x \in Outcomes(f.to) :
         /\ Costs(f.to, x) /\ Reaches(f.text, x)
         /\ \/ op' = Told(Noted(op, f.at, x), f.text.n) /\ UNCHANGED frames
            \/ /\ op' = Noted(op, f.at, x)
               /\ frames' = IF wakes[f.to].inline THEN [frames EXCEPT !["task"].pc = "fail"]
                            ELSE frames
  BY DEF WakeSent
<1>2. /\ f.by = "wake" /\ flights' = flights \ {f} /\ UNCHANGED allowed
      /\ FlightsFit /\ HistoryOK /\ FramesFit
  BY DEF WakeSent, Sound
<1>3. t \in Texts /\ f.text # t
  BY <1>2 DEF Once, FlightsFit, FlightOK
<1>4. PICK p : p = Noted(op, f.at, x)
  OBVIOUS
<1>5. /\ p \in Ops /\ taken'[t] = taken[t]
      /\ Cardinality(Pending(p, t)) <= Cardinality(Pending(op, t))
  BY <1>1, <1>3, <1>4, HeardPending
<1>6. Follows(op, p)
  BY <1>1, <1>4, HeardEntry
<1>7. op'.deliveries = p.deliveries
  BY <1>1, <1>4, <1>5, ToldFacts
<1>8. /\ Follows(op, op') /\ Cardinality(Pending(op', t)) <= Cardinality(Pending(op, t))
  BY <1>5, <1>6, <1>7, PendingSame DEF Follows
<1>9. budget'.messages <= budget.messages
  <2>1. UNCHANGED budget \/ Fault
    BY <1>1 DEF Costs
  <2> QED
    BY <1>2, <2>1, Numbers DEF Fault, Spend, HistoryOK
<1>10. \A q \in Processes : frames'[q].pc # "sent" \/ frames'[q] = frames[q]
  <2>1. frames' = frames \/ frames' = [frames EXCEPT !["task"].pc = "fail"]
    BY <1>1
  <2>2. frames \in [Processes -> Frames]
    BY <1>2 DEF FramesFit
  <2> QED
    BY <2>1, <2>2, Managing DEF Frames
<1>11. \A g \in flights' : g.by = "client" /\ g.text = t =>
           \E h \in flights : h.by = "client" /\ h.text = t
  BY <1>2
<1> QED
  BY <1>2, <1>3, <1>5, <1>8, <1>9, <1>10, <1>11, FrugalSame

LEMMA FrugalWakeSends ==
    ASSUME Sound, Sound', NEW m \in Managers, WakeSends(m), NEW t \in Once
    PROVE  Frugal(t)
<1>1. op \in Ops /\ HistoryOK /\ WatchOK /\ WakesFit /\ t \in Texts /\ budget.messages \in Nat
  BY Numbers DEF Sound, Once
<1>2. wakes[m].pc = "send" /\ UNCHANGED <<frames, taken, allowed, budget>>
  BY DEF WakeSends, history
<1>3. \A g \in flights' : g.by = "client" => g \in flights
  BY DEF WakeSends
<1>4. Follows(op, op') /\ Cardinality(Pending(op', t)) <= Cardinality(Pending(op, t))
  <2>1. CASE Current(m) /\ op' = Told(Appended(op, Report(worker.turn)), worker.turn)
    <3>1. worker.turn \in 1..MaxTurns
      <4>1. wakes[m].turn >= 1 /\ worker.turn = wakes[m].turn
        BY <1>1, <1>2, <2>1 DEF WakesFit, Current
      <4> QED
        BY <1>1, <4>1, Numbers
    <3>2. PICK text : text = Report(worker.turn)
      OBVIOUS
    <3>3. text \in Texts /\ text # t
      BY <3>1, <3>2, TextTypes DEF Once
    <3>4. PICK p : p = Appended(op, text)
      OBVIOUS
    <3>5. /\ p \in Ops /\ Follows(op, p)
          /\ Cardinality(Pending(p, t)) <= Cardinality(Pending(op, t))
      BY <1>1, <3>3, <3>4, Appending, PendingAppended
    <3>6. op'.deliveries = p.deliveries
      BY <2>1, <3>2, <3>4, <3>5, ToldFacts
    <3> QED
      BY <3>5, <3>6, PendingSame DEF Follows
  <2>2. CASE UNCHANGED op
    BY <1>1, <2>2, FollowsSame, PendingFinite
  <2> QED
    BY <2>1, <2>2 DEF WakeSends
<1>5. \A g \in flights' : g.by = "client" /\ g.text = t =>
          \E h \in flights : h.by = "client" /\ h.text = t
  BY <1>3
<1>6. budget'.messages <= budget.messages
      /\ \A q \in Processes : frames'[q].pc # "sent" \/ frames'[q] = frames[q]
  BY <1>1, <1>2
<1> QED
  BY <1>1, <1>2, <1>4, <1>5, <1>6, FrugalSame

LEMMA FrugalDrainFails ==
    ASSUME Sound, Sound', DrainFails, NEW t \in Once
    PROVE  Frugal(t)
<1>1. /\ op \in Ops /\ HistoryOK /\ FramesFit /\ FlightsFit /\ t \in Texts
      /\ UNCHANGED allowed /\ Fault /\ Goes("task", "fail")
  BY DEF DrainFails, Sound, Once
<1>2. budget'.messages <= budget.messages
  BY <1>1, Numbers DEF Fault, Spend, HistoryOK
<1>3. \A q \in Processes : frames'[q].pc # "sent" \/ frames'[q] = frames[q]
  <2>1. Turns("task", Gone("task", "fail")) /\ Gone("task", "fail").pc = "fail"
    BY <1>1, PlainSteps, GoesFacts, Managing
  <2> QED
    BY <2>1 DEF Turns
<1>4. \A g \in flights' : g \in flights
  BY DEF DrainFails
<1>5. /\ Follows(op, op') /\ taken'[t] = taken[t]
      /\ Cardinality(Pending(op', t)) <= Cardinality(Pending(op, t))
  <2>1. CASE UNCHANGED <<op, taken>>
    BY <1>1, <2>1, FollowsSame, PendingFinite
  <2>2. ASSUME NEW f \in flights, f.by = "wake", NEW x \in Outcomes(f.to), Reaches(f.text, x),
               op' = Noted(op, f.at, x)
        PROVE  /\ Follows(op, op') /\ taken'[t] = taken[t]
               /\ Cardinality(Pending(op', t)) <= Cardinality(Pending(op, t))
    <3>1. f.text # t
      BY <1>1, <2>2 DEF Once, FlightsFit, FlightOK
    <3> QED
      BY <1>1, <2>2, <3>1, HeardPending, HeardEntry
  <2> QED
    BY <2>1, <2>2 DEF DrainFails
<1> QED
  BY <1>1, <1>2, <1>3, <1>4, <1>5, FrugalSame

(* The outcome of a delivery that a frame awaited.                         *)
LEMMA FrugalSentEnds ==
    ASSUME Sound, Sound', NEW q \in Processes, SentEnds(q), NEW t \in Texts
    PROVE  Frugal(t)
<1>1. op \in Ops /\ op' \in Ops /\ FramesFit /\ HistoryOK /\ frames[q].pc = "sent"
  BY DEF Sound, SentEnds, At
<1>2. PICK at : at = frames[q].at
  OBVIOUS
<1>3. at \in DOMAIN op.deliveries
  BY <1>1, <1>2 DEF FramesFit, FrameOK
<1>4. PICK text : text = op.deliveries[at].text
  OBVIOUS
<1>5. text \in Texts
  BY <1>1, <1>3, <1>4, Entries
<1>6. PICK x \in Outcomes(frames[q].to) :
         /\ Costs(frames[q].to, x) /\ Reaches(text, x) /\ op' = Delivered(op, at, x)
         /\ Returns(q, frames[q], x.result = "accepted")
  BY <1>2, <1>4 DEF SentEnds
<1>7. /\ UNCHANGED allowed /\ \A g \in flights' : g \in flights
  BY DEF SentEnds
<1>8. /\ x \in [result : {"accepted", "rejected", "uncertain"}, reached : BOOLEAN]
      /\ (x.result = "rejected" => ~x.reached)
  BY OutcomesFacts
<1>9. PICK s : s = IF x.result = "rejected" THEN "pending" ELSE x.result
  OBVIOUS
<1>10. Follows(op, op') /\ Marks(op, op', at, s) /\ (s = "pending" => ~x.reached)
  BY <1>1, <1>3, <1>6, <1>8, <1>9, DeliveredFacts
<1>11. budget'.messages <= budget.messages
       /\ budget.messages \in Nat /\ budget'.messages \in Nat
  <2>1. UNCHANGED budget \/ Fault
    BY <1>6 DEF Costs
  <2> QED
    BY <1>1, <2>1, Numbers DEF Fault, Spend, HistoryOK
<1>12. /\ taken'[text] = taken[text] + (IF x.reached THEN 1 ELSE 0)
       /\ text # t => taken'[t] = taken[t]
       /\ taken[t] \in Nat
  BY <1>1, <1>5, <1>6, <1>8, TakenMore DEF HistoryOK
<1>13. /\ text # t \/ s # "pending" =>
              Cardinality(Pending(op', t)) <= Cardinality(Pending(op, t))
       /\ Cardinality(Pending(op', t)) <= Cardinality(Pending(op, t)) + 1
  BY <1>1, <1>3, <1>4, <1>10, PendingMarks
<1>14. /\ \A r \in Processes : r # q => frames'[r] = frames[r]
       /\ frames'[q].pc # "sent"
  <2>1. PICK f : f = frames[q]
    OBVIOUS
  <2>2. PICK done \in BOOLEAN : done = (x.result = "accepted")
    OBVIOUS
  <2>3. f \in Frames /\ f.at \in DOMAIN op.deliveries /\ Follow(f) /\ f.pc = "sent"
    BY <1>1, <2>1 DEF FramesFit, FrameOK
  <2>4. /\ f.ok = "drain" => f.then = "evidence"
        /\ f.ok = "release" => f.then \in {"evidence", "finish", "end", "idle"}
    BY <2>3 DEF Follow
  <2>5. Returns(q, f, done)
    BY <1>6, <2>1, <2>2
  <2>6. PICK r : r = Returned(f.to, f.at, f.ok, f.no, f.then, done)
    OBVIOUS
  <2>7. Turns(q, r) /\ r.pc # "sent"
    BY <1>1, <2>3, <2>4, <2>5, <2>6, ReturnsFacts
  <2> QED
    BY <2>7 DEF Turns
<1>15. Awaits(q, t)' = 0
  BY <1>14 DEF Awaits, One
<1>16. \A r \in Processes : r # q => Awaits(r, t)' <= Awaits(r, t)
  BY <1>10, <1>14, AwaitsLess
<1>17. Unsent(t)' <= Unsent(t) /\ Flying(t)' <= Flying(t)
  BY <1>7, <1>10, <1>11, UnsentLess, FlyingLess
<1>18. /\ taken[t] \in Nat /\ allowed[t] \in Nat /\ Cardinality(Pending(op, t)) \in Nat
       /\ Awaits("task", t) \in Nat /\ Awaits("request", t) \in Nat
       /\ Flying(t) \in Nat /\ Unsent(t) \in Nat
  BY AttemptTypes, Managing
<1>19. /\ taken'[t] \in Nat /\ Cardinality(Pending(op', t)) \in Nat
       /\ Awaits("task", t)' \in Nat /\ Awaits("request", t)' \in Nat
       /\ Flying(t)' \in Nat /\ Unsent(t)' \in Nat
  BY AttemptTypesNext, Managing
<1>20. taken'[t] + Cardinality(Pending(op', t)) + Awaits(q, t)'
         <= taken[t] + Cardinality(Pending(op, t)) + Awaits(q, t)
  <2>1. CASE text # t
    <3>1. Awaits(q, t) \in Nat
      BY AttemptTypes
    <3> QED
      BY <1>12, <1>13, <1>15, <1>18, <1>19, <2>1, <3>1
  <2>2. CASE text = t
    <3>1. Awaits(q, t) = 1
      BY <1>1, <1>2, <1>4, <2>2 DEF Awaits, One
    <3>2. taken'[t] \in {taken[t], taken[t] + 1} /\ (~x.reached => taken'[t] = taken[t])
      BY <1>12, <2>2
    <3> QED
      BY <1>10, <1>13, <1>15, <1>18, <1>19, <3>1, <3>2
  <2> QED
    BY <2>1, <2>2
<1>21. taken'[t] + Cardinality(Pending(op', t)) + Awaits("task", t)' + Awaits("request", t)'
         <= taken[t] + Cardinality(Pending(op, t)) + Awaits("task", t) + Awaits("request", t)
  <2>1. CASE q = "task"
    BY <1>16, <1>18, <1>19, <1>20, <2>1, Managing
  <2>2. CASE q = "request"
    BY <1>16, <1>18, <1>19, <1>20, <2>2, Managing
  <2> QED
    BY <2>1, <2>2 DEF Processes
<1>22. Attempts(t)' = taken'[t] + Cardinality(Pending(op', t)) + Awaits("task", t)'
                      + Awaits("request", t)' + Flying(t)' + Unsent(t)'
  BY DEF Attempts
<1> QED
  BY <1>7, <1>17, <1>18, <1>19, <1>21, <1>22 DEF Frugal, Attempts

LEMMA AppendedLast ==
    ASSUME NEW o \in Ops, NEW text \in Texts
    PROVE  Len(o.deliveries) + 1 \in DOMAIN Appended(o, text).deliveries
<1>1. PICK p, n : p = Appended(o, text) /\ n = Len(o.deliveries) + 1
  OBVIOUS
<1>2. DOMAIN p.deliveries = 1..n /\ n \in Nat /\ n # 0
  BY <1>1, Appending
<1>3. n \in 1..n
  BY <1>2
<1> QED
  BY <1>1, <1>2, <1>3

(* What the owner has sent again is allowed once more.                     *)
LEMMA FrugalResolves ==
    ASSUME Sound, Sound', NEW o \in Ops, Follows(op, o), NEW t \in Texts,
           Cardinality(Pending(o, t)) <= Cardinality(Pending(op, t)),
           NEW i \in DOMAIN o.deliveries, NEW retry, Resolves(o, i, retry),
           frames["request"].pc = "idle", Spend("requests"), UNCHANGED taken
    PROVE  Frugal(t)
<1>1. op \in Ops /\ HistoryOK /\ FramesFit
  BY DEF Sound
<1>2. PICK s : s = Settling(o, i)
  OBVIOUS
<1>3. /\ s \in Ops /\ Follows(o, s) /\ Marks(o, s, i, "reconciled")
      /\ Len(s.deliveries) = Len(o.deliveries)
  BY <1>2, SettlingFacts
<1>4. Follows(op, s) /\ Cardinality(Pending(s, t)) <= Cardinality(Pending(o, t))
  BY <1>3, FollowsThrough, PendingMarks
<1>5. PICK text : text = o.deliveries[i].text
  OBVIOUS
<1>6. text \in Texts /\ Onward(o, i) \in Thens /\ i \in Nat
  BY <1>5, Entries DEF Onward, Thens
<1>7. PICK then : then = Onward(o, i)
  OBVIOUS
<1>8. budget'.messages <= budget.messages /\ budget.messages \in Nat /\ budget'.messages \in Nat
  BY <1>1, Numbers DEF Spend, HistoryOK
<1>9. /\ Cardinality(Pending(s, t)) \in Nat /\ Cardinality(Pending(o, t)) \in Nat
      /\ Cardinality(Pending(op, t)) \in Nat
  BY <1>1, <1>3, PendingFinite
<1>10. CASE /\ allowed' = [allowed EXCEPT ![text] = @ + 1]
            /\ Deliver("request", Appended(s, text), Len(o.deliveries) + 1, Owner(o),
                       "resolved", "resolved", then)
  <2>1. PICK p, n : p = Appended(s, text) /\ n = Len(o.deliveries) + 1
    OBVIOUS
  <2>2. p \in Ops /\ Follows(s, p) /\ n \in DOMAIN p.deliveries
    <3>1. s \in Ops /\ text \in Texts /\ n = Len(s.deliveries) + 1
      BY <1>3, <1>6, <2>1
    <3>2. p \in Ops /\ Follows(s, p)
      BY <2>1, <3>1, Appending
    <3>3. n \in DOMAIN p.deliveries
      BY <2>1, <3>1, AppendedLast
    <3> QED
      BY <3>2, <3>3
  <2>3. Follows(op, p) /\ n \in DOMAIN p.deliveries
    BY <1>4, <2>2, FollowsThrough
  <2>4. Deliver("request", p, n, Owner(o), "resolved", "resolved", then)
    BY <1>10, <2>1
  <2>5. Owner(o) \in Managers /\ "resolved" \in Oks /\ "resolved" \in Nos /\ then \in Thens
    BY <1>6, <1>7, Targets DEF Oks, Nos
  <2>6. Follows(op, op')
    BY <2>2, <2>3, <2>4, DeliversEntry, FollowsThrough
  <2>7. Unsent(t)' <= Unsent(t)
    BY <1>8, <2>6, UnsentLess
  <2>8. /\ text # t => Cardinality(Pending(p, t)) <= Cardinality(Pending(s, t))
        /\ Cardinality(Pending(p, t)) <= Cardinality(Pending(s, t)) + 1
    BY <1>3, <1>6, <2>1, PendingAppended
  <2>9. allowed'[t] = IF text = t THEN allowed[t] + 1 ELSE allowed[t]
    BY <1>1, <1>6, <1>10 DEF HistoryOK
  <2>10. /\ allowed[t] \in Nat /\ Unsent(t) \in Nat /\ Unsent(t)' \in Nat
         /\ Cardinality(Pending(p, t)) \in Nat
    BY <2>2, AttemptTypes, AttemptTypesNext, PendingFinite
  <2>11. Cardinality(Pending(p, t)) + Unsent(t)' + allowed[t]
           <= Cardinality(Pending(op, t)) + Unsent(t) + allowed'[t]
    BY <1>4, <1>9, <2>7, <2>8, <2>9, <2>10
  <2> QED
    BY <2>2, <2>3, <2>4, <2>5, <2>11, Managing, FrugalDelivers
<1>11. CASE /\ op' = s /\ UNCHANGED <<flights, allowed>>
            /\ frames' = [frames EXCEPT !["request"] =
                  [Idle EXCEPT !.pc = "resolved", !.at = i, !.then = then]]
  <2>1. PICK f : f = [Idle EXCEPT !.pc = "resolved", !.at = i, !.then = then]
    OBVIOUS
  <2>2. f.pc = "resolved" /\ frames' = [frames EXCEPT !["request"] = f]
    BY <1>11, <2>1 DEF Idle
  <2>3. \A q \in Processes : frames'[q].pc # "sent" \/ frames'[q] = frames[q]
    BY <1>1, <2>2 DEF FramesFit
  <2>4. Cardinality(Pending(op', t)) <= Cardinality(Pending(op, t)) /\ Follows(op, op')
    BY <1>4, <1>9, <1>11
  <2> QED
    BY <1>8, <1>11, <2>3, <2>4, FrugalSame
<1>12. \/ /\ allowed' = [allowed EXCEPT ![o.deliveries[i].text] = @ + 1]
          /\ Deliver("request", Appended(Settling(o, i), o.deliveries[i].text),
                     Len(o.deliveries) + 1, Owner(o), "resolved", "resolved", Onward(o, i))
       \/ /\ op' = Settling(o, i) /\ UNCHANGED <<flights, allowed>>
          /\ frames' = [frames EXCEPT !["request"] =
                [Idle EXCEPT !.pc = "resolved", !.at = i, !.then = Onward(o, i)]]
  BY DEF Resolves, Settling, Onward
<1> QED
  BY <1>2, <1>5, <1>7, <1>10, <1>11, <1>12

LEMMA FrugalResolve ==
    ASSUME Sound, Sound', Resolve, NEW t \in Once
    PROVE  Frugal(t)
<1>1. /\ op \in Ops /\ t \in Texts /\ taken' = taken
      /\ frames["request"].pc = "idle" /\ Spend("requests")
  BY DEF Sound, Resolve, Admitted, At, Once
<1>2. ASSUME NEW i \in DOMAIN op.deliveries, NEW retry \in BOOLEAN, Resolves(op, i, retry)
      PROVE  Frugal(t)
  <2>1. Cardinality(Pending(op, t)) <= Cardinality(Pending(op, t))
    BY <1>1, PendingFinite
  <2> QED
    BY <1>1, <1>2, <2>1, FollowsItself, FrugalResolves
<1>3. ASSUME NEW retry \in BOOLEAN, op.finish # 0,
             Resolves([Appended(op, Report(op.finish)) EXCEPT !.finish = 0],
                      Len(op.deliveries) + 1, retry)
      PROVE  Frugal(t)
  <2>1. PICK p, n : p = Appended(op, Report(op.finish)) /\ n = Len(op.deliveries) + 1
    OBVIOUS
  <2>2. op.finish \in 1..MaxTurns /\ 0 \in 0..MaxTurns
    BY <1>1, <1>3, Entries, BoundsAssumption
  <2>3. Report(op.finish) \in Texts /\ Report(op.finish) # t
    BY <2>2, TextTypes DEF Once
  <2>4. /\ p \in Ops /\ Follows(op, p) /\ DOMAIN p.deliveries = 1..n /\ n \in Nat /\ n # 0
        /\ Cardinality(Pending(p, t)) <= Cardinality(Pending(op, t))
    BY <1>1, <2>1, <2>3, Appending, PendingAppended
  <2>5. PICK o : o = [p EXCEPT !.finish = 0]
    OBVIOUS
  <2>6. o \in Ops /\ o.deliveries = p.deliveries
    BY <2>2, <2>4, <2>5, FinishSet
  <2>7. /\ Follows(op, o) /\ n \in DOMAIN o.deliveries
        /\ Cardinality(Pending(o, t)) <= Cardinality(Pending(op, t))
    BY <2>4, <2>6, PendingSame DEF Follows
  <2>8. Resolves(o, n, retry)
    BY <1>3, <2>1, <2>5
  <2> QED
    BY <1>1, <2>6, <2>7, <2>8, FrugalResolves
<1> QED
  BY <1>2, <1>3 DEF Resolve

(* A restart ends the sends under way: each reached an agent or did not.   *)
LEMMA FrugalRestart ==
    ASSUME Sound, Sound', Restart, NEW t \in Once
    PROVE  Frugal(t)
<1>1. /\ op \in Ops /\ op' \in Ops /\ HistoryOK /\ FlightsFit /\ t \in Texts
  BY DEF Sound, Once
<1>2. /\ op' = Recovered(op) /\ flights' = {} /\ allowed' = allowed /\ Spend("restarts")
      /\ \A q \in Processes : frames'[q].pc = "idle"
  BY IdleFrame DEF Restart
<1>3. /\ Follows(op, op') /\ Cardinality(Pending(op', t)) <= Cardinality(Pending(op, t))
  BY <1>1, <1>2, RecoveredFacts, ShutFollows, PendingShut
<1>4. budget'.messages = budget.messages /\ budget.messages \in Nat
  BY <1>1, <1>2, Numbers DEF Spend, HistoryOK
<1>5. Unsent(t)' <= Unsent(t)
  BY <1>3, <1>4, UnsentLess, <1>1
<1>6. Flying(t)' = 0 /\ \A q \in Processes : Awaits(q, t)' = 0
  BY <1>2 DEF Flying, Awaits, One
<1>7. PICK reached \in SUBSET flights :
         taken' = [text \in Texts |-> taken[text] + IF \E f \in reached : f.text = text
                                                    THEN 1 ELSE 0]
  BY DEF Restart
<1>8. /\ taken[t] \in Nat /\ allowed[t] \in Nat /\ Cardinality(Pending(op, t)) \in Nat
      /\ Awaits("task", t) \in Nat /\ Awaits("request", t) \in Nat
      /\ Flying(t) \in Nat /\ Unsent(t) \in Nat
  BY <1>1, AttemptTypes, Managing
<1>9. /\ taken'[t] \in Nat /\ Cardinality(Pending(op', t)) \in Nat /\ Unsent(t)' \in Nat
  BY <1>1, AttemptTypesNext
<1>10. taken'[t] <= taken[t] + Flying(t) + Awaits("task", t) + Awaits("request", t)
  <2>1. CASE \E f \in reached : f.text = t
    <3>1. PICK f \in flights : f.text = t
      BY <2>1
    <3>2. /\ FlightOK(f) /\ f.by \in Processes \cup {"client", "wake"}
      BY <1>1 DEF FlightsFit, Flight
    <3>3. f.by # "wake"
      BY <3>1, <3>2 DEF FlightOK, Once
    <3>4. CASE f.by = "client"
      <4>1. Flying(t) = 1
        BY <3>1, <3>4 DEF Flying, One
      <4> QED
        BY <1>1, <1>7, <1>8, <4>1
    <3>5. CASE f.by \in Processes
      <4>1. PICK q \in Processes : f.by = q
        BY <3>5
      <4>2. frames[q].pc = "sent" /\ f = Fly(q)
        BY <3>2, <4>1 DEF FlightOK
      <4>3. op.deliveries[frames[q].at].text = t
        BY <3>1, <4>2 DEF Fly
      <4>4. Awaits(q, t) = 1
        BY <4>2, <4>3 DEF Awaits, One
      <4>5. taken'[t] <= taken[t] + 1
        BY <1>1, <1>7, <1>8
      <4>6. Awaits("task", t) = 1 \/ Awaits("request", t) = 1
        BY <4>4, Managing DEF Processes
      <4> QED
        BY <1>8, <1>9, <4>5, <4>6
    <3> QED
      BY <3>2, <3>3, <3>4, <3>5
  <2>2. CASE ~(\E f \in reached : f.text = t)
    BY <1>1, <1>7, <1>8, <2>2
  <2> QED
    BY <2>1, <2>2
<1>11. Attempts(t)' = taken'[t] + Cardinality(Pending(op', t)) + Awaits("task", t)'
                      + Awaits("request", t)' + Flying(t)' + Unsent(t)'
  BY DEF Attempts
<1>12. Awaits("task", t)' = 0 /\ Awaits("request", t)' = 0
  BY <1>6, Managing
<1>13. Attempts(t)' <= taken[t] + Cardinality(Pending(op, t)) + Awaits("task", t)
                       + Awaits("request", t) + Flying(t) + Unsent(t)
  BY <1>3, <1>5, <1>6, <1>8, <1>9, <1>10, <1>11, <1>12
<1>14. Attempts(t)' \in Nat
  BY <1>6, <1>9, <1>11, <1>12
<1> QED
  BY <1>2, <1>8, <1>13, <1>14 DEF Frugal, Attempts

LEMMA FrugalStep ==
    ASSUME Sound, [Next]_vars, NEW t \in Once
    PROVE  Frugal(t)
<1>0. Sound' /\ t \in Texts
  BY SoundStep DEF Once
<1>1. CASE Sends
  BY <1>0, <1>1, FrugalSend DEF Sends
<1>2. CASE FlightEnds
  BY <1>0, <1>2, FrugalSendEnds, FrugalWakeSent DEF FlightEnds
<1>3. ASSUME Quiet PROVE Frugal(t)
  BY <1>0, <1>3, FrugalQuiet
<1>4. CASE \/ WorkerStarts \/ WorkerEnds \/ SpawnsLate
           \/ \E m \in Managers : Exits(m) \/ Resumes(m)
  BY <1>3, <1>4, QuietHost
<1>5. CASE \E m \in Managers : WakeStep(m)
  BY <1>0, <1>3, <1>5, QuietHost, FrugalWakeSends DEF WakeStep
<1>6. ASSUME NEW q \in Processes, Common(q) PROVE Frugal(t)
  BY <1>0, <1>3, <1>6, FrugalSentEnds, FrugalRelease, QuietCommon DEF Common, Transfer
<1>7. CASE Prepare
  BY <1>0, <1>3, <1>7, FrugalBrief, QuietPrepares DEF Prepare
<1>8. CASE Flush
  BY <1>0, <1>3, <1>8, QuietFlush, FrugalDrainFails DEF Flush
<1>9. CASE Fail \/ Activate \/ KicksOff \/ KickoffFails \/ Evidence \/ Finish
  BY <1>0, <1>3, <1>9, FrugalFail, FrugalKicksOff, QuietCompletes
<1>10. CASE Reconciled \/ Resolved \/ Cancel \/ Reconcile \/ Bind
  BY <1>3, <1>10, QuietRequests
<1>11. CASE Start \/ Resolve \/ Restart
  BY <1>0, <1>11, FrugalStart, FrugalResolve, FrugalRestart
<1>12. CASE UNCHANGED vars
  BY <1>0, <1>12, FrugalUnchanged
<1> QED
  BY <1>1, <1>2, <1>4, <1>5, <1>6, <1>7, <1>8, <1>9, <1>10, <1>11, <1>12, Managing
     DEF Next, TaskStep, RequestStep, Requests

LEMMA FrugalInit == Init => Tokens
<1> SUFFICES ASSUME Init, NEW t \in Once PROVE Attempts(t) <= 1 + allowed[t]
  BY DEF Tokens
<1>1. /\ t \in Texts /\ taken[t] = 0 /\ allowed[t] = 0 /\ flights = {} /\ op.deliveries = <<>>
      /\ \A q \in Processes : frames[q].pc = "idle"
  BY IdleFrame DEF Init, Once
<1>2. Pending(op, t) = {}
  BY <1>1 DEF Pending
<1>3. Cardinality(Pending(op, t)) = 0
  BY <1>2, FS_EmptySet
<1>4. Awaits("task", t) = 0 /\ Awaits("request", t) = 0 /\ Flying(t) = 0
  BY <1>1, Managing DEF Awaits, Flying, One
<1>5. Unsent(t) \in {0, 1}
  BY DEF Unsent, One
<1> QED
  BY <1>1, <1>3, <1>4, <1>5 DEF Attempts

(* "nothing was replayed" (manager_replacements.rs:824): a client's message *)
(* and a prompt of the handoff reach agents at most once, and once more for *)
(* each time the owner has them sent again.  Every attempt is counted from  *)
(* the start, and no step of the hub adds one: an entry is handed over while *)
(* it is pending, a captured send comes back only if it was refused, and a  *)
(* failure or a restart turns what was being sent into an open outcome.    *)
THEOREM HandoffReplaysNothing == Spec => []NoReplay
<1>1. Sound /\ Tokens /\ [Next]_vars => Tokens'
  <2> SUFFICES ASSUME Sound, Tokens, [Next]_vars, NEW t \in Once
               PROVE  Attempts(t)' <= 1 + allowed'[t]
    BY DEF Tokens, Once
  <2>1. Frugal(t) /\ Sound' /\ t \in Texts
    BY FrugalStep, SoundStep DEF Once
  <2>2. /\ Attempts(t) \in Nat /\ allowed[t] \in Nat
    BY <2>1, AttemptTypes, Managing DEF Attempts
  <2>3. /\ Attempts(t)' \in Nat /\ allowed'[t] \in Nat
    <3>1. /\ taken'[t] \in Nat /\ allowed'[t] \in Nat /\ Cardinality(Pending(op', t)) \in Nat
          /\ Awaits("task", t)' \in Nat /\ Awaits("request", t)' \in Nat
          /\ Flying(t)' \in Nat /\ Unsent(t)' \in Nat
      BY <2>1, AttemptTypesNext, Managing
    <3>2. Attempts(t)' = taken'[t] + Cardinality(Pending(op', t)) + Awaits("task", t)'
                         + Awaits("request", t)' + Flying(t)' + Unsent(t)'
      BY DEF Attempts
    <3> QED
      BY <3>1, <3>2
  <2>4. Attempts(t) <= 1 + allowed[t]
    BY DEF Tokens
  <2> QED
    BY <2>1, <2>2, <2>3, <2>4 DEF Frugal
<1>2. Sound /\ Tokens => NoReplay
  <2> SUFFICES ASSUME Sound, Tokens, NEW t \in Texts \ {Report(n) : n \in 1..MaxTurns}
               PROVE  taken[t] <= 1 + allowed[t]
    BY DEF NoReplay
  <2>1. t \in Once
    BY TextTypes DEF Once
  <2>2. Attempts(t) <= 1 + allowed[t]
    BY <2>1 DEF Tokens
  <2>3. /\ taken[t] \in Nat /\ allowed[t] \in Nat /\ Cardinality(Pending(op, t)) \in Nat
        /\ Awaits("task", t) \in Nat /\ Awaits("request", t) \in Nat
        /\ Flying(t) \in Nat /\ Unsent(t) \in Nat
    BY AttemptTypes, Managing
  <2> QED
    BY <2>2, <2>3 DEF Attempts
<1> QED
  BY <1>1, <1>2, FrugalInit, HandoffSound, PTL DEF Spec
==============================================================================

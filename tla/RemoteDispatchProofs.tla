------------------------ MODULE RemoteDispatchProofs ------------------------
(***************************************************************************)
(* Proofs about RemoteDispatch, for any finite set of dispatches and all   *)
(* journal sizes and bounds: types, that the owner is told once and in     *)
(* order, and, on a link that repeats at most one call, that started work  *)
(* is retained, that both hubs mean one worker, and that the protocol      *)
(* implements DispatchPromise.                                             *)
(***************************************************************************)
EXTENDS RemoteDispatch, FiniteSetTheorems, TLAPS

-----------------------------------------------------------------------------
(* Options and rows                                                        *)

(* The empty option and the option of one element.                         *)
LEMMA OptionIntro ==
    ASSUME NEW S
    PROVE  /\ {} \in Option(S)
           /\ \A x \in S : {x} \in Option(S)
  BY DEF Option

(* An option has no element but one of its set, and no second one.         *)
LEMMA OptionElim ==
    ASSUME NEW S, NEW X \in Option(S), NEW x \in X
    PROVE  x \in S /\ X = {x}
  BY DEF Option

(* A journal row at a dispatch is a record, and the only one there.        *)
LEMMA RowElim ==
    ASSUME TypeOK, NEW d \in Dispatches
    PROVE  /\ \A o \in origin[d] : o \in OriginRecord /\ origin[d] = {o}
           /\ \A r \in receiver[d] : r \in WorkerRecord /\ receiver[d] = {r}
<1>1. origin[d] \in Option(OriginRecord) /\ receiver[d] \in Option(WorkerRecord)
  BY DEF TypeOK
<1> QED
  BY <1>1, OptionElim

(* The observer's work is a record, and the only one.                      *)
LEMMA WorkElim ==
    ASSUME TypeOK, NEW w \in observer
    PROVE  w \in Work /\ observer = {w}
<1>1. observer \in Option(Work)
  BY DEF TypeOK
<1> QED
  BY <1>1, OptionElim

(* A retained update is an update, and the only one of its row.            *)
LEMMA LastElim ==
    /\ \A o \in OriginRecord : \A u \in o.lastUpdate :
          u \in Update /\ o.lastUpdate = {u}
    /\ \A r \in WorkerRecord : \A u \in r.last : u \in Update /\ r.last = {u}
<1>1. ASSUME NEW o \in OriginRecord, NEW u \in o.lastUpdate
      PROVE  u \in Update /\ o.lastUpdate = {u}
  <2>1. o.lastUpdate \in Option(Update)
    BY DEF OriginRecord
  <2> QED
    BY <2>1, OptionElim
<1>2. ASSUME NEW r \in WorkerRecord, NEW u \in r.last
      PROVE  u \in Update /\ r.last = {u}
  <2>1. r.last \in Option(Update)
    BY DEF WorkerRecord
  <2> QED
    BY <2>1, OptionElim
<1> QED
  BY <1>1, <1>2

(* The changes of accept_and_deliver and acknowledge keep an origin row    *)
(* well typed.                                                             *)
LEMMA OriginRowType ==
    ASSUME NEW o \in OriginRecord, NEW u \in Update
    PROVE  /\ Retained(o, u) \in OriginRecord
           /\ AcknowledgedRow(o, u) \in OriginRecord
           /\ [o EXCEPT !.deliveringSeq = {u.seq}] \in OriginRecord
           /\ \A n \in Nat : [o EXCEPT !.session = n] \in OriginRecord
<1>1. u.seq \in Nat /\ u.session \in Nat
  BY DEF Update
<1>2. /\ {u} \in Option(Update) /\ {u.seq} \in Option(Nat)
      /\ {} \in Option(Nat)
  BY <1>1, OptionIntro
<1> QED
  BY <1>1, <1>2 DEF OriginRecord, Retained, AcknowledgedRow

(* The update taken is the received one or the retained one.               *)
LEMMA KnownType ==
    ASSUME NEW o \in OriginRecord, NEW u \in Update, NEW k \in Known(o, u)
    PROVE  k \in Update /\ k.seq = u.seq
<1>1. CASE \E p \in o.lastUpdate : p.seq = u.seq
  <2>1. PICK p \in o.lastUpdate : p.seq = u.seq
    BY <1>1
  <2>2. p \in Update /\ o.lastUpdate = {p}
    BY LastElim
  <2>3. k = p
    BY <1>1, <2>2 DEF Known
  <2> QED
    BY <2>1, <2>2, <2>3
<1>2. CASE ~ \E p \in o.lastUpdate : p.seq = u.seq
  BY <1>2 DEF Known
<1> QED
  BY <1>1, <1>2

(* Messages are well typed.                                                *)
LEMMA MsgType ==
    ASSUME NEW d \in Dispatches, NEW n \in Nat,
           NEW t \in {"prepare", "prepared", "spawn", "spawned", "replay"}
    PROVE  Msg(t, d, n) \in Call
  BY DEF Msg, Call

(* Handling a call keeps the link and the bounds well typed.               *)
LEMMA HandleType ==
    ASSUME TypeOK, NEW m, NEW answers, answers \subseteq Call, Handle(m, answers)
    PROVE  /\ calls' \subseteq Call
           /\ budget' \in Budget
  BY DEF TypeOK, Handle, Budget

-----------------------------------------------------------------------------
(* Type correctness                                                        *)

(* The initial state is well typed.                                        *)
LEMMA InitType == Init => TypeOK
<1> SUFFICES ASSUME Init PROVE TypeOK
  OBVIOUS
<1>1. {} \in Option(OriginRecord) /\ {} \in Option(WorkerRecord)
      /\ {} \in Option(Work) /\ {} \in Option(Dispatches)
  BY OptionIntro
<1>2. budget \in Budget
  BY DispatchBoundsAssumption DEF Init, Budget
<1>3. <<>> \in Seq(Nat)
  OBVIOUS
<1> QED
  BY <1>1, <1>2, <1>3 DEF Init, TypeOK

(* Dispatching: the origin's calls keep the state well typed.              *)
LEMMA OriginType ==
    ASSUME TypeOK, NEW d \in Dispatches, Origin(d)
    PROVE  TypeOK'
<1>1. CASE Dispatch(d)
  <2>1. PICK booked \in BOOLEAN :
          /\ origin' = [e \in Dispatches |->
               IF e = d
               THEN {[state |-> "open", session |-> 0, ackedSeq |-> 0,
                      deliveringSeq |-> {}, lastUpdate |-> {},
                      booked |-> booked,
                      openedAt |-> Cardinality({x \in Dispatches :
                                                  forward[x] # "idle"})]}
               ELSE IF e \in OriginEvicted THEN {} ELSE origin[e]]
          /\ forward' = [forward EXCEPT ![d] = "preparing"]
          /\ calls' = calls \cup {Msg("prepare", d, 0)}
          /\ UNCHANGED <<observer, signature, wakes, atReceiver, updates, budget>>
    BY <1>1 DEF Dispatch
  <2> DEFINE n == Cardinality({x \in Dispatches : forward[x] # "idle"})
             o == [state |-> "open", session |-> 0, ackedSeq |-> 0,
                   deliveringSeq |-> {}, lastUpdate |-> {},
                   booked |-> booked, openedAt |-> n]
  <2>2. n \in Nat
    <3>1. IsFiniteSet({x \in Dispatches : forward[x] # "idle"})
      BY DispatchesAssumption, FS_Subset
    <3> QED
      BY <3>1, FS_CardinalityType
  <2>3. o \in OriginRecord
    BY <2>2, OptionIntro DEF OriginRecord
  <2>4. {o} \in Option(OriginRecord) /\ {} \in Option(OriginRecord)
    BY <2>3, OptionIntro
  <2>5. origin' \in [Dispatches -> Option(OriginRecord)]
    BY <2>1, <2>4 DEF TypeOK
  <2>6. calls' \subseteq Call
    BY <2>1, MsgType DEF TypeOK
  <2> QED
    BY <2>1, <2>5, <2>6 DEF TypeOK, atReceiver
<1>2. CASE CallSpawn(d)
  <2>1. Msg("spawn", d, 0) \in Call
    BY MsgType
  <2> QED
    BY <1>2, <2>1 DEF CallSpawn, TypeOK, atReceiver
<1>3. CASE Attach(d)
  <2>1. PICK m \in calls, o \in origin[d] :
          /\ origin' \in {origin, [origin EXCEPT ![d] =
                                     {[o EXCEPT !.session = m.arg]}]}
          /\ forward' = [forward EXCEPT ![d] = "over"]
          /\ calls' = calls \ {m}
          /\ UNCHANGED <<observer, signature, wakes, atReceiver, updates, budget>>
    BY <1>3 DEF Attach
  <2>2. o \in OriginRecord
    BY RowElim
  <2>3. m.arg \in Nat
    BY DEF TypeOK, Call
  <2>4. [o EXCEPT !.session = m.arg] \in OriginRecord
    BY <2>2, <2>3 DEF OriginRecord
  <2>5. {[o EXCEPT !.session = m.arg]} \in Option(OriginRecord)
    BY <2>4, OptionIntro
  <2> QED
    BY <2>1, <2>5 DEF TypeOK, atReceiver
<1>4. CASE ForwardFails(d)
  BY <1>4 DEF ForwardFails, TypeOK, atReceiver, link
<1> QED
  BY <1>1, <1>2, <1>3, <1>4 DEF Origin

(* Leases and admission keep the state well typed.                         *)
LEMMA AdmissionType ==
    ASSUME TypeOK, NEW d \in Dispatches,
           \/ PrepareAgain(d) \/ Prepare(d) \/ Allocate(d) \/ Spawn(d)
           \/ Launch(d) \/ LeaseExpires(d) \/ Sweep(d)
    PROVE  TypeOK'
<1>0. /\ Msg("prepared", d, 0) \in Call
      /\ {} \in Option(WorkerRecord) /\ {} \in Option(Dispatches)
      /\ {d} \in Option(Dispatches)
      /\ receiver[d] \in Option(WorkerRecord)
  BY MsgType, OptionIntro DEF TypeOK
<1>1. CASE PrepareAgain(d)
  <2>1. PICK r \in receiver[d] :
          /\ Handle(Msg("prepare", d, 0),
                    IF Usable(r) THEN {Msg("prepared", d, 0)} ELSE {})
          /\ UNCHANGED <<atOrigin, atReceiver, updates>>
    BY <1>1 DEF PrepareAgain
  <2>2. calls' \subseteq Call /\ budget' \in Budget
    BY <2>1, <1>0, HandleType
  <2> QED
    BY <2>1, <2>2 DEF TypeOK, atOrigin, atReceiver
<1>2. CASE Prepare(d)
  <2> DEFINE Fresh(worktree) ==
        [session |-> 0, seq |-> 0, last |-> {}, acked |-> FALSE,
         claimed |-> FALSE, prepared |-> ~worktree, expired |-> FALSE]
  <2>1. PICK worktree \in BOOLEAN, evicted \in ReceiverEvictions :
          LET full == Cardinality(ReceiverRows \ evicted) >= ReceiverCap
          IN /\ Handle(Msg("prepare", d, 0),
                       IF full \/ worktree THEN {} ELSE {Msg("prepared", d, 0)})
             /\ receiver' = IF full THEN receiver ELSE
                  [e \in Dispatches |->
                     IF e = d THEN {Fresh(worktree)}
                     ELSE IF e \in evicted THEN {} ELSE receiver[e]]
             /\ allocating' = IF worktree /\ ~full THEN {d} ELSE {}
             /\ UNCHANGED <<atOrigin, launching, launches, finals, claims,
                            updates>>
    BY <1>2 DEF Prepare
  <2>2. calls' \subseteq Call /\ budget' \in Budget
    BY <2>1, <1>0, HandleType
  <2>3. Fresh(worktree) \in WorkerRecord
    BY OptionIntro DEF WorkerRecord
  <2>4. {Fresh(worktree)} \in Option(WorkerRecord)
    BY <2>3, OptionIntro
  <2> HIDE DEF Fresh
  <2>5. receiver' \in [Dispatches -> Option(WorkerRecord)]
    BY <2>1, <2>4, <1>0 DEF TypeOK
  <2>6. allocating' \in Option(Dispatches)
    BY <2>1, <1>0
  <2> QED
    BY <2>1, <2>2, <2>5, <2>6 DEF TypeOK, atOrigin
<1>3. CASE Allocate(d)
  <2>1. PICK r \in receiver[d], ok \in BOOLEAN :
          /\ allocating' = {}
          /\ receiver' = [receiver EXCEPT ![d] = {[r EXCEPT !.prepared = ok]}]
          /\ calls' = IF ok THEN calls \cup {Msg("prepared", d, 0)} ELSE calls
          /\ UNCHANGED <<atOrigin, launching, launches, finals, claims, updates,
                         budget>>
    BY <1>3 DEF Allocate
  <2>a. r \in WorkerRecord
    BY RowElim
  <2>2. [r EXCEPT !.prepared = ok] \in WorkerRecord
    BY <2>a DEF WorkerRecord
  <2>3. {[r EXCEPT !.prepared = ok]} \in Option(WorkerRecord)
    BY <2>2, OptionIntro
  <2> QED
    BY <2>1, <2>3, <1>0 DEF TypeOK, atOrigin
<1>4. CASE Spawn(d)
  <2>1. calls' \subseteq Call /\ budget' \in Budget
    BY <1>4, HandleType DEF Spawn
  <2>2. CASE \E r \in receiver[d] : Usable(r)
    <3>1. /\ claims' = [claims EXCEPT ![d] = @ + 1]
          /\ receiver' = [receiver EXCEPT ![d] =
                            {Claimed(r, claims'[d]) : r \in @}]
          /\ launching' = launching \cup {d}
          /\ UNCHANGED <<atOrigin, allocating, launches, finals, updates>>
      BY <1>4, <2>2 DEF Spawn
    <3>2. claims' \in [Dispatches -> Nat] /\ claims'[d] \in Nat
      BY <3>1 DEF TypeOK
    <3>3. PICK r : r \in receiver[d]
      BY <2>2
    <3>4. r \in WorkerRecord /\ receiver[d] = {r}
      BY <3>3, RowElim
    <3>5. Claimed(r, claims'[d]) \in WorkerRecord
      BY <3>2, <3>4 DEF Claimed, WorkerRecord
    <3>6. {Claimed(q, claims'[d]) : q \in receiver[d]} = {Claimed(r, claims'[d])}
      BY <3>4
    <3>7. {Claimed(q, claims'[d]) : q \in receiver[d]} \in Option(WorkerRecord)
      BY <3>5, <3>6, OptionIntro
    <3>8. receiver' \in [Dispatches -> Option(WorkerRecord)]
      BY <3>1, <3>7 DEF TypeOK
    <3> QED
      BY <2>1, <3>1, <3>2, <3>8 DEF TypeOK, atOrigin
  <2>3. CASE ~ \E r \in receiver[d] : Usable(r)
    <3>1. UNCHANGED <<claims, receiver, launching, atOrigin, allocating,
                      launches, finals, updates>>
      BY <1>4, <2>3 DEF Spawn
    <3> QED
      BY <2>1, <3>1 DEF TypeOK, atOrigin
  <2> QED
    BY <2>2, <2>3
<1>5. CASE Launch(d)
  <2>1. PICK started \in BOOLEAN, ok \in BOOLEAN :
          /\ launching' = launching \ {d}
          /\ launches' = [launches EXCEPT ![d] = IF started THEN @ + 1 ELSE @]
          /\ calls' = IF ok THEN calls \cup {Msg("spawned", d, r.session) :
                                               r \in receiver[d]}
                      ELSE calls
          /\ UNCHANGED <<atOrigin, receiver, allocating, finals, claims,
                         updates, budget>>
    BY <1>5 DEF Launch
  <2>2. \A r \in receiver[d] : r.session \in Nat
    BY RowElim DEF WorkerRecord
  <2>3. {Msg("spawned", d, r.session) : r \in receiver[d]} \subseteq Call
    BY <2>2, MsgType
  <2>4. calls' \subseteq Call
    BY <2>1, <2>3 DEF TypeOK
  <2>5. launches' \in [Dispatches -> Nat]
    BY <2>1 DEF TypeOK
  <2> QED
    BY <2>1, <2>4, <2>5 DEF TypeOK, atOrigin
<1>6. CASE LeaseExpires(d)
  <2>1. PICK r \in receiver[d] :
          /\ receiver' = [receiver EXCEPT ![d] = {[r EXCEPT !.expired = TRUE]}]
          /\ UNCHANGED <<atOrigin, allocating, launching, launches, finals,
                         claims, link, budget>>
    BY <1>6 DEF LeaseExpires
  <2>a. r \in WorkerRecord
    BY RowElim
  <2>2. [r EXCEPT !.expired = TRUE] \in WorkerRecord
    BY <2>a DEF WorkerRecord
  <2>3. {[r EXCEPT !.expired = TRUE]} \in Option(WorkerRecord)
    BY <2>2, OptionIntro
  <2> QED
    BY <2>1, <2>3 DEF TypeOK, atOrigin, link
<1>7. CASE Sweep(d)
  BY <1>7, <1>0 DEF Sweep, TypeOK, atOrigin, link
<1> QED
  BY <1>1, <1>2, <1>3, <1>4, <1>5, <1>6, <1>7

(* Reports and replays keep the state well typed.                          *)
LEMMA ReportType ==
    ASSUME TypeOK, NEW d \in Dispatches,
           Report(d) \/ ReplayAck(d) \/ Replay(d)
    PROVE  TypeOK'
<1>1. CASE Report(d)
  <2>1. PICK r \in receiver[d], final \in BOOLEAN :
          LET u == Numbered(r, final)
          IN /\ receiver' = [receiver EXCEPT ![d] =
                               {[r EXCEPT !.seq = @ + 1, !.last = {u}]}]
             /\ updates' = updates \cup {[dispatch |-> d, update |-> u]}
             /\ finals' = IF final THEN [finals EXCEPT ![d] = u.seq] ELSE finals
             /\ UNCHANGED <<atOrigin, allocating, launching, launches, claims,
                            calls, budget>>
    BY <1>1 DEF Report
  <2> DEFINE u == Numbered(r, final)
  <2>2. r \in WorkerRecord
    BY RowElim
  <2>3. u \in Update
    BY <2>2 DEF Numbered, Update, WorkerRecord
  <2>4. u.seq \in Nat
    BY <2>3 DEF Update
  <2>5. [dispatch |-> d, update |-> u] \in Event
    BY <2>3 DEF Event
  <2> HIDE DEF u
  <2>6. {u} \in Option(Update)
    BY <2>3, OptionIntro
  <2>a. r.seq + 1 \in Nat
    BY <2>2 DEF WorkerRecord
  <2>7. [r EXCEPT !.seq = @ + 1, !.last = {u}] \in WorkerRecord
    BY <2>2, <2>6, <2>a DEF WorkerRecord
  <2>8. {[r EXCEPT !.seq = @ + 1, !.last = {u}]} \in Option(WorkerRecord)
    BY <2>7, OptionIntro
  <2>9. receiver' = [receiver EXCEPT ![d] =
                       {[r EXCEPT !.seq = @ + 1, !.last = {u}]}]
    BY <2>1 DEF u
  <2>10. /\ updates' = updates \cup {[dispatch |-> d, update |-> u]}
         /\ finals' = IF final THEN [finals EXCEPT ![d] = u.seq] ELSE finals
         /\ UNCHANGED <<atOrigin, allocating, launching, launches, claims,
                        calls, budget>>
    BY <2>1 DEF u
  <2>11. receiver' \in [Dispatches -> Option(WorkerRecord)]
    BY <2>8, <2>9 DEF TypeOK
  <2> QED
    BY <2>4, <2>5, <2>10, <2>11 DEF TypeOK, atOrigin
<1>2. CASE ReplayAck(d)
  <2>1. PICK m \in calls :
          /\ Handle(m, {})
          /\ receiver' = [receiver EXCEPT ![d] =
               {[r EXCEPT !.acked = @ \/ Acknowledged(r, m.arg)] : r \in @}]
          /\ UNCHANGED <<atOrigin, allocating, launching, launches, finals,
                         claims, updates>>
    BY <1>2 DEF ReplayAck
  <2> DEFINE A(r) == [r EXCEPT !.acked = @ \/ Acknowledged(r, m.arg)]
  <2>2. calls' \subseteq Call /\ budget' \in Budget
    BY <2>1, HandleType
  <2>3. {A(r) : r \in receiver[d]} \in Option(WorkerRecord)
    <3>1. CASE receiver[d] = {}
      <4>1. {A(r) : r \in receiver[d]} = {}
        BY <3>1
      <4> QED
        BY <4>1, OptionIntro
    <3>2. CASE receiver[d] # {}
      <4>1. PICK r : r \in receiver[d]
        BY <3>2
      <4>2. r \in WorkerRecord /\ receiver[d] = {r}
        BY <4>1, RowElim
      <4>3. (r.acked \/ Acknowledged(r, m.arg)) \in BOOLEAN
        OBVIOUS
      <4>4. A(r) \in WorkerRecord
        BY <4>2, <4>3 DEF WorkerRecord
      <4>5. {A(q) : q \in receiver[d]} = {A(r)}
        BY <4>2
      <4> QED
        BY <4>4, <4>5, OptionIntro
    <3> QED
      BY <3>1, <3>2
  <2>4. receiver' = [receiver EXCEPT ![d] = {A(r) : r \in receiver[d]}]
    BY <2>1 DEF TypeOK
  <2> HIDE DEF A
  <2>5. receiver' \in [Dispatches -> Option(WorkerRecord)]
    BY <2>3, <2>4 DEF TypeOK
  <2> QED
    BY <2>1, <2>2, <2>5 DEF TypeOK, atOrigin
<1>3. CASE Replay(d)
  <2> DEFINE lasts == UNION {r.last : r \in receiver[d]}
  <2>1. PICK again \in BOOLEAN :
          /\ Handle(Msg("replay", d, 0), {})
          /\ updates' = updates \cup
               {[dispatch |-> d, update |-> u] : u \in {x \in lasts : again}}
          /\ UNCHANGED <<atOrigin, atReceiver>>
    BY <1>3 DEF Replay
  <2>2. calls' \subseteq Call /\ budget' \in Budget
    BY <2>1, HandleType
  <2>3. \A u \in lasts : u \in Update
    BY RowElim, LastElim
  <2> HIDE DEF lasts
  <2>4. {[dispatch |-> d, update |-> u] : u \in {x \in lasts : again}}
          \subseteq Event
    BY <2>3 DEF Event
  <2>5. updates' \subseteq Event
    BY <2>1, <2>4 DEF TypeOK
  <2> QED
    BY <2>1, <2>2, <2>5 DEF TypeOK, atOrigin, atReceiver
<1> QED
  BY <1>1, <1>2, <1>3

(* Accepting an update keeps the journal and the observer well typed.      *)
LEMMA AcceptType ==
    ASSUME TypeOK, NEW d \in Dispatches, NEW o \in origin[d],
           NEW u \in Update, Accept(d, o, u)
    PROVE  /\ origin' \in [Dispatches -> Option(OriginRecord)]
           /\ observer' \in Option(Work)
<1>1. PICK k \in Known(o, u) :
        /\ origin' = [origin EXCEPT ![d] = {Retained(o, k)}]
        /\ observer' = IF MayDeliver(o)
                       THEN {[dispatch |-> d, update |-> k,
                              phase |-> "accepted"]}
                       ELSE {}
  BY DEF Accept
<1>2. o \in OriginRecord
  BY RowElim
<1>3. k \in Update
  BY <1>2, KnownType
<1>4. {Retained(o, k)} \in Option(OriginRecord)
  BY <1>2, <1>3, OriginRowType, OptionIntro
<1>5. [dispatch |-> d, update |-> k, phase |-> "accepted"] \in Work
  BY <1>3 DEF Work
<1>6. observer' \in Option(Work)
  BY <1>1, <1>5, OptionIntro
<1> QED
  BY <1>1, <1>4, <1>6 DEF TypeOK

(* The observer's steps keep the state well typed.                         *)
LEMMA ObserveType ==
    ASSUME TypeOK, Observe
    PROVE  TypeOK'
<1>0. \A w \in observer :
        /\ w \in Work /\ w.dispatch \in Dispatches /\ w.update \in Update
        /\ w.update.seq \in Nat
        /\ \A p \in {"accepted", "marked", "sent", "signed"} :
             {[w EXCEPT !.phase = p]} \in Option(Work)
  <2> TAKE w \in observer
  <2>1. w \in Work
    BY WorkElim
  <2>2. w.dispatch \in Dispatches /\ w.update \in Update
    BY <2>1 DEF Work
  <2>3. w.update.seq \in Nat
    BY <2>2 DEF Update
  <2>4. \A p \in {"accepted", "marked", "sent", "signed"} :
          [w EXCEPT !.phase = p] \in Work
    BY <2>1 DEF Work
  <2> QED
    BY <2>1, <2>2, <2>3, <2>4, OptionIntro
<1>1. CASE ReceiveUpdate
  <2>1. PICK e \in updates :
          /\ updates' = updates \ {e}
          /\ \/ \E o \in origin[e.dispatch] : Accept(e.dispatch, o, e.update)
             \/ UNCHANGED <<origin, observer>>
          /\ UNCHANGED <<forward, signature, wakes, atReceiver, calls, budget>>
    BY <1>1 DEF ReceiveUpdate
  <2>2. e.dispatch \in Dispatches /\ e.update \in Update
    BY DEF TypeOK, Event
  <2>3. /\ origin' \in [Dispatches -> Option(OriginRecord)]
        /\ observer' \in Option(Work)
    <3>1. CASE \E o \in origin[e.dispatch] : Accept(e.dispatch, o, e.update)
      BY <3>1, <2>2, AcceptType
    <3>2. CASE UNCHANGED <<origin, observer>>
      BY <3>2 DEF TypeOK
    <3> QED
      BY <2>1, <3>1, <3>2
  <2> QED
    BY <2>1, <2>3 DEF TypeOK, atReceiver
<1>2. CASE MarkDelivering
  <2>1. PICK w \in observer : \E o \in origin[w.dispatch] :
          /\ origin' = [origin EXCEPT ![w.dispatch] =
                          {[o EXCEPT !.deliveringSeq = {w.update.seq}]}]
          /\ observer' = {[w EXCEPT !.phase = "marked"]}
          /\ UNCHANGED <<forward, signature, wakes, atReceiver, link, budget>>
    BY <1>2 DEF MarkDelivering
  <2>2. PICK o \in origin[w.dispatch] :
          origin' = [origin EXCEPT ![w.dispatch] =
                       {[o EXCEPT !.deliveringSeq = {w.update.seq}]}]
    BY <2>1
  <2>3. {[o EXCEPT !.deliveringSeq = {w.update.seq}]} \in Option(OriginRecord)
    BY <1>0, RowElim, OriginRowType, OptionIntro
  <2>4. origin' \in [Dispatches -> Option(OriginRecord)]
    BY <2>2, <2>3 DEF TypeOK
  <2>5. observer' \in Option(Work)
    BY <2>1, <1>0
  <2> QED
    BY <2>1, <2>4, <2>5 DEF TypeOK, atReceiver, link
<1>3. CASE Deliver
  <2>1. PICK w \in observer :
          /\ \/ wakes' = wakes
             \/ wakes' = [wakes EXCEPT ![w.dispatch] =
                            Append(@, w.update.seq)]
          /\ \/ observer' = {[w EXCEPT !.phase = "signed"]}
             \/ observer' = {[w EXCEPT !.phase = "sent"]}
          /\ UNCHANGED <<origin, forward, signature, atReceiver, link, budget>>
    BY <1>3 DEF Deliver
  <2>a. /\ wakes \in [Dispatches -> Seq(Nat)]
        /\ w.dispatch \in Dispatches /\ w.update.seq \in Nat
    BY <1>0 DEF TypeOK
  <2>b. Append(wakes[w.dispatch], w.update.seq) \in Seq(Nat)
    BY <2>a
  <2>2. wakes' \in [Dispatches -> Seq(Nat)]
    BY <2>1, <2>a, <2>b
  <2>3. observer' \in Option(Work)
    BY <2>1, <1>0
  <2> QED
    BY <2>1, <2>2, <2>3 DEF TypeOK, atReceiver, link
<1>4. CASE RecordSignature
  <2>1. PICK w \in observer :
          /\ \/ signature' = signature
             \/ signature' = [signature EXCEPT ![w.dispatch] = w.update.seq]
          /\ observer' = {[w EXCEPT !.phase = "signed"]}
          /\ UNCHANGED <<origin, forward, wakes, atReceiver, link, budget>>
    BY <1>4 DEF RecordSignature
  <2>2. signature' \in [Dispatches -> Nat] /\ observer' \in Option(Work)
    BY <2>1, <1>0 DEF TypeOK
  <2> QED
    BY <2>1, <2>2 DEF TypeOK, atReceiver, link
<1>5. CASE Acknowledge
  <2>1. PICK w \in observer : \E o \in origin[w.dispatch] :
          /\ origin' = [origin EXCEPT ![w.dispatch] =
                          {AcknowledgedRow(o, w.update)}]
          /\ observer' = {}
          /\ \/ calls' = calls
             \/ calls' = calls \cup {Msg("replay", w.dispatch, w.update.seq)}
          /\ UNCHANGED <<forward, signature, wakes, atReceiver, updates, budget>>
    BY <1>5 DEF Acknowledge
  <2>2. PICK o \in origin[w.dispatch] :
          origin' = [origin EXCEPT ![w.dispatch] =
                       {AcknowledgedRow(o, w.update)}]
    BY <2>1
  <2>3. {AcknowledgedRow(o, w.update)} \in Option(OriginRecord)
    BY <1>0, RowElim, OriginRowType, OptionIntro
  <2>4. origin' \in [Dispatches -> Option(OriginRecord)]
    BY <2>2, <2>3 DEF TypeOK
  <2>a. Msg("replay", w.dispatch, w.update.seq) \in Call
    BY <1>0, MsgType
  <2>5. calls' \subseteq Call
    BY <2>1, <2>a DEF TypeOK
  <2>6. observer' \in Option(Work)
    BY <2>1, OptionIntro
  <2> QED
    BY <2>1, <2>4, <2>5, <2>6 DEF TypeOK, atReceiver
<1>6. CASE DeliveryFails
  <2>1. observer' \in Option(Work)
    BY <1>6, OptionIntro DEF DeliveryFails
  <2>a. budget \in Budget
    BY DEF TypeOK
  <2>2. budget' \in Budget
    BY <1>6, <2>a DEF DeliveryFails, Budget
  <2> QED
    BY <1>6, <2>1, <2>2 DEF DeliveryFails, TypeOK, atReceiver, link
<1> QED
  BY <1>1, <1>2, <1>3, <1>4, <1>5, <1>6 DEF Observe

(* Reconciliation keeps the state well typed.                              *)
LEMMA ReconcileType ==
    ASSUME TypeOK, NEW d \in Dispatches, Reconcile(d)
    PROVE  TypeOK'
<1>1. CASE ReconcileDone(d)
  <2>1. PICK o \in origin[d] :
          calls' = calls \cup {Msg("replay", d, o.ackedSeq)}
    BY <1>1 DEF ReconcileDone
  <2>2. o.ackedSeq \in Nat
    BY RowElim DEF OriginRecord
  <2>3. calls' \subseteq Call
    BY <2>1, <2>2, MsgType DEF TypeOK
  <2> QED
    BY <1>1, <2>3 DEF ReconcileDone, TypeOK, atOrigin, atReceiver
<1>2. CASE ReconcileConfirm(d)
  <2>1. PICK o \in origin[d] : \E u \in o.lastUpdate :
          origin' = [origin EXCEPT ![d] = {AcknowledgedRow(o, u)}]
    BY <1>2 DEF ReconcileConfirm
  <2>2. PICK u \in o.lastUpdate :
          origin' = [origin EXCEPT ![d] = {AcknowledgedRow(o, u)}]
    BY <2>1
  <2>3. {AcknowledgedRow(o, u)} \in Option(OriginRecord)
    BY RowElim, LastElim, OriginRowType, OptionIntro
  <2>4. origin' \in [Dispatches -> Option(OriginRecord)]
    BY <2>2, <2>3 DEF TypeOK
  <2> QED
    BY <1>2, <2>4 DEF ReconcileConfirm, TypeOK, atReceiver, link
<1>3. CASE ReconcileDeliver(d)
  <2>1. PICK o \in origin[d] : \E u \in o.lastUpdate : Accept(d, o, u)
    BY <1>3 DEF ReconcileDeliver
  <2>2. /\ origin' \in [Dispatches -> Option(OriginRecord)]
        /\ observer' \in Option(Work)
    BY <2>1, RowElim, LastElim, AcceptType
  <2> QED
    BY <1>3, <2>2 DEF ReconcileDeliver, TypeOK, atReceiver, link
<1>4. CASE ReconcileReplay(d)
  <2>1. Msg("replay", d, 0) \in Call
    BY MsgType
  <2> QED
    BY <1>4, <2>1 DEF ReconcileReplay, TypeOK, atOrigin, atReceiver
<1> QED
  BY <1>1, <1>2, <1>3, <1>4 DEF Reconcile

(* Losses and restarts keep the state well typed.                          *)
LEMMA FaultType ==
    ASSUME TypeOK, LoseCall \/ LoseUpdate \/ OriginCrash \/ ReceiverCrash
    PROVE  TypeOK'
<1>0. {} \in Option(Work) /\ {} \in Option(Dispatches)
  BY OptionIntro
<1>1. budget' \in Budget
  <2>1. budget \in Budget
    BY DEF TypeOK
  <2>2. \/ budget.loss > 0 /\ budget' = [budget EXCEPT !.loss = @ - 1]
        \/ budget.crash > 0 /\ budget' = [budget EXCEPT !.crash = @ - 1]
    BY DEF LoseCall, LoseUpdate, OriginCrash, ReceiverCrash
  <2> QED
    BY <2>1, <2>2 DEF Budget
<1>2. CASE LoseCall
  BY <1>1, <1>2 DEF LoseCall, TypeOK, atOrigin, atReceiver
<1>3. CASE LoseUpdate
  BY <1>1, <1>3 DEF LoseUpdate, TypeOK, atOrigin, atReceiver
<1>4. CASE OriginCrash
  <2>1. forward' \in [Dispatches -> {"idle", "preparing", "spawning", "over"}]
    BY <1>4 DEF OriginCrash
  <2> QED
    BY <1>0, <1>1, <1>4, <2>1 DEF OriginCrash, TypeOK, atReceiver, link
<1>5. CASE ReceiverCrash
  BY <1>0, <1>1, <1>5 DEF ReceiverCrash, TypeOK, atOrigin, link
<1> QED
  BY <1>2, <1>3, <1>4, <1>5

(* Every step keeps the state well typed.                                  *)
LEMMA NextType == TypeOK /\ [Next]_vars => TypeOK'
<1> SUFFICES ASSUME TypeOK, [Next]_vars PROVE TypeOK'
  OBVIOUS
<1>1. ASSUME NEW d \in Dispatches, Origin(d) PROVE TypeOK'
  BY <1>1, OriginType
<1>2. ASSUME NEW d \in Dispatches, Receiver(d) PROVE TypeOK'
  BY <1>2, AdmissionType, ReportType DEF Receiver
<1>3. ASSUME NEW d \in Dispatches, Reconcile(d) PROVE TypeOK'
  BY <1>3, ReconcileType
<1>4. CASE Observe
  BY <1>4, ObserveType
<1>5. CASE LoseCall \/ LoseUpdate \/ OriginCrash \/ ReceiverCrash
  BY <1>5, FaultType
<1>6. CASE UNCHANGED vars
  BY <1>6 DEF vars, TypeOK
<1> QED
  BY <1>1, <1>2, <1>3, <1>4, <1>5, <1>6 DEF Next

(* Every reachable state of paired dispatch is well typed: the journals,   *)
(* the observer's work and everything on the link.                         *)
THEOREM DispatchTypeCorrect == Spec => []TypeOK
  BY InitType, NextType, PTL DEF Spec

-----------------------------------------------------------------------------
(* No update is told twice.  ToldOnce is not inductive: whether a delivery *)
(* may start depends on what the journal row says of earlier ones, and on  *)
(* the row still being the one the observer read.                          *)

WakesUpTo(d, n) == \A i \in DOMAIN wakes[d] : wakes[d][i] <= n

(* The journal row bounds what the owner was told: by the last             *)
(* acknowledged update, or by the one whose delivery is under way or       *)
(* unknown, which is newer.                                                *)
RowsBound == \A d \in Dispatches : \A o \in origin[d] :
    /\ o.deliveringSeq = {} => WakesUpTo(d, o.ackedSeq)
    /\ \A s \in o.deliveringSeq : o.ackedSeq < s /\ WakesUpTo(d, s)

(* Before a dispatch is journaled nobody was told anything.                *)
IdleUntold == \A d \in Dispatches :
    forward[d] = "idle" => origin[d] = {} /\ wakes[d] = <<>>

(* The observer works for an open row, on an update newer than all         *)
(* acknowledged ones; until it sends, the owner knows nothing newer.       *)
WorkCurrent == \A w \in observer : \E o \in origin[w.dispatch] :
    /\ o.state = "open"
    /\ o.ackedSeq < w.update.seq
    /\ o.deliveringSeq = IF w.phase = "accepted" THEN {} ELSE {w.update.seq}
    /\ w.phase \in {"accepted", "marked"} => WakesUpTo(w.dispatch, o.ackedSeq)

DeliveryInv == RowsBound /\ IdleUntold /\ WorkCurrent /\ ToldOnce

(* Nothing is told before anything happens.                                *)
LEMMA InitDelivery == Init => DeliveryInv
  BY DEF Init, DeliveryInv, RowsBound, IdleUntold, WorkCurrent, ToldOnce,
         WakesUpTo

(* A step that leaves the origin alone keeps the invariant.                *)
LEMMA DeliveryFrame ==
    ASSUME DeliveryInv, UNCHANGED <<origin, forward, observer, wakes>>
    PROVE  DeliveryInv'
  BY DEF DeliveryInv, RowsBound, IdleUntold, WorkCurrent, ToldOnce, WakesUpTo

(* A step that changes one row, tells nobody and journals no dispatch      *)
(* anew only has to bound what was told by the new row.                    *)
LEMMA RowChange ==
    ASSUME TypeOK, DeliveryInv, NEW d \in Dispatches, NEW o \in origin[d],
           NEW x, origin' = [origin EXCEPT ![d] = {x}],
           x.deliveringSeq = {} => WakesUpTo(d, x.ackedSeq),
           \A s \in x.deliveringSeq : x.ackedSeq < s /\ WakesUpTo(d, s),
           \A e \in Dispatches : forward'[e] = "idle" => forward[e] = "idle",
           wakes' = wakes
    PROVE  RowsBound' /\ IdleUntold' /\ ToldOnce'
<1>1. /\ origin'[d] = {x}
      /\ \A e \in Dispatches \ {d} : origin'[e] = origin[e]
  BY DEF TypeOK
<1>2. \A e, n : WakesUpTo(e, n)' <=> WakesUpTo(e, n)
  BY DEF WakesUpTo
<1>3. RowsBound'
  <2> SUFFICES ASSUME NEW e \in Dispatches, NEW q \in origin'[e]
               PROVE  /\ q.deliveringSeq = {} => WakesUpTo(e, q.ackedSeq)
                      /\ \A s \in q.deliveringSeq :
                           q.ackedSeq < s /\ WakesUpTo(e, s)
    BY <1>2 DEF RowsBound
  <2>1. CASE e = d
    BY <1>1, <2>1
  <2>2. CASE e # d
    BY <1>1, <2>2 DEF DeliveryInv, RowsBound
  <2> QED
    BY <2>1, <2>2
<1>4. IdleUntold'
  <2> SUFFICES ASSUME NEW e \in Dispatches, forward'[e] = "idle"
               PROVE  origin'[e] = {} /\ wakes[e] = <<>>
    BY DEF IdleUntold
  <2>1. forward[e] = "idle" /\ origin[e] = {} /\ wakes[e] = <<>>
    BY DEF DeliveryInv, IdleUntold
  <2>2. e # d
    BY <2>1
  <2> QED
    BY <1>1, <2>1, <2>2
<1>5. ToldOnce'
  BY DEF DeliveryInv, ToldOnce
<1> QED
  BY <1>3, <1>4, <1>5

(* Journaling a dispatch, and the calls that follow it.                    *)
LEMMA OriginDelivery ==
    ASSUME TypeOK, DeliveryInv, NEW d \in Dispatches, Origin(d)
    PROVE  DeliveryInv'
<1>1. CASE Dispatch(d)
  <2>1. PICK x : /\ x.deliveringSeq = {} /\ x.ackedSeq = 0
                 /\ origin' = [e \in Dispatches |->
                      IF e = d THEN {x}
                      ELSE IF e \in OriginEvicted THEN {} ELSE origin[e]]
    BY <1>1 DEF Dispatch
  <2>2. /\ forward[d] = "idle"
        /\ forward' = [forward EXCEPT ![d] = "preparing"]
        /\ UNCHANGED <<observer, wakes>>
    BY <1>1 DEF Dispatch
  <2>3. origin[d] = {} /\ wakes[d] = <<>>
    BY <2>2 DEF DeliveryInv, IdleUntold
  <2>4. \A e \in Dispatches \ {d} : origin'[e] \in {{}, origin[e]}
    BY <2>1
  <2>5. \A e \in OpenRows \ {d} : origin'[e] = origin[e]
    <3>1. \A e \in OpenRows : e \in Dispatches /\ e \notin OriginEvicted
      BY DEF OpenRows, OriginRows, OriginEvicted
    <3> QED
      BY <2>1, <3>1
  <2>6. \A e, n : WakesUpTo(e, n)' <=> WakesUpTo(e, n)
    BY <2>2 DEF WakesUpTo
  <2>7. RowsBound'
    <3> SUFFICES ASSUME NEW e \in Dispatches, NEW q \in origin'[e]
                 PROVE  /\ q.deliveringSeq = {} => WakesUpTo(e, q.ackedSeq)
                        /\ \A s \in q.deliveringSeq :
                             q.ackedSeq < s /\ WakesUpTo(e, s)
      BY <2>6 DEF RowsBound
    <3>1. CASE e = d
      BY <2>1, <2>3, <3>1 DEF WakesUpTo
    <3>2. CASE e # d
      BY <2>4, <3>2 DEF DeliveryInv, RowsBound
    <3> QED
      BY <3>1, <3>2
  <2>8. IdleUntold'
    BY <2>2, <2>4 DEF DeliveryInv, IdleUntold, TypeOK
  <2>9. WorkCurrent'
    <3> SUFFICES ASSUME NEW w \in observer
                 PROVE  \E o \in origin'[w.dispatch] :
                          /\ o.state = "open"
                          /\ o.ackedSeq < w.update.seq
                          /\ o.deliveringSeq = IF w.phase = "accepted" THEN {}
                                               ELSE {w.update.seq}
                          /\ w.phase \in {"accepted", "marked"} =>
                               WakesUpTo(w.dispatch, o.ackedSeq)
      BY <2>2, <2>6 DEF WorkCurrent
    <3>1. PICK o \in origin[w.dispatch] :
            /\ o.state = "open"
            /\ o.ackedSeq < w.update.seq
            /\ o.deliveringSeq = IF w.phase = "accepted" THEN {}
                                 ELSE {w.update.seq}
            /\ w.phase \in {"accepted", "marked"} =>
                 WakesUpTo(w.dispatch, o.ackedSeq)
      BY DEF DeliveryInv, WorkCurrent
    <3>2. w.dispatch \in Dispatches
      BY WorkElim DEF Work
    <3>3. w.dispatch \in OpenRows \ {d}
      BY <2>3, <3>1, <3>2 DEF OpenRows, OriginRows
    <3> QED
      BY <2>5, <3>1, <3>3
  <2>10. ToldOnce'
    BY <2>2 DEF DeliveryInv, ToldOnce
  <2> QED
    BY <2>7, <2>8, <2>9, <2>10 DEF DeliveryInv
<1>2. CASE CallSpawn(d) \/ ForwardFails(d)
  <2>1. /\ UNCHANGED <<origin, observer, wakes>>
        /\ forward[d] # "idle"
        /\ \E p \in {"spawning", "over"} : forward' = [forward EXCEPT ![d] = p]
    BY <1>2 DEF CallSpawn, ForwardFails
  <2>2. \A e \in Dispatches : forward'[e] = "idle" => forward[e] = "idle"
    BY <2>1 DEF TypeOK
  <2>3. IdleUntold'
    BY <2>1, <2>2 DEF DeliveryInv, IdleUntold
  <2>4. RowsBound' /\ WorkCurrent' /\ ToldOnce'
    BY <2>1 DEF DeliveryInv, RowsBound, WorkCurrent, ToldOnce, WakesUpTo
  <2> QED
    BY <2>3, <2>4 DEF DeliveryInv
<1>3. CASE Attach(d)
  <2>1. PICK m \in calls, o \in origin[d] :
          /\ origin' \in {origin, [origin EXCEPT ![d] =
                                     {[o EXCEPT !.session = m.arg]}]}
          /\ forward' = [forward EXCEPT ![d] = "over"]
          /\ UNCHANGED <<observer, wakes>>
    BY <1>3 DEF Attach
  <2> DEFINE x == [o EXCEPT !.session = m.arg]
  <2>2. o \in OriginRecord /\ origin[d] = {o}
    BY RowElim
  <2>3. /\ x.state = o.state /\ x.ackedSeq = o.ackedSeq
        /\ x.deliveringSeq = o.deliveringSeq
    BY <2>2 DEF OriginRecord
  <2> HIDE DEF x
  <2>4. \A e \in Dispatches : forward'[e] = "idle" => forward[e] = "idle"
    BY <2>1 DEF TypeOK
  <2>5. /\ o.deliveringSeq = {} => WakesUpTo(d, o.ackedSeq)
        /\ \A s \in o.deliveringSeq : o.ackedSeq < s /\ WakesUpTo(d, s)
    BY DEF DeliveryInv, RowsBound
  <2>6. CASE origin' = [origin EXCEPT ![d] = {x}]
    <3>1. RowsBound' /\ IdleUntold' /\ ToldOnce'
      BY <2>1, <2>3, <2>4, <2>5, <2>6, RowChange
    <3>2. WorkCurrent'
      <4>1. /\ origin'[d] = {x}
            /\ \A e \in Dispatches \ {d} : origin'[e] = origin[e]
        BY <2>6 DEF TypeOK
      <4>2. \A w \in observer : w.dispatch \in Dispatches
        BY WorkElim DEF Work
      <4>3. \A e, n : WakesUpTo(e, n)' <=> WakesUpTo(e, n)
        BY <2>1 DEF WakesUpTo
      <4> SUFFICES ASSUME NEW w \in observer
                   PROVE  \E q \in origin'[w.dispatch] :
                            /\ q.state = "open"
                            /\ q.ackedSeq < w.update.seq
                            /\ q.deliveringSeq = IF w.phase = "accepted" THEN {}
                                                 ELSE {w.update.seq}
                            /\ w.phase \in {"accepted", "marked"} =>
                                 WakesUpTo(w.dispatch, q.ackedSeq)
        BY <2>1, <4>3 DEF WorkCurrent
      <4>4. PICK q \in origin[w.dispatch] :
              /\ q.state = "open"
              /\ q.ackedSeq < w.update.seq
              /\ q.deliveringSeq = IF w.phase = "accepted" THEN {}
                                   ELSE {w.update.seq}
              /\ w.phase \in {"accepted", "marked"} =>
                   WakesUpTo(w.dispatch, q.ackedSeq)
        BY DEF DeliveryInv, WorkCurrent
      <4>5. CASE w.dispatch = d
        <5>1. q = o
          BY <2>2, <4>5
        <5> QED
          BY <2>3, <4>1, <4>4, <4>5, <5>1
      <4>6. CASE w.dispatch # d
        BY <4>1, <4>2, <4>4, <4>6
      <4> QED
        BY <4>5, <4>6
    <3> QED
      BY <3>1, <3>2 DEF DeliveryInv
  <2>7. CASE origin' = origin
    <3>1. IdleUntold'
      BY <2>1, <2>4, <2>7 DEF DeliveryInv, IdleUntold
    <3>2. RowsBound' /\ WorkCurrent' /\ ToldOnce'
      BY <2>1, <2>7 DEF DeliveryInv, RowsBound, WorkCurrent, ToldOnce, WakesUpTo
    <3> QED
      BY <3>1, <3>2 DEF DeliveryInv
  <2> QED
    BY <2>1, <2>6, <2>7 DEF x
<1> QED
  BY <1>1, <1>2, <1>3 DEF Origin

(* Accepting an update: the observer starts only on a row with no delivery *)
(* under way, and on an update newer than all the owner was told.          *)
LEMMA AcceptDelivery ==
    ASSUME TypeOK, DeliveryInv, NEW d \in Dispatches, NEW o \in origin[d],
           NEW u \in Update, Acceptable(o, u), Accept(d, o, u),
           UNCHANGED <<forward, wakes>>
    PROVE  DeliveryInv'
<1>1. PICK k \in Known(o, u) :
        /\ origin' = [origin EXCEPT ![d] = {Retained(o, k)}]
        /\ observer' = IF MayDeliver(o)
                       THEN {[dispatch |-> d, update |-> k,
                              phase |-> "accepted"]}
                       ELSE {}
  BY DEF Accept
<1>2. o \in OriginRecord /\ origin[d] = {o}
  BY RowElim
<1>3. k \in Update /\ k.seq = u.seq
  BY <1>2, KnownType
<1> DEFINE x == Retained(o, k)
<1>4. /\ x.state = "open" /\ x.ackedSeq = o.ackedSeq
      /\ x.deliveringSeq = o.deliveringSeq
  BY <1>2 DEF Retained, Acceptable, OriginRecord
<1>5. o.ackedSeq < k.seq
  BY <1>2, <1>3 DEF Acceptable, OriginRecord, Update
<1> HIDE DEF x
<1>6. /\ o.deliveringSeq = {} => WakesUpTo(d, o.ackedSeq)
      /\ \A s \in o.deliveringSeq : o.ackedSeq < s /\ WakesUpTo(d, s)
  BY DEF DeliveryInv, RowsBound
<1>7. origin' = [origin EXCEPT ![d] = {x}] /\ origin'[d] = {x}
  BY <1>1 DEF x, TypeOK
<1>8. RowsBound' /\ IdleUntold' /\ ToldOnce'
  BY <1>4, <1>6, <1>7, RowChange
<1>9. WorkCurrent'
  <2>1. CASE MayDeliver(o)
    <3>1. o.deliveringSeq = {} /\ WakesUpTo(d, o.ackedSeq)'
      BY <1>6, <2>1 DEF MayDeliver, WakesUpTo
    <3>2. observer' = {[dispatch |-> d, update |-> k, phase |-> "accepted"]}
      BY <1>1, <2>1
    <3> QED
      BY <1>4, <1>5, <1>7, <3>1, <3>2 DEF WorkCurrent, WakesUpTo
  <2>2. CASE ~MayDeliver(o)
    BY <1>1, <2>2 DEF WorkCurrent
  <2> QED
    BY <2>1, <2>2
<1> QED
  BY <1>8, <1>9 DEF DeliveryInv

(* The observer's steps: the intent is journaled before the owner's engine *)
(* is called, so that whatever it took is bounded by the row.              *)
LEMMA ObserveDelivery ==
    ASSUME TypeOK, DeliveryInv, Observe
    PROVE  DeliveryInv'
<1> DEFINE Current(w, o) ==
      /\ o.state = "open"
      /\ o.ackedSeq < w.update.seq
      /\ o.deliveringSeq = IF w.phase = "accepted" THEN {} ELSE {w.update.seq}
      /\ w.phase \in {"accepted", "marked"} => WakesUpTo(w.dispatch, o.ackedSeq)
<1>0. \A w \in observer : \A o \in origin[w.dispatch] :
        /\ w \in Work /\ w.dispatch \in Dispatches /\ w.update.seq \in Nat
        /\ o \in OriginRecord /\ origin[w.dispatch] = {o}
        /\ o.ackedSeq \in Nat
        /\ Current(w, o)
  <2> TAKE w \in observer
  <2> TAKE o \in origin[w.dispatch]
  <2>1. w \in Work /\ w.dispatch \in Dispatches /\ w.update \in Update
    BY WorkElim DEF Work
  <2>2. w.update.seq \in Nat
    BY <2>1 DEF Update
  <2>3. o \in OriginRecord /\ origin[w.dispatch] = {o}
    BY <2>1, RowElim
  <2>4. o.ackedSeq \in Nat
    BY <2>3 DEF OriginRecord
  <2>5. PICK q \in origin[w.dispatch] : Current(w, q)
    BY DEF DeliveryInv, WorkCurrent
  <2>6. q = o
    BY <2>3
  <2> QED
    BY <2>1, <2>2, <2>3, <2>4, <2>5, <2>6
<1> HIDE DEF Current
<1>1. CASE ReceiveUpdate
  <2>1. PICK e \in updates :
          /\ IF \E o \in origin[e.dispatch] : Acceptable(o, e.update)
             THEN \E o \in origin[e.dispatch] : Accept(e.dispatch, o, e.update)
             ELSE UNCHANGED <<origin, observer>>
          /\ UNCHANGED <<forward, wakes>>
    BY <1>1 DEF ReceiveUpdate
  <2>2. e.dispatch \in Dispatches /\ e.update \in Update
    BY DEF TypeOK, Event
  <2>3. CASE \E o \in origin[e.dispatch] : Acceptable(o, e.update)
    <3>1. PICK o \in origin[e.dispatch] : Accept(e.dispatch, o, e.update)
      BY <2>1, <2>3
    <3>2. Acceptable(o, e.update)
      BY <2>2, <2>3, RowElim
    <3> QED
      BY <2>1, <2>2, <3>1, <3>2, AcceptDelivery
  <2>4. CASE ~ \E o \in origin[e.dispatch] : Acceptable(o, e.update)
    BY <2>1, <2>4, DeliveryFrame
  <2> QED
    BY <2>3, <2>4
<1>2. CASE MarkDelivering
  <2>1. PICK w, o :
          /\ w \in observer /\ o \in origin[w.dispatch]
          /\ w.phase = "accepted"
          /\ origin' = [origin EXCEPT ![w.dispatch] =
                          {[o EXCEPT !.deliveringSeq = {w.update.seq}]}]
          /\ observer' = {[w EXCEPT !.phase = "marked"]}
          /\ UNCHANGED <<forward, wakes>>
    BY <1>2 DEF MarkDelivering
  <2> DEFINE d == w.dispatch
             x == [o EXCEPT !.deliveringSeq = {w.update.seq}]
             v == [w EXCEPT !.phase = "marked"]
  <2>2. /\ w \in Work /\ d \in Dispatches /\ w.update.seq \in Nat
        /\ o \in OriginRecord /\ o.ackedSeq \in Nat
        /\ o.state = "open" /\ o.ackedSeq < w.update.seq
        /\ WakesUpTo(d, o.ackedSeq)
    BY <1>0, <2>1 DEF Current
  <2>3. /\ x.state = "open" /\ x.ackedSeq = o.ackedSeq
        /\ x.deliveringSeq = {w.update.seq}
    BY <2>2 DEF OriginRecord
  <2>4. v.dispatch = d /\ v.update = w.update /\ v.phase = "marked"
    BY <2>2 DEF Work
  <2>5. WakesUpTo(d, w.update.seq)
    BY <2>2 DEF WakesUpTo, TypeOK
  <2>6. origin' = [origin EXCEPT ![d] = {x}] /\ origin'[d] = {x}
    BY <2>1, <2>2 DEF TypeOK
  <2>7. observer' = {v}
    BY <2>1
  <2> HIDE DEF x, v, d
  <2>8. o \in origin[d]
    BY <2>1 DEF d
  <2>9. RowsBound' /\ IdleUntold' /\ ToldOnce'
    <3>1. /\ x.deliveringSeq = {} => WakesUpTo(d, x.ackedSeq)
          /\ \A s \in x.deliveringSeq : x.ackedSeq < s /\ WakesUpTo(d, s)
      BY <2>2, <2>3, <2>5
    <3>2. /\ \A e \in Dispatches : forward'[e] = "idle" => forward[e] = "idle"
          /\ wakes' = wakes /\ d \in Dispatches
      BY <2>1, <2>2
    <3> QED
      BY <2>6, <2>8, <3>1, <3>2, RowChange
  <2>10. WakesUpTo(d, o.ackedSeq)'
    BY <2>1, <2>2 DEF WakesUpTo
  <2>11. WorkCurrent'
    BY <2>2, <2>3, <2>4, <2>6, <2>7, <2>10 DEF WorkCurrent, WakesUpTo
  <2> QED
    BY <2>9, <2>11 DEF DeliveryInv
<1>3. CASE Deliver
  <2>1. PICK w, o :
          /\ w \in observer /\ o \in origin[w.dispatch]
          /\ w.phase = "marked"
          /\ IF o.booked /\ signature[w.dispatch] = w.update.seq
             THEN wakes' = wakes /\ observer' = {[w EXCEPT !.phase = "signed"]}
             ELSE /\ wakes' = [wakes EXCEPT ![w.dispatch] =
                                 Append(@, w.update.seq)]
                  /\ observer' = {[w EXCEPT !.phase = "sent"]}
          /\ UNCHANGED <<origin, forward>>
    BY <1>3 DEF Deliver
  <2> DEFINE d == w.dispatch
             n == w.update.seq
  <2>2. /\ w \in Work /\ d \in Dispatches /\ n \in Nat
        /\ origin[d] = {o} /\ o.ackedSeq \in Nat
        /\ o.state = "open" /\ o.ackedSeq < n /\ o.deliveringSeq = {n}
        /\ WakesUpTo(d, o.ackedSeq)
    BY <1>0, <2>1 DEF Current
  <2>3. PICK p \in {"signed", "sent"} : observer' = {[w EXCEPT !.phase = p]}
    BY <2>1
  <2> DEFINE v == [w EXCEPT !.phase = p]
  <2>4. v.dispatch = d /\ v.update.seq = n /\ v.phase = p
    BY <2>2 DEF Work
  <2>5. observer' = {v}
    BY <2>3
  <2> HIDE DEF v, d, n
  <2>6. WorkCurrent'
    BY <2>1, <2>2, <2>4, <2>5 DEF WorkCurrent
  <2>7. CASE wakes' = wakes
    BY <2>1, <2>6, <2>7
    DEF DeliveryInv, RowsBound, IdleUntold, ToldOnce, WakesUpTo
  <2>8. CASE wakes' = [wakes EXCEPT ![d] = Append(@, n)]
    <3> DEFINE s == wakes[d]
               t == Append(s, n)
    <3>1. s \in Seq(Nat) /\ wakes \in [Dispatches -> Seq(Nat)]
      BY <2>2 DEF TypeOK
    <3>2. /\ DOMAIN t = 1..(Len(s) + 1) /\ DOMAIN s = 1..Len(s)
          /\ Len(s) \in Nat
          /\ \A i \in 1..Len(s) : t[i] = s[i] /\ s[i] \in Nat
          /\ t[Len(s) + 1] = n
      BY <3>1, <2>2
    <3>3. wakes'[d] = t /\ \A e \in Dispatches \ {d} : wakes'[e] = wakes[e]
      BY <2>2, <2>8, <3>1
    <3>4. /\ \A i \in DOMAIN s : s[i] <= o.ackedSeq
          /\ \A i, j \in DOMAIN s : i < j => s[i] < s[j]
      BY <2>2 DEF WakesUpTo, DeliveryInv, ToldOnce
    <3> HIDE DEF s, t
    <3>5. \A i \in DOMAIN t : t[i] <= n
      BY <2>2, <3>2, <3>4
    <3>6. \A i, j \in DOMAIN t : i < j => t[i] < t[j]
      <4> SUFFICES ASSUME NEW i \in DOMAIN t, NEW j \in DOMAIN t, i < j
                   PROVE  t[i] < t[j]
        OBVIOUS
      <4>1. i \in 1..Len(s)
        BY <3>2
      <4>2. CASE j \in 1..Len(s)
        BY <3>2, <3>4, <4>1, <4>2
      <4>3. CASE j = Len(s) + 1
        <5>1. t[i] <= o.ackedSeq /\ t[i] \in Nat /\ t[j] = n
          BY <3>2, <3>4, <4>1, <4>3
        <5> QED
          BY <2>2, <5>1
      <4> QED
        BY <3>2, <4>2, <4>3
    <3>7. ToldOnce'
      <4> SUFFICES ASSUME NEW e \in Dispatches
                   PROVE  \A i, j \in DOMAIN wakes'[e] :
                            i < j => wakes'[e][i] < wakes'[e][j]
        BY DEF ToldOnce
      <4>1. CASE e = d
        BY <3>3, <3>6, <4>1
      <4>2. CASE e # d
        BY <3>3, <4>2 DEF DeliveryInv, ToldOnce
      <4> QED
        BY <4>1, <4>2
    <3>8. RowsBound'
      <4> SUFFICES ASSUME NEW e \in Dispatches, NEW q \in origin[e]
                   PROVE  /\ q.deliveringSeq = {} => WakesUpTo(e, q.ackedSeq)'
                          /\ \A m \in q.deliveringSeq :
                               q.ackedSeq < m /\ WakesUpTo(e, m)'
        BY <2>1 DEF RowsBound, WakesUpTo
      <4>1. CASE e = d
        <5>1. q = o
          BY <2>2, <4>1
        <5>2. WakesUpTo(d, n)'
          BY <3>3, <3>5 DEF WakesUpTo
        <5> QED
          BY <2>2, <4>1, <5>1, <5>2 DEF WakesUpTo
      <4>2. CASE e # d
        BY <3>3, <4>2 DEF DeliveryInv, RowsBound, WakesUpTo
      <4> QED
        BY <4>1, <4>2
    <3>9. IdleUntold'
      <4>1. forward[d] # "idle"
        BY <2>2 DEF DeliveryInv, IdleUntold
      <4> QED
        BY <2>1, <3>3, <4>1 DEF DeliveryInv, IdleUntold
    <3> QED
      BY <2>6, <3>7, <3>8, <3>9 DEF DeliveryInv
  <2> QED
    BY <2>1, <2>7, <2>8 DEF d, n
<1>4. CASE RecordSignature
  <2>1. PICK w, o :
          /\ w \in observer /\ o \in origin[w.dispatch]
          /\ w.phase = "sent"
          /\ observer' = {[w EXCEPT !.phase = "signed"]}
          /\ UNCHANGED <<origin, forward, wakes>>
    BY <1>4 DEF RecordSignature
  <2> DEFINE v == [w EXCEPT !.phase = "signed"]
  <2>2. /\ w \in Work
        /\ o.state = "open" /\ o.ackedSeq < w.update.seq
        /\ o.deliveringSeq = {w.update.seq}
    BY <1>0, <2>1 DEF Current
  <2>3. v.dispatch = w.dispatch /\ v.update = w.update /\ v.phase = "signed"
    BY <2>2 DEF Work
  <2>4. observer' = {v}
    BY <2>1
  <2> HIDE DEF v
  <2>5. WorkCurrent'
    BY <2>1, <2>2, <2>3, <2>4 DEF WorkCurrent
  <2> QED
    BY <2>1, <2>5 DEF DeliveryInv, RowsBound, IdleUntold, ToldOnce, WakesUpTo
<1>5. CASE Acknowledge
  <2>1. PICK w, o :
          /\ w \in observer /\ o \in origin[w.dispatch]
          /\ w.phase = "signed"
          /\ origin' = [origin EXCEPT ![w.dispatch] =
                          {AcknowledgedRow(o, w.update)}]
          /\ observer' = {}
          /\ UNCHANGED <<forward, wakes>>
    BY <1>5 DEF Acknowledge
  <2>2. /\ w.dispatch \in Dispatches /\ w.update.seq \in Nat
        /\ o \in OriginRecord /\ o.ackedSeq \in Nat
        /\ o.ackedSeq < w.update.seq /\ o.deliveringSeq = {w.update.seq}
    BY <1>0, <2>1 DEF Current
  <2>3. WakesUpTo(w.dispatch, w.update.seq)
    BY <2>1, <2>2 DEF DeliveryInv, RowsBound
  <2>4. /\ AcknowledgedRow(o, w.update).deliveringSeq = {}
        /\ AcknowledgedRow(o, w.update).ackedSeq = w.update.seq
    BY <2>2 DEF AcknowledgedRow, OriginRecord
  <2>5. RowsBound' /\ IdleUntold' /\ ToldOnce'
    BY <2>1, <2>2, <2>3, <2>4, RowChange
  <2>6. WorkCurrent'
    BY <2>1 DEF WorkCurrent
  <2> QED
    BY <2>5, <2>6 DEF DeliveryInv
<1>6. CASE DeliveryFails
  BY <1>6 DEF DeliveryFails, DeliveryInv, RowsBound, IdleUntold, WorkCurrent,
              ToldOnce, WakesUpTo
<1> QED
  BY <1>1, <1>2, <1>3, <1>4, <1>5, <1>6 DEF Observe

(* Reconciliation: a confirmed delivery becomes an acknowledged one.       *)
LEMMA ReconcileDelivery ==
    ASSUME TypeOK, DeliveryInv, NEW d \in Dispatches, Reconcile(d)
    PROVE  DeliveryInv'
<1>1. CASE ReconcileDone(d) \/ ReconcileReplay(d)
  BY <1>1, DeliveryFrame DEF ReconcileDone, ReconcileReplay, atOrigin
<1>2. CASE ReconcileConfirm(d)
  <2>1. PICK o, u :
          /\ o \in origin[d] /\ u \in o.lastUpdate
          /\ Confirmable(d, o)
          /\ origin' = [origin EXCEPT ![d] = {AcknowledgedRow(o, u)}]
    BY <1>2 DEF ReconcileConfirm
  <2>2. UNCHANGED <<forward, observer, wakes>> /\ observer = {}
    BY <1>2 DEF ReconcileConfirm
  <2>3. /\ o \in OriginRecord /\ u \in o.lastUpdate
        /\ u \in Update /\ o.lastUpdate = {u}
    BY <2>1, RowElim, LastElim
  <2>4. o.deliveringSeq = {u.seq}
    BY <2>1, <2>3 DEF Confirmable
  <2>5. u.seq \in Nat /\ o.ackedSeq \in Nat
    BY <2>3 DEF Update, OriginRecord
  <2>6. o.ackedSeq < u.seq /\ WakesUpTo(d, u.seq)
    BY <2>1, <2>4 DEF DeliveryInv, RowsBound
  <2>7. /\ AcknowledgedRow(o, u).deliveringSeq = {}
        /\ AcknowledgedRow(o, u).ackedSeq = u.seq
    BY <2>3, <2>5, <2>6 DEF AcknowledgedRow, OriginRecord
  <2>8. RowsBound' /\ IdleUntold' /\ ToldOnce'
    BY <2>1, <2>2, <2>6, <2>7, RowChange
  <2>9. WorkCurrent'
    BY <2>2 DEF WorkCurrent
  <2> QED
    BY <2>8, <2>9 DEF DeliveryInv
<1>3. CASE ReconcileDeliver(d)
  <2>1. PICK o \in origin[d] : \E u \in o.lastUpdate :
          Acceptable(o, u) /\ Accept(d, o, u) /\ UNCHANGED <<forward, wakes>>
    BY <1>3 DEF ReconcileDeliver
  <2> QED
    BY <2>1, RowElim, LastElim, AcceptDelivery
<1> QED
  BY <1>1, <1>2, <1>3 DEF Reconcile

(* A restart of the origin forgets the observer's work, not the journal.   *)
LEMMA CrashDelivery ==
    ASSUME TypeOK, DeliveryInv, OriginCrash
    PROVE  DeliveryInv'
<1>1. /\ UNCHANGED <<origin, wakes>> /\ observer' = {}
      /\ \A d \in Dispatches : forward'[d] = "idle" => forward[d] = "idle"
  BY DEF OriginCrash
<1>2. IdleUntold'
  BY <1>1 DEF DeliveryInv, IdleUntold
<1> QED
  BY <1>1, <1>2 DEF DeliveryInv, RowsBound, WorkCurrent, ToldOnce, WakesUpTo

(* Every step keeps the delivery invariant.                                *)
LEMMA NextDelivery == TypeOK /\ DeliveryInv /\ [Next]_vars => DeliveryInv'
<1> SUFFICES ASSUME TypeOK, DeliveryInv, [Next]_vars PROVE DeliveryInv'
  OBVIOUS
<1>1. ASSUME NEW d \in Dispatches, Origin(d) PROVE DeliveryInv'
  BY <1>1, OriginDelivery
<1>2. ASSUME NEW d \in Dispatches, Receiver(d) PROVE DeliveryInv'
  <2>1. UNCHANGED atOrigin
    BY <1>2 DEF Receiver, PrepareAgain, Prepare, Allocate, Spawn, Launch,
                LeaseExpires, Sweep, Report, ReplayAck, Replay
  <2> QED
    BY <2>1, DeliveryFrame DEF atOrigin
<1>3. ASSUME NEW d \in Dispatches, Reconcile(d) PROVE DeliveryInv'
  BY <1>3, ReconcileDelivery
<1>4. CASE Observe
  BY <1>4, ObserveDelivery
<1>5. CASE OriginCrash
  BY <1>5, CrashDelivery
<1>6. CASE LoseCall \/ LoseUpdate \/ ReceiverCrash
  BY <1>6, DeliveryFrame DEF LoseCall, LoseUpdate, ReceiverCrash, atOrigin
<1>7. CASE UNCHANGED vars
  BY <1>7, DeliveryFrame DEF vars
<1> QED
  BY <1>1, <1>2, <1>3, <1>4, <1>5, <1>6, <1>7 DEF Next

(* The owner's engine takes no update of a paired worker twice and none    *)
(* after a newer one, for any number of dispatches, crashes, losses,       *)
(* repeated calls and failed deliveries, and journals of any size.         *)
THEOREM DispatchToldOnce == Spec => []ToldOnce
<1>1. Init => TypeOK /\ DeliveryInv
  BY InitType, InitDelivery
<1>2. TypeOK /\ DeliveryInv /\ [Next]_vars => (TypeOK /\ DeliveryInv)'
  BY NextType, NextDelivery
<1>3. TypeOK /\ DeliveryInv => ToldOnce
  BY DEF DeliveryInv
<1> QED
  BY <1>1, <1>2, <1>3, PTL DEF Spec

-----------------------------------------------------------------------------
(* One worker, whose updates both hubs mean.                               *)
(*                                                                         *)
(* Both hubs forget a dispatch when they evict its row, so a repeated      *)
(* prepare and a repeated spawn that both arrive after the eviction would  *)
(* be admitted as a new dispatch.  What follows is about links that repeat *)
(* at most one call; the federation client repeats none.                   *)

RepeatsOneCall == MaxRepeats <= 1

PrepareSent(d) == Msg("prepare", d, 0) \in calls
SpawnSent(d) == Msg("spawn", d, 0) \in calls

(* There is a lease that a spawn could still claim.                        *)
Leased(d) == \E r \in receiver[d] : ~r.claimed

(* A dispatch is claimed once: once it is, a lease and a spawn call cannot *)
(* meet again, and as long as no call was repeated neither is left.        *)
AdmitOnce == \A d \in Dispatches :
    /\ forward[d] = "idle" => ~PrepareSent(d) /\ receiver[d] = {}
    /\ forward[d] \in {"idle", "preparing"} => ~SpawnSent(d) /\ claims[d] = 0
    /\ budget.repeat > 0 =>
         /\ receiver[d] # {} \/ claims[d] > 0 => ~PrepareSent(d)
         /\ claims[d] > 0 => ~SpawnSent(d)
    /\ claims[d] > 0 => ~(SpawnSent(d) /\ (PrepareSent(d) \/ Leased(d)))
    /\ claims[d] <= 1
    /\ budget.repeat <= 1

(* No worker without a claim, and nothing is heard before it is started.   *)
LaunchSound == \A d \in Dispatches :
    /\ launches[d] <= claims[d]
    /\ d \in launching => claims[d] = 1 /\ launches[d] = 0
    /\ launches[d] = 0 => finals[d] = 0 /\ wakes[d] = <<>>

(* The origin has no open row for a dispatch it once made.                 *)
Settled(d) == forward[d] # "idle" /\ \A o \in origin[d] : o.state = "done"

(* An update the worker really reported, the final one if it is that.      *)
Genuine(d, u) ==
    /\ launches[d] = 1 /\ u.session = 1 /\ u.seq \in 1..MaxSeq
    /\ u.final <=> u.seq = finals[d]
    /\ finals[d] # 0 => u.seq <= finals[d]
    /\ \A r \in receiver[d] : r.claimed => u.seq <= r.seq

Blank(r) ==
    ~r.claimed /\ ~r.acked /\ r.session = 0 /\ r.seq = 0 /\ r.last = {}

(* The row of a claimed lease: the worker's last update, which is the      *)
(* result if there is one; only a settled dispatch is acknowledged.        *)
Working(d, r) ==
    /\ claims[d] = 1 /\ r.session = 1 /\ r.seq <= MaxSeq
    /\ \A u \in r.last : Genuine(d, u) /\ u.seq = r.seq
    /\ finals[d] # 0 <=> \E u \in r.last : u.final
    /\ r.acked => Settled(d)
    /\ WakesUpTo(d, r.seq)

(* A claimed row stays until the origin is done with the dispatch, and the *)
(* origin is not done before its owner was told the result.                *)
RowsSound == \A d \in Dispatches :
    /\ \A r \in receiver[d] : IF r.claimed THEN Working(d, r) ELSE Blank(r)
    /\ claims[d] = 0 \/ Settled(d) \/ \E r \in receiver[d] : r.claimed
    /\ Settled(d) => Woken(d)

UpdatesSound ==
    /\ \A e \in updates : Genuine(e.dispatch, e.update)
    /\ \A w \in observer : Genuine(w.dispatch, w.update)
    /\ \A d \in Dispatches : \A o \in origin[d] :
          \A u \in o.lastUpdate : Genuine(d, u)

(* An answer names the worker; an acknowledgement names the result of a    *)
(* settled dispatch.                                                       *)
MsgSound(m) ==
    /\ m.type = "spawned" => m.arg = 1 /\ claims[m.dispatch] = 1
    /\ m.type = "replay" /\ m.arg # 0 =>
         m.arg = finals[m.dispatch] /\ Settled(m.dispatch)

WorkSound(w) ==
    w.phase \in {"sent", "signed"} => w.update.seq \in WokenFor(w.dispatch)

RowSound(d, o) ==
    /\ o.session # 0 => o.session = 1 /\ claims[d] = 1
    /\ o.state = "done" => o.ackedSeq = finals[d]

ToldSound ==
    /\ \A d \in Dispatches : signature[d] \in {0} \cup WokenFor(d)
    /\ \A w \in observer : WorkSound(w)
    /\ \A d \in Dispatches : \A o \in origin[d] : RowSound(d, o)
    /\ \A m \in calls : MsgSound(m)

WorkerInv == LaunchSound /\ RowsSound /\ UpdatesSound /\ ToldSound

PairInv == TypeOK /\ DeliveryInv /\ AdmitOnce /\ WorkerInv

(* Initially nothing was dispatched.                                       *)
LEMMA InitPair == RepeatsOneCall /\ Init => PairInv
<1> SUFFICES ASSUME RepeatsOneCall, Init PROVE PairInv
  OBVIOUS
<1>1. TypeOK /\ DeliveryInv
  BY InitType, InitDelivery
<1>2. AdmitOnce
  BY DispatchBoundsAssumption
  DEF RepeatsOneCall, Init, AdmitOnce, PrepareSent, SpawnSent
<1>3. LaunchSound
  BY DEF Init, LaunchSound
<1>4. RowsSound /\ UpdatesSound /\ ToldSound
  BY DEF Init, RowsSound, UpdatesSound, ToldSound, Settled
<1> QED
  BY <1>1, <1>2, <1>3, <1>4 DEF PairInv, WorkerInv

-----------------------------------------------------------------------------
(* A dispatch is claimed once.                                             *)

(* What handling a call does to the link.                                  *)
LEMMA HandleFacts ==
    ASSUME TypeOK, NEW m, NEW answers, Handle(m, answers)
    PROVE  /\ m \in calls
           /\ \A x \in calls' : x \in calls \/ x \in answers
           /\ budget'.repeat <= budget.repeat
           /\ m \in calls' /\ m \notin answers =>
                budget.repeat > 0 /\ budget'.repeat = budget.repeat - 1
           /\ budget.repeat \in Nat /\ budget'.repeat \in Nat
<1>1. budget \in Budget
  BY DEF TypeOK
<1>2. CASE calls' = (calls \ {m}) \cup answers /\ UNCHANGED budget
  BY <1>1, <1>2 DEF Handle, Budget
<1>3. CASE /\ budget.repeat > 0
           /\ budget' = [budget EXCEPT !.repeat = @ - 1]
           /\ calls' = calls \cup answers
  <2>1. budget'.repeat = budget.repeat - 1 /\ budget.repeat \in Nat
    BY <1>1, <1>3 DEF Budget
  <2> QED
    BY <1>3, <2>1 DEF Handle
<1> QED
  BY <1>2, <1>3 DEF Handle

(* A step that neither claims nor leases nor sends a prepare or a spawn.   *)
LEMMA AdmitFrame ==
    ASSUME AdmitOnce, UNCHANGED claims,
           \A d \in Dispatches :
               /\ forward'[d] = "idle" => forward[d] = "idle"
               /\ forward'[d] = "preparing" => forward[d] = "preparing"
               /\ receiver'[d] # {} => receiver[d] # {}
               /\ Leased(d)' => Leased(d)
               /\ PrepareSent(d)' => PrepareSent(d)
               /\ SpawnSent(d)' => SpawnSent(d),
           \A d \in Dispatches : forward[d] = "idle" => receiver'[d] = {},
           budget.repeat \in Nat, budget'.repeat \in Nat,
           budget'.repeat <= budget.repeat
    PROVE  AdmitOnce'
<1> SUFFICES ASSUME NEW d \in Dispatches
             PROVE /\ forward'[d] = "idle" => ~PrepareSent(d)' /\ receiver'[d] = {}
                   /\ forward'[d] \in {"idle", "preparing"} =>
                        ~SpawnSent(d)' /\ claims[d] = 0
                   /\ budget'.repeat > 0 =>
                        /\ receiver'[d] # {} \/ claims[d] > 0 => ~PrepareSent(d)'
                        /\ claims[d] > 0 => ~SpawnSent(d)'
                   /\ claims[d] > 0 =>
                        ~(SpawnSent(d)' /\ (PrepareSent(d)' \/ Leased(d)'))
                   /\ claims[d] <= 1
                   /\ budget'.repeat <= 1
  BY DEF AdmitOnce
<1> QED
  BY DEF AdmitOnce

(* What the messages of two dispatches have in common.                     *)
LEMMA MsgFacts ==
    \A t, d, n : /\ Msg(t, d, n).type = t
                 /\ Msg(t, d, n).dispatch = d
                 /\ Msg(t, d, n).arg = n
  BY DEF Msg

(* Taking messages off the link, or adding others, sends none of these.    *)
LEMMA SentFrame ==
    ASSUME \A m \in calls' : m \in calls \/ m.type \notin {"prepare", "spawn"}
    PROVE  \A d : /\ PrepareSent(d)' => PrepareSent(d)
                  /\ SpawnSent(d)' => SpawnSent(d)
  BY MsgFacts DEF PrepareSent, SpawnSent

(* Dispatching: a new row, one prepare call, and one spawn call.           *)
LEMMA OriginAdmit ==
    ASSUME TypeOK, AdmitOnce, NEW d \in Dispatches, Origin(d)
    PROVE  AdmitOnce'
<1>0. budget.repeat \in Nat
  BY DEF TypeOK, Budget
<1>1. CASE Dispatch(d)
  <2>1. /\ forward[d] = "idle"
        /\ forward' = [forward EXCEPT ![d] = "preparing"]
        /\ calls' = calls \cup {Msg("prepare", d, 0)}
        /\ UNCHANGED <<receiver, claims, budget>>
    BY <1>1 DEF Dispatch, atReceiver
  <2>2. /\ forward'[d] = "preparing"
        /\ \A e \in Dispatches \ {d} : forward'[e] = forward[e]
    BY <2>1 DEF TypeOK
  <2>3. \A e : SpawnSent(e)' => SpawnSent(e)
    BY <2>1, MsgFacts DEF SpawnSent
  <2>4. \A e : e # d /\ PrepareSent(e)' => PrepareSent(e)
    BY <2>1, MsgFacts DEF PrepareSent
  <2>5. \A e : Leased(e)' <=> Leased(e)
    BY <2>1 DEF Leased
  <2> QED
    BY <2>1, <2>2, <2>3, <2>4, <2>5 DEF AdmitOnce
<1>2. CASE CallSpawn(d)
  <2>1. /\ forward[d] = "preparing"
        /\ forward' = [forward EXCEPT ![d] = "spawning"]
        /\ calls' = (calls \ {Msg("prepared", d, 0)}) \cup {Msg("spawn", d, 0)}
        /\ UNCHANGED <<receiver, claims, budget>>
    BY <1>2 DEF CallSpawn, atReceiver
  <2>2. /\ forward'[d] = "spawning"
        /\ \A e \in Dispatches \ {d} : forward'[e] = forward[e]
    BY <2>1 DEF TypeOK
  <2>3. \A e : PrepareSent(e)' => PrepareSent(e)
    BY <2>1, MsgFacts DEF PrepareSent
  <2>4. \A e : e # d /\ SpawnSent(e)' => SpawnSent(e)
    BY <2>1, MsgFacts DEF SpawnSent
  <2>5. \A e : Leased(e)' <=> Leased(e)
    BY <2>1 DEF Leased
  <2> QED
    BY <2>1, <2>2, <2>3, <2>4, <2>5 DEF AdmitOnce
<1>3. CASE Attach(d) \/ ForwardFails(d)
  <2>1. /\ forward[d] # "idle"
        /\ forward' = [forward EXCEPT ![d] = "over"]
        /\ calls' \subseteq calls
        /\ UNCHANGED <<receiver, claims, budget>>
    BY <1>3 DEF Attach, ForwardFails, atReceiver, link
  <2>2. \A e \in Dispatches : forward'[e] \in {"over", forward[e]}
    BY <2>1 DEF TypeOK
  <2>3. \A e : /\ PrepareSent(e)' => PrepareSent(e)
               /\ SpawnSent(e)' => SpawnSent(e)
    BY <2>1, SentFrame
  <2>4. \A e : Leased(e)' <=> Leased(e)
    BY <2>1 DEF Leased
  <2>5. \A e \in Dispatches : forward[e] = "idle" => receiver'[e] = {}
    BY <2>1 DEF AdmitOnce
  <2> QED
    BY <1>0, <2>1, <2>2, <2>3, <2>4, <2>5, AdmitFrame
<1> QED
  BY <1>1, <1>2, <1>3 DEF Origin

(* A known lease, an allocation, an expiry, a sweep and an engine spawn    *)
(* neither claim nor lease.                                                *)
LEMMA LeaseAdmit ==
    ASSUME TypeOK, AdmitOnce, NEW d \in Dispatches,
           PrepareAgain(d) \/ Allocate(d) \/ Launch(d) \/ LeaseExpires(d)
             \/ Sweep(d)
    PROVE  AdmitOnce'
<1>0. budget.repeat \in Nat
  BY DEF TypeOK, Budget
<1>1. /\ UNCHANGED <<forward, claims>>
      /\ \A m \in calls' : m \in calls \/ m.type \notin {"prepare", "spawn"}
      /\ budget'.repeat \in Nat /\ budget'.repeat <= budget.repeat
  <2>1. CASE PrepareAgain(d)
    <3>1. PICK answers : /\ answers \in {{}, {Msg("prepared", d, 0)}}
                         /\ Handle(Msg("prepare", d, 0), answers)
                         /\ UNCHANGED <<forward, claims>>
      BY <2>1 DEF PrepareAgain, atOrigin, atReceiver
    <3> QED
      BY <3>1, HandleFacts, MsgFacts
  <2>2. CASE Allocate(d)
    BY <1>0, <2>2, MsgFacts DEF Allocate, atOrigin
  <2>3. CASE Launch(d)
    BY <1>0, <2>3, MsgFacts DEF Launch, atOrigin
  <2>4. CASE LeaseExpires(d) \/ Sweep(d)
    BY <1>0, <2>4 DEF LeaseExpires, Sweep, atOrigin, link
  <2> QED
    BY <2>1, <2>2, <2>3, <2>4
<1>2. \A e \in Dispatches : /\ Leased(e)' => Leased(e)
                            /\ receiver'[e] # {} => receiver[e] # {}
  <2>1. CASE PrepareAgain(d) \/ Launch(d)
    BY <2>1 DEF PrepareAgain, Launch, atReceiver, Leased
  <2>2. CASE Allocate(d) \/ LeaseExpires(d) \/ Sweep(d)
    <3>1. PICK r \in receiver[d] :
            \/ receiver' = [receiver EXCEPT ![d] = {}]
            \/ receiver' = [receiver EXCEPT ![d] = {[r EXCEPT !.expired = TRUE]}]
            \/ \E ok \in BOOLEAN :
                 receiver' = [receiver EXCEPT ![d] = {[r EXCEPT !.prepared = ok]}]
      BY <2>2 DEF Allocate, LeaseExpires, Sweep
    <3>2. r \in WorkerRecord
      BY RowElim
    <3>3. /\ \A e \in Dispatches \ {d} : receiver'[e] = receiver[e]
          /\ \A q \in receiver'[d] : q.claimed = r.claimed
      BY <3>1, <3>2 DEF TypeOK, WorkerRecord
    <3> QED
      BY <3>3 DEF Leased
  <2> QED
    BY <2>1, <2>2
<1>3. \A e : /\ PrepareSent(e)' => PrepareSent(e)
             /\ SpawnSent(e)' => SpawnSent(e)
  BY <1>1, SentFrame
<1>4. \A e \in Dispatches : forward[e] = "idle" => receiver'[e] = {}
  BY <1>2 DEF AdmitOnce
<1> QED
  BY <1>0, <1>1, <1>2, <1>3, <1>4, AdmitFrame

(* A new lease: its prepare call is gone, unless that was the repeated     *)
(* one, and then no spawn call can be left.                                *)
LEMMA PrepareAdmit ==
    ASSUME TypeOK, AdmitOnce, NEW d \in Dispatches, Prepare(d)
    PROVE  AdmitOnce'
<1>1. PICK answers : /\ answers \in {{}, {Msg("prepared", d, 0)}}
                     /\ Handle(Msg("prepare", d, 0), answers)
  BY DEF Prepare
<1>2. /\ PrepareSent(d)
      /\ \A m \in calls' : m \in calls \/ m.type \notin {"prepare", "spawn"}
      /\ budget.repeat \in Nat /\ budget'.repeat \in Nat
      /\ budget'.repeat <= budget.repeat
      /\ PrepareSent(d)' => budget'.repeat = budget.repeat - 1
  BY <1>1, HandleFacts, MsgFacts DEF PrepareSent
<1>3. \A e : /\ PrepareSent(e)' => PrepareSent(e)
             /\ SpawnSent(e)' => SpawnSent(e)
  BY <1>2, SentFrame
<1>4. UNCHANGED <<forward, claims>>
  BY DEF Prepare, atOrigin
<1>5. \A e \in Dispatches \ {d} : receiver'[e] \in {{}, receiver[e]}
  BY DEF Prepare, TypeOK
<1>6. \A e \in Dispatches \ {d} : Leased(e)' => Leased(e)
  BY <1>5 DEF Leased
<1>7. budget.repeat <= 1
  BY DEF AdmitOnce
<1>8. budget'.repeat > 0 => ~PrepareSent(d)'
  BY <1>2, <1>7
<1>9. claims[d] > 0 => ~SpawnSent(d)'
  BY <1>2, <1>3 DEF AdmitOnce
<1>10. forward[d] # "idle" /\ claims[d] <= 1
  BY <1>2 DEF AdmitOnce
<1>11. ASSUME NEW e \in Dispatches \ {d}
       PROVE  /\ forward[e] = "idle" => ~PrepareSent(e)' /\ receiver'[e] = {}
              /\ forward[e] \in {"idle", "preparing"} =>
                   ~SpawnSent(e)' /\ claims[e] = 0
              /\ budget'.repeat > 0 =>
                   /\ receiver'[e] # {} \/ claims[e] > 0 => ~PrepareSent(e)'
                   /\ claims[e] > 0 => ~SpawnSent(e)'
              /\ claims[e] > 0 =>
                   ~(SpawnSent(e)' /\ (PrepareSent(e)' \/ Leased(e)'))
              /\ claims[e] <= 1
  BY <1>2, <1>3, <1>5, <1>6 DEF AdmitOnce
<1>12. forward[d] = "preparing" => ~SpawnSent(d)' /\ claims[d] = 0
  BY <1>3 DEF AdmitOnce
<1>13. budget'.repeat <= 1
  BY <1>2, <1>7
<1> QED
  BY <1>4, <1>8, <1>9, <1>10, <1>11, <1>12, <1>13 DEF AdmitOnce

(* A claim: no other was made, and no other can follow.                    *)
LEMMA SpawnAdmit ==
    ASSUME TypeOK, AdmitOnce, NEW d \in Dispatches, Spawn(d)
    PROVE  /\ AdmitOnce'
           /\ (\E r \in receiver[d] : Usable(r)) => claims[d] = 0
<1>1. Handle(Msg("spawn", d, 0), {}) /\ UNCHANGED forward
  BY DEF Spawn, atOrigin
<1>2. /\ SpawnSent(d)
      /\ \A m \in calls' : m \in calls
      /\ budget.repeat \in Nat /\ budget'.repeat \in Nat
      /\ budget'.repeat <= budget.repeat
      /\ SpawnSent(d)' => budget.repeat > 0 /\ budget'.repeat = budget.repeat - 1
  BY <1>1, HandleFacts DEF SpawnSent
<1>3. \A e : /\ PrepareSent(e)' => PrepareSent(e)
             /\ SpawnSent(e)' => SpawnSent(e)
  BY <1>2, SentFrame
<1>4. CASE ~ \E r \in receiver[d] : Usable(r)
  <2>1. UNCHANGED <<claims, receiver>>
    BY <1>4 DEF Spawn
  <2>2. \A e : Leased(e)' <=> Leased(e)
    BY <2>1 DEF Leased
  <2>3. \A e \in Dispatches : forward[e] = "idle" => receiver'[e] = {}
    BY <2>1 DEF AdmitOnce
  <2> QED
    BY <1>1, <1>2, <1>3, <1>4, <2>1, <2>2, <2>3, AdmitFrame
<1>5. CASE \E r \in receiver[d] : Usable(r)
  <2>1. /\ claims' = [claims EXCEPT ![d] = @ + 1]
        /\ receiver' = [receiver EXCEPT ![d] =
                          {Claimed(r, claims'[d]) : r \in @}]
    BY <1>5 DEF Spawn
  <2>2. PICK r \in receiver[d] : Usable(r)
    BY <1>5
  <2>3. r \in WorkerRecord /\ receiver[d] = {r} /\ ~r.claimed
    BY <2>2, RowElim DEF Usable
  <2>4. claims[d] = 0
    <3>1. Leased(d)
      BY <2>3 DEF Leased
    <3>2. claims[d] \in Nat
      BY DEF TypeOK
    <3> QED
      BY <1>2, <3>1, <3>2 DEF AdmitOnce
  <2>5. /\ claims'[d] = 1
        /\ \A e \in Dispatches \ {d} : claims'[e] = claims[e]
    BY <2>1, <2>4 DEF TypeOK
  <2>6. /\ receiver'[d] = {Claimed(r, 1)}
        /\ \A e \in Dispatches \ {d} : receiver'[e] = receiver[e]
    BY <2>1, <2>3, <2>5 DEF TypeOK
  <2>7. ~Leased(d)'
    BY <2>3, <2>6 DEF Leased, Claimed, WorkerRecord
  <2>8. \A e \in Dispatches \ {d} : Leased(e)' <=> Leased(e)
    BY <2>6 DEF Leased
  <2>9. budget.repeat <= 1 /\ forward[d] \notin {"idle", "preparing"}
    BY <1>2 DEF AdmitOnce
  <2>10. budget.repeat > 0 => ~PrepareSent(d)
    BY <2>3 DEF AdmitOnce
  <2>11. /\ budget'.repeat > 0 => ~PrepareSent(d)' /\ ~SpawnSent(d)'
         /\ SpawnSent(d)' => ~PrepareSent(d)'
         /\ budget'.repeat <= 1
    BY <1>2, <1>3, <2>9, <2>10
  <2>12. ASSUME NEW e \in Dispatches \ {d}
         PROVE  /\ forward[e] = "idle" => ~PrepareSent(e)' /\ receiver'[e] = {}
                /\ forward[e] \in {"idle", "preparing"} =>
                     ~SpawnSent(e)' /\ claims'[e] = 0
                /\ budget'.repeat > 0 =>
                     /\ receiver'[e] # {} \/ claims'[e] > 0 => ~PrepareSent(e)'
                     /\ claims'[e] > 0 => ~SpawnSent(e)'
                /\ claims'[e] > 0 =>
                     ~(SpawnSent(e)' /\ (PrepareSent(e)' \/ Leased(e)'))
                /\ claims'[e] <= 1
    BY <1>2, <1>3, <2>5, <2>6, <2>8 DEF AdmitOnce
  <2>13. AdmitOnce'
    BY <1>1, <2>5, <2>7, <2>9, <2>11, <2>12 DEF AdmitOnce
  <2> QED
    BY <2>4, <2>13
<1> QED
  BY <1>4, <1>5

(* The other steps leave leases and claims alone.                          *)
LEMMA OtherAdmit ==
    ASSUME TypeOK, AdmitOnce,
           \/ \E d \in Dispatches : Report(d) \/ ReplayAck(d) \/ Replay(d)
           \/ \E d \in Dispatches : Reconcile(d)
           \/ Observe \/ LoseCall \/ LoseUpdate \/ OriginCrash
           \/ ReceiverCrash \/ UNCHANGED vars
    PROVE  AdmitOnce'
<1>0. budget.repeat \in Nat
  BY DEF TypeOK, Budget
<1> DEFINE Quiet ==
      /\ UNCHANGED claims
      /\ \A e \in Dispatches :
           /\ forward'[e] = "idle" => forward[e] = "idle"
           /\ forward'[e] = "preparing" => forward[e] = "preparing"
           /\ Leased(e)' => Leased(e)
           /\ receiver'[e] # {} => receiver[e] # {}
      /\ \A m \in calls' : m \in calls \/ m.type \notin {"prepare", "spawn"}
      /\ budget'.repeat \in Nat /\ budget'.repeat <= budget.repeat
<1>1. ASSUME NEW d \in Dispatches, Report(d)
      PROVE  Quiet
  <2>1. PICK r, q :
          /\ r \in receiver[d]
          /\ receiver' = [receiver EXCEPT ![d] = {q}]
          /\ q.claimed = r.claimed
    <3>1. PICK r \in receiver[d], final \in BOOLEAN :
            receiver' = [receiver EXCEPT ![d] =
               {[r EXCEPT !.seq = @ + 1, !.last = {Numbered(r, final)}]}]
      BY <1>1 DEF Report
    <3>2. r \in WorkerRecord
      BY RowElim
    <3>3. [r EXCEPT !.seq = @ + 1, !.last = {Numbered(r, final)}].claimed
            = r.claimed
      BY <3>2 DEF WorkerRecord
    <3> QED
      BY <3>1, <3>3
  <2>2. /\ receiver'[d] = {q}
        /\ \A e \in Dispatches \ {d} : receiver'[e] = receiver[e]
    BY <2>1 DEF TypeOK
  <2>3. UNCHANGED <<claims, forward, calls, budget>>
    BY <1>1 DEF Report, atOrigin
  <2> QED
    BY <1>0, <2>1, <2>2, <2>3 DEF Leased
<1>2. ASSUME NEW d \in Dispatches, ReplayAck(d)
      PROVE  Quiet
  <2>1. PICK m \in calls :
          /\ Handle(m, {})
          /\ receiver' = [receiver EXCEPT ![d] =
               {[r EXCEPT !.acked = @ \/ Acknowledged(r, m.arg)] : r \in @}]
          /\ UNCHANGED <<claims, forward>>
    BY <1>2 DEF ReplayAck, atOrigin
  <2>2. /\ \A x \in calls' : x \in calls
        /\ budget'.repeat <= budget.repeat /\ budget'.repeat \in Nat
    BY <2>1, HandleFacts
  <2>3. receiver'[d] =
          {[r EXCEPT !.acked = @ \/ Acknowledged(r, m.arg)] : r \in receiver[d]}
    BY <2>1 DEF TypeOK
  <2>4. \A r \in receiver[d] :
          [r EXCEPT !.acked = @ \/ Acknowledged(r, m.arg)].claimed = r.claimed
    BY RowElim DEF WorkerRecord
  <2>5. \A e \in Dispatches \ {d} : receiver'[e] = receiver[e]
    BY <2>1 DEF TypeOK
  <2>6. /\ Leased(d)' => Leased(d)
        /\ receiver'[d] # {} => receiver[d] # {}
    BY <2>3, <2>4 DEF Leased
  <2>7. \A e \in Dispatches \ {d} : Leased(e)' => Leased(e)
    BY <2>5 DEF Leased
  <2> QED
    BY <2>1, <2>2, <2>5, <2>6, <2>7
<1>3. ASSUME NEW d \in Dispatches, Replay(d)
      PROVE  Quiet
  <2>1. Handle(Msg("replay", d, 0), {}) /\ UNCHANGED <<claims, forward, receiver>>
    BY <1>3 DEF Replay, atOrigin, atReceiver
  <2> QED
    BY <2>1, HandleFacts DEF Leased
<1>4. ASSUME NEW d \in Dispatches, Reconcile(d)
      PROVE  Quiet
  <2>1. UNCHANGED <<claims, receiver, forward, budget>>
    BY <1>4 DEF Reconcile, ReconcileDone, ReconcileConfirm, ReconcileDeliver,
                ReconcileReplay, atOrigin, atReceiver
  <2>2. \A m \in calls' : m \in calls \/ m.type = "replay"
    BY <1>4, MsgFacts
    DEF Reconcile, ReconcileDone, ReconcileConfirm, ReconcileDeliver,
        ReconcileReplay, link
  <2> QED
    BY <1>0, <2>1, <2>2 DEF Leased
<1>5. ASSUME Observe
      PROVE  Quiet
  <2>1. UNCHANGED <<claims, receiver, forward>>
    BY <1>5 DEF Observe, ReceiveUpdate, MarkDelivering, Deliver,
                RecordSignature, Acknowledge, DeliveryFails, atReceiver
  <2>2. \A m \in calls' : m \in calls \/ m.type = "replay"
    BY <1>5, MsgFacts
    DEF Observe, ReceiveUpdate, MarkDelivering, Deliver, RecordSignature,
        Acknowledge, DeliveryFails, link
  <2>3. budget'.repeat = budget.repeat
    BY <1>5 DEF Observe, ReceiveUpdate, MarkDelivering, Deliver,
                RecordSignature, Acknowledge, DeliveryFails, TypeOK, Budget
  <2> QED
    BY <1>0, <2>1, <2>2, <2>3 DEF Leased
<1>6. ASSUME LoseCall \/ LoseUpdate \/ OriginCrash \/ ReceiverCrash
      PROVE  Quiet
  <2>1. UNCHANGED <<claims, receiver>> /\ calls' \subseteq calls
    BY <1>6 DEF LoseCall, LoseUpdate, OriginCrash, ReceiverCrash, atReceiver,
                link
  <2>2. \A e \in Dispatches : forward'[e] \in {"over", forward[e]}
    BY <1>6 DEF LoseCall, LoseUpdate, OriginCrash, ReceiverCrash, atOrigin
  <2>3. budget'.repeat = budget.repeat
    BY <1>6 DEF LoseCall, LoseUpdate, OriginCrash, ReceiverCrash, TypeOK, Budget
  <2> QED
    BY <1>0, <2>1, <2>2, <2>3 DEF Leased
<1>7. ASSUME UNCHANGED vars
      PROVE  Quiet
  BY <1>0, <1>7 DEF vars, Leased
<1>8. Quiet
  BY <1>1, <1>2, <1>3, <1>4, <1>5, <1>6, <1>7
<1>9. \A e \in Dispatches : forward[e] = "idle" => receiver'[e] = {}
  BY <1>8 DEF AdmitOnce
<1>10. \A e : /\ PrepareSent(e)' => PrepareSent(e)
              /\ SpawnSent(e)' => SpawnSent(e)
  BY <1>8, SentFrame
<1> QED
  BY <1>0, <1>8, <1>9, <1>10, AdmitFrame

(* Every step keeps a dispatch claimed once.                               *)
LEMMA NextAdmit == TypeOK /\ AdmitOnce /\ [Next]_vars => AdmitOnce'
<1> SUFFICES ASSUME TypeOK, AdmitOnce, [Next]_vars PROVE AdmitOnce'
  OBVIOUS
<1>1. ASSUME NEW d \in Dispatches, Origin(d) PROVE AdmitOnce'
  BY <1>1, OriginAdmit
<1>2. ASSUME NEW d \in Dispatches, Receiver(d) PROVE AdmitOnce'
  <2>1. CASE PrepareAgain(d) \/ Allocate(d) \/ Launch(d) \/ LeaseExpires(d)
               \/ Sweep(d)
    BY <2>1, LeaseAdmit
  <2>2. CASE Prepare(d)
    BY <2>2, PrepareAdmit
  <2>3. CASE Spawn(d)
    BY <2>3, SpawnAdmit
  <2>4. CASE Report(d) \/ ReplayAck(d) \/ Replay(d)
    BY <2>4, OtherAdmit
  <2> QED
    BY <1>2, <2>1, <2>2, <2>3, <2>4 DEF Receiver
<1>3. CASE \/ \E d \in Dispatches : Reconcile(d)
           \/ Observe \/ LoseCall \/ LoseUpdate \/ OriginCrash
           \/ ReceiverCrash \/ UNCHANGED vars
  BY <1>3, OtherAdmit
<1> QED
  BY <1>1, <1>2, <1>3 DEF Next

-----------------------------------------------------------------------------
(* The worker's updates on their way to the owner.                         *)

(* A step that leaves the worker, the owner and the rows of both journals  *)
(* alone, and whose new messages are sound, keeps the invariant.           *)
LEMMA LinkFrame ==
    ASSUME WorkerInv,
           UNCHANGED <<origin, signature, receiver, launches, finals, claims,
                       wakes>>,
           observer' \subseteq observer, launching' \subseteq launching,
           \A d \in Dispatches : forward'[d] = "idle" <=> forward[d] = "idle",
           \A e \in updates' : Genuine(e.dispatch, e.update),
           \A m \in calls' : m \in calls \/ MsgSound(m),
           \A m \in calls' : m.dispatch \in Dispatches
    PROVE  WorkerInv'
<1>1. \A d, u : Genuine(d, u)' <=> Genuine(d, u)
  BY DEF Genuine
<1>2. \A d \in Dispatches : Settled(d)' <=> Settled(d)
  BY DEF Settled
<1>3. \A d : Woken(d)' <=> Woken(d)
  BY DEF Woken, WokenFor
<1>4. \A d, n : WakesUpTo(d, n)' <=> WakesUpTo(d, n)
  BY DEF WakesUpTo
<1>5. LaunchSound'
  BY DEF WorkerInv, LaunchSound
<1>6. \A d \in Dispatches : \A r : Working(d, r)' <=> Working(d, r)
  BY <1>1, <1>2, <1>4 DEF Working
<1>7. RowsSound'
  BY <1>2, <1>3, <1>6 DEF WorkerInv, RowsSound
<1>8. UpdatesSound'
  BY <1>1 DEF WorkerInv, UpdatesSound
<1>9. \A m \in calls' : MsgSound(m)'
  <2>1. \A m \in calls' : MsgSound(m)
    BY DEF WorkerInv, ToldSound
  <2> QED
    BY <1>2, <2>1 DEF MsgSound
<1>10. \A w : WorkSound(w)' <=> WorkSound(w)
  BY DEF WorkSound, WokenFor
<1>11. \A d, o : RowSound(d, o)' <=> RowSound(d, o)
  BY DEF RowSound
<1>12. ToldSound'
  BY <1>9, <1>10, <1>11 DEF WorkerInv, ToldSound, WokenFor
<1> QED
  BY <1>5, <1>7, <1>8, <1>12 DEF WorkerInv

(* The lease and its acknowledgement may change, the work may not.         *)
SameWork(q, r) == /\ q.session = r.session /\ q.seq = r.seq
                  /\ q.last = r.last /\ q.claimed = r.claimed

(* A step of the receiver that leaves claimed work alone, unless the       *)
(* dispatch is settled, and acknowledges settled work only.                *)
LEMMA LeaseFrame ==
    ASSUME TypeOK, WorkerInv,
           UNCHANGED <<atOrigin, launching, launches, finals, claims, updates>>,
           \A d \in Dispatches : \A q \in receiver'[d] :
               \/ Blank(q)
               \/ \E r \in receiver[d] :
                     /\ SameWork(q, r)
                     /\ q.acked => r.acked \/ (r.claimed /\ Settled(d)),
           \A d \in Dispatches : \A r \in receiver[d] :
               r.claimed => \/ Settled(d)
                            \/ \E q \in receiver'[d] : q.claimed,
           \A m \in calls' : m \in calls \/ m.type = "prepared"
    PROVE  WorkerInv'
<1>0. UNCHANGED <<origin, forward, observer, signature, wakes>>
  BY DEF atOrigin
<1>1. \A d \in Dispatches : \A u : Genuine(d, u) => Genuine(d, u)'
  BY DEF Genuine, Blank, SameWork
<1>2. \A d \in Dispatches : Settled(d)' <=> Settled(d)
  BY <1>0 DEF Settled
<1>3. \A d : Woken(d)' <=> Woken(d)
  BY <1>0 DEF Woken, WokenFor
<1>4. \A d, n : WakesUpTo(d, n)' <=> WakesUpTo(d, n)
  BY <1>0 DEF WakesUpTo
<1>5. LaunchSound'
  BY <1>0 DEF WorkerInv, LaunchSound
<1>6. RowsSound'
  <2>1. ASSUME NEW d \in Dispatches, NEW q \in receiver'[d]
        PROVE  IF q.claimed THEN Working(d, q)' ELSE Blank(q)
    <3>1. CASE Blank(q)
      BY <3>1 DEF Blank
    <3>2. CASE \E r \in receiver[d] :
                  /\ SameWork(q, r)
                  /\ q.acked => r.acked \/ (r.claimed /\ Settled(d))
      <4>1. PICK r \in receiver[d] :
                  /\ SameWork(q, r)
                  /\ q.acked => r.acked \/ (r.claimed /\ Settled(d))
        BY <3>2
      <4>2. IF r.claimed THEN Working(d, r) ELSE Blank(r)
        BY DEF WorkerInv, RowsSound
      <4>3. CASE r.claimed
        <5>1. Working(d, r)
          BY <4>2, <4>3
        <5>2. /\ q.claimed /\ q.last = r.last /\ q.seq = r.seq
              /\ q.session = r.session
          BY <4>1, <4>3 DEF SameWork
        <5>3. q.acked => Settled(d)
          BY <4>1, <5>1 DEF Working
        <5> QED
          BY <1>1, <1>2, <1>4, <5>1, <5>2, <5>3 DEF Working
      <4>4. CASE ~r.claimed
        BY <4>1, <4>2, <4>4 DEF Blank, SameWork
      <4> QED
        BY <4>3, <4>4
    <3> QED
      BY <3>1, <3>2
  <2>2. ASSUME NEW d \in Dispatches
        PROVE  claims[d] = 0 \/ Settled(d) \/ \E q \in receiver'[d] : q.claimed
    BY DEF WorkerInv, RowsSound
  <2> QED
    BY <1>2, <1>3, <2>1, <2>2 DEF WorkerInv, RowsSound, Blank
<1>7. UpdatesSound'
  <2>1. /\ \A e \in updates : e.dispatch \in Dispatches
        /\ \A w \in observer : w.dispatch \in Dispatches
    BY WorkElim DEF TypeOK, Event, Work
  <2> QED
    BY <1>0, <1>1, <2>1 DEF WorkerInv, UpdatesSound
<1>8. ToldSound'
  <2>1. \A m \in calls' : MsgSound(m)'
    <3>1. \A m \in calls : m.dispatch \in Dispatches
      BY DEF TypeOK, Call
    <3> QED
      BY <1>2, <3>1 DEF WorkerInv, ToldSound, MsgSound
  <2>2. \A w : WorkSound(w)' <=> WorkSound(w)
    BY <1>0 DEF WorkSound, WokenFor
  <2>3. \A d, o : RowSound(d, o)' <=> RowSound(d, o)
    BY DEF RowSound
  <2> QED
    BY <1>0, <2>1, <2>2, <2>3 DEF WorkerInv, ToldSound, WokenFor
<1> QED
  BY <1>5, <1>6, <1>7, <1>8 DEF WorkerInv

(* A step of the origin that changes one row, tells nobody and works on    *)
(* genuine updates.                                                        *)
LEMMA RowFrame ==
    ASSUME TypeOK, WorkerInv, NEW d \in Dispatches, NEW o \in origin[d],
           NEW x, origin' = [origin EXCEPT ![d] = {x}],
           o.state = "done" => x.state = "done",
           x.state = "done" => Woken(d),
           RowSound(d, x),
           \A u \in x.lastUpdate : Genuine(d, u),
           \A w \in observer' : /\ Genuine(w.dispatch, w.update)
                                /\ WorkSound(w),
           \A e \in Dispatches : forward'[e] = "idle" <=> forward[e] = "idle",
           \A m \in calls' : m \in calls \/ MsgSound(m)',
           updates' \subseteq updates,
           UNCHANGED <<atReceiver, signature, wakes>>
    PROVE  /\ WorkerInv'
           /\ \A e \in Dispatches : Settled(e) => Settled(e)'
<1>0. /\ UNCHANGED <<receiver, launching, launches, finals, claims>>
      /\ origin'[d] = {x} /\ origin[d] = {o}
      /\ \A e \in Dispatches \ {d} : origin'[e] = origin[e]
  BY RowElim DEF TypeOK, atReceiver
<1>1. \A e, u : Genuine(e, u)' <=> Genuine(e, u)
  BY <1>0 DEF Genuine
<1>2. \A e \in Dispatches : Settled(e) => Settled(e)'
  BY <1>0 DEF Settled
<1>3. \A e : Woken(e)' <=> Woken(e)
  BY <1>0 DEF Woken, WokenFor
<1>4. \A e, n : WakesUpTo(e, n)' <=> WakesUpTo(e, n)
  BY DEF WakesUpTo
<1>5. LaunchSound'
  BY <1>0 DEF WorkerInv, LaunchSound
<1>6. \A e \in Dispatches : \A r : Working(e, r) => Working(e, r)'
  BY <1>0, <1>1, <1>2, <1>4 DEF Working
<1>7. \A e \in Dispatches : Settled(e)' => Woken(e)
  <2> TAKE e \in Dispatches
  <2>1. CASE e = d
    BY <1>0, <2>1 DEF Settled
  <2>2. CASE e # d
    BY <1>0, <2>2 DEF Settled, WorkerInv, RowsSound
  <2> QED
    BY <2>1, <2>2
<1>8. RowsSound'
  BY <1>0, <1>2, <1>3, <1>6, <1>7 DEF WorkerInv, RowsSound
<1>9. UpdatesSound'
  <2>1. ASSUME NEW e \in Dispatches, NEW q \in origin'[e], NEW u \in q.lastUpdate
        PROVE  Genuine(e, u)
    BY <1>0 DEF WorkerInv, UpdatesSound
  <2> QED
    BY <1>1, <2>1 DEF WorkerInv, UpdatesSound
<1>10. ToldSound'
  <2>1. \A m \in calls' : MsgSound(m)'
    <3>1. \A m \in calls : m.dispatch \in Dispatches
      BY DEF TypeOK, Call
    <3> QED
      BY <1>0, <1>2, <3>1 DEF WorkerInv, ToldSound, MsgSound
  <2>2. \A w : WorkSound(w)' <=> WorkSound(w)
    BY DEF WorkSound, WokenFor
  <2>3. \A e, q : RowSound(e, q)' <=> RowSound(e, q)
    BY <1>0 DEF RowSound
  <2>4. \A e \in Dispatches : \A q \in origin'[e] : RowSound(e, q)
    BY <1>0 DEF WorkerInv, ToldSound
  <2> QED
    BY <2>1, <2>2, <2>3, <2>4 DEF WorkerInv, ToldSound, WokenFor
<1> QED
  BY <1>2, <1>5, <1>8, <1>9, <1>10 DEF WorkerInv

(* Messages and rows of an invariant state.                                *)
LEMMA PairFacts ==
    ASSUME PairInv, NEW d \in Dispatches
    PROVE  /\ \A m \in calls : MsgSound(m) /\ m.dispatch \in Dispatches
           /\ \A e \in updates : Genuine(e.dispatch, e.update)
           /\ claims[d] \in {0, 1} /\ launches[d] \in {0, 1}
           /\ \A u : Genuine(d, u) => claims[d] = 1 /\ u.seq # 0
           /\ Settled(d) => finals[d] # 0 /\ launches[d] = 1
           /\ \A r \in receiver[d] : r.acked => r.claimed /\ Settled(d)
<1>1. TypeOK /\ WorkerInv /\ claims[d] <= 1
  BY DEF PairInv, AdmitOnce
<1>2. claims[d] \in Nat /\ launches[d] \in Nat /\ calls \subseteq Call
  BY <1>1 DEF TypeOK
<1>3. launches[d] <= claims[d] /\ (launches[d] = 0 => finals[d] = 0)
  BY <1>1 DEF WorkerInv, LaunchSound
<1>4. claims[d] \in {0, 1} /\ launches[d] \in {0, 1}
  BY <1>1, <1>2, <1>3
<1>5. Settled(d) => finals[d] # 0
  BY <1>1 DEF WorkerInv, RowsSound, Woken
<1>6. \A r \in receiver[d] : r.acked => r.claimed /\ Settled(d)
  BY <1>1 DEF WorkerInv, RowsSound, Working, Blank
<1>7. \A m \in calls : MsgSound(m) /\ m.dispatch \in Dispatches
  BY <1>1, <1>2 DEF WorkerInv, ToldSound, Call
<1>8. \A e \in updates : Genuine(e.dispatch, e.update)
  BY <1>1 DEF WorkerInv, UpdatesSound
<1>9. \A u : Genuine(d, u) => claims[d] = 1 /\ u.seq # 0
  BY <1>3, <1>4 DEF Genuine
<1> QED
  BY <1>3, <1>4, <1>5, <1>6, <1>7, <1>8, <1>9

(* Dispatching and the calls of the origin.                                *)
LEMMA OriginWorker ==
    ASSUME PairInv, NEW d \in Dispatches, Origin(d)
    PROVE  WorkerInv'
<1>0. TypeOK /\ WorkerInv /\ AdmitOnce /\ DeliveryInv
  BY DEF PairInv
<1>1. CASE Dispatch(d)
  <2>1. PICK x : /\ x.session = 0 /\ x.state = "open" /\ x.lastUpdate = {}
                 /\ origin' = [e \in Dispatches |->
                      IF e = d THEN {x}
                      ELSE IF e \in OriginEvicted THEN {} ELSE origin[e]]
    BY <1>1 DEF Dispatch
  <2>2. /\ forward[d] = "idle"
        /\ forward' = [forward EXCEPT ![d] = "preparing"]
        /\ calls' = calls \cup {Msg("prepare", d, 0)}
        /\ UNCHANGED <<observer, signature, wakes, receiver, launching, launches,
                       finals, claims, updates>>
    BY <1>1 DEF Dispatch, atReceiver
  <2>3. /\ forward'[d] = "preparing"
        /\ \A e \in Dispatches \ {d} : forward'[e] = forward[e]
    BY <1>0, <2>2 DEF TypeOK
  <2>4. \A e \in OriginEvicted : e \in Dispatches /\ forward[e] # "idle"
    BY <1>0 DEF OriginEvicted, OriginRows, DeliveryInv, IdleUntold
  <2>5. \A e \in OriginEvicted : \A o \in origin[e] : o.state = "done"
    <3>1. \A e \in OriginEvicted : e \in OriginRows /\ e \notin OpenRows
      BY DEF OriginEvicted
    <3>2. \A e \in OriginRows \ OpenRows : \A o \in origin[e] :
             o \in OriginRecord /\ o.state # "open"
      BY <1>0, RowElim DEF OriginRows, OpenRows
    <3> QED
      BY <3>1, <3>2 DEF OriginRecord
  <2>6. \A e \in Dispatches : Settled(e)' <=> Settled(e)
    <3> TAKE e \in Dispatches
    <3>1. CASE e = d
      BY <2>1, <2>2, <2>3, <3>1 DEF Settled
    <3>2. CASE e # d
      BY <2>1, <2>3, <2>4, <2>5, <3>2 DEF Settled
    <3> QED
      BY <3>1, <3>2
  <2>7. \A e, u : Genuine(e, u)' <=> Genuine(e, u)
    BY <2>2 DEF Genuine
  <2>8. \A e : Woken(e)' <=> Woken(e)
    BY <2>2 DEF Woken, WokenFor
  <2>9. \A e, n : WakesUpTo(e, n)' <=> WakesUpTo(e, n)
    BY <2>2 DEF WakesUpTo
  <2>10. LaunchSound'
    BY <1>0, <2>2 DEF WorkerInv, LaunchSound
  <2>11. \A e \in Dispatches : \A r : Working(e, r)' <=> Working(e, r)
    BY <2>2, <2>6, <2>7, <2>9 DEF Working
  <2>12. RowsSound'
    BY <1>0, <2>2, <2>6, <2>8, <2>11 DEF WorkerInv, RowsSound
  <2>13. \A e \in Dispatches : \A o \in origin'[e] : o = x \/ o \in origin[e]
    BY <2>1
  <2>14. UpdatesSound'
    BY <1>0, <2>1, <2>2, <2>7, <2>13 DEF WorkerInv, UpdatesSound
  <2>15. \A m \in calls' : MsgSound(m)'
    BY <2>2, <2>6, PairFacts, MsgFacts DEF MsgSound
  <2>16. \A w : WorkSound(w)' <=> WorkSound(w)
    BY <2>2 DEF WorkSound, WokenFor
  <2>17. \A e \in Dispatches : \A o \in origin'[e] : RowSound(e, o)'
    <3>1. \A e \in Dispatches : RowSound(e, x)'
      BY <2>1 DEF RowSound
    <3>2. \A e, o : RowSound(e, o) => RowSound(e, o)'
      BY <2>2 DEF RowSound
    <3> QED
      BY <1>0, <2>13, <3>1, <3>2 DEF WorkerInv, ToldSound
  <2>18. ToldSound'
    BY <1>0, <2>2, <2>15, <2>16, <2>17 DEF WorkerInv, ToldSound, WokenFor
  <2> QED
    BY <2>10, <2>12, <2>14, <2>18 DEF WorkerInv
<1>2. CASE CallSpawn(d) \/ ForwardFails(d)
  <2>1. /\ UNCHANGED <<origin, observer, signature, wakes, receiver, launching,
                       launches, finals, claims, updates>>
        /\ forward[d] # "idle"
        /\ \/ forward' = [forward EXCEPT ![d] = "spawning"]
           \/ forward' = [forward EXCEPT ![d] = "over"]
        /\ \A m \in calls' : m \in calls \/ m = Msg("spawn", d, 0)
    BY <1>2 DEF CallSpawn, ForwardFails, atReceiver, link
  <2>2. \A e \in Dispatches : forward'[e] = "idle" <=> forward[e] = "idle"
    BY <1>0, <2>1 DEF TypeOK
  <2>3. \A m \in calls' : /\ m \in calls \/ MsgSound(m)
                          /\ m.dispatch \in Dispatches
    BY <2>1, PairFacts, MsgFacts DEF MsgSound
  <2> QED
    BY <1>0, <2>1, <2>2, <2>3, PairFacts, LinkFrame
<1>3. CASE Attach(d)
  <2>1. PICK m \in calls, o \in origin[d] :
          /\ m.type = "spawned" /\ m.dispatch = d
          /\ forward[d] = "spawning"
          /\ \/ origin' = origin
             \/ origin' = [origin EXCEPT ![d] = {[o EXCEPT !.session = m.arg]}]
          /\ forward' = [forward EXCEPT ![d] = "over"]
          /\ calls' = calls \ {m}
          /\ UNCHANGED <<observer, signature, wakes, atReceiver, updates>>
    BY <1>3 DEF Attach
  <2>2. \A e \in Dispatches : forward'[e] = "idle" <=> forward[e] = "idle"
    BY <1>0, <2>1 DEF TypeOK
  <2>3. \A x \in calls' : x \in calls /\ x.dispatch \in Dispatches
    BY <2>1, PairFacts
  <2>4. CASE origin' = origin
    BY <1>0, <2>1, <2>2, <2>3, <2>4, PairFacts, LinkFrame DEF atReceiver
  <2>5. CASE origin' = [origin EXCEPT ![d] = {[o EXCEPT !.session = m.arg]}]
    <3> DEFINE x == [o EXCEPT !.session = m.arg]
    <3>1. o \in OriginRecord /\ m.arg = 1 /\ claims[d] = 1
      BY <1>0, <2>1, RowElim, PairFacts DEF MsgSound
    <3>2. /\ x.session = 1 /\ x.state = o.state /\ x.ackedSeq = o.ackedSeq
          /\ x.lastUpdate = o.lastUpdate
      BY <3>1 DEF OriginRecord
    <3> HIDE DEF x
    <3>3. RowSound(d, o) /\ \A u \in o.lastUpdate : Genuine(d, u)
      BY <1>0 DEF WorkerInv, ToldSound, UpdatesSound
    <3>4. RowSound(d, x) /\ \A u \in x.lastUpdate : Genuine(d, u)
      BY <3>1, <3>2, <3>3 DEF RowSound
    <3>5. x.state = "done" => Woken(d)
      <4>1. origin[d] = {o}
        BY <1>0, RowElim
      <4>2. o.state = "done" => Settled(d)
        BY <2>1, <4>1 DEF Settled
      <4> QED
        BY <1>0, <3>2, <4>2 DEF WorkerInv, RowsSound
    <3>6. origin' = [origin EXCEPT ![d] = {x}]
      BY <2>5 DEF x
    <3>7. \A w \in observer' : Genuine(w.dispatch, w.update) /\ WorkSound(w)
      BY <1>0, <2>1 DEF WorkerInv, UpdatesSound, ToldSound
    <3>8. /\ UNCHANGED <<atReceiver, signature, wakes>>
          /\ updates' \subseteq updates
          /\ o.state = "done" => x.state = "done"
          /\ \A n \in calls' : n \in calls
      BY <2>1, <2>3, <3>2
    <3> QED
      BY <1>0, <2>2, <3>4, <3>5, <3>6, <3>7, <3>8, RowFrame
  <2> QED
    BY <2>1, <2>4, <2>5
<1> QED
  BY <1>1, <1>2, <1>3 DEF Origin

(* Leases: prepared, allocated, expired, swept, evicted.                   *)
LEMMA LeaseWorker ==
    ASSUME PairInv, NEW d \in Dispatches,
           \/ PrepareAgain(d) \/ Prepare(d) \/ Allocate(d)
           \/ LeaseExpires(d) \/ Sweep(d)
    PROVE  WorkerInv'
<1>0. TypeOK /\ WorkerInv
  BY DEF PairInv
<1>1. CASE PrepareAgain(d)
  <2>1. PICK answers : /\ answers \in {{}, {Msg("prepared", d, 0)}}
                       /\ Handle(Msg("prepare", d, 0), answers)
                       /\ UNCHANGED <<atOrigin, atReceiver, updates>>
    BY <1>1 DEF PrepareAgain
  <2>2. \A m \in calls' : m \in calls \/ m = Msg("prepared", d, 0)
    BY <1>0, <2>1, HandleFacts
  <2>3. \A m \in calls' : /\ m \in calls \/ MsgSound(m)
                          /\ m.dispatch \in Dispatches
    BY <2>2, PairFacts, MsgFacts DEF MsgSound
  <2> QED
    BY <1>0, <2>1, <2>3, PairFacts, LinkFrame DEF atOrigin, atReceiver
<1>2. CASE Prepare(d)
  <2>1. PICK worktree, evicted, answers :
          /\ worktree \in BOOLEAN /\ evicted \in ReceiverEvictions
          /\ answers \in {{}, {Msg("prepared", d, 0)}}
          /\ receiver[d] = {}
          /\ Handle(Msg("prepare", d, 0), answers)
          /\ \/ receiver' = receiver
             \/ receiver' =
                  [e \in Dispatches |->
                     IF e = d
                     THEN {[session |-> 0, seq |-> 0, last |-> {},
                            acked |-> FALSE, claimed |-> FALSE,
                            prepared |-> ~worktree, expired |-> FALSE]}
                     ELSE IF e \in evicted THEN {} ELSE receiver[e]]
          /\ UNCHANGED <<atOrigin, launching, launches, finals, claims, updates>>
    BY <1>2 DEF Prepare
  <2>2. \A m \in calls' : m \in calls \/ m.type = "prepared"
    BY <1>0, <2>1, HandleFacts, MsgFacts
  <2>3. \A e \in evicted : e \in Dispatches => \A r \in receiver[e] : r.acked
    BY <2>1 DEF ReceiverEvictions, Reclaimable
  <2>4. \A e \in evicted : e \in Dispatches => \A r \in receiver[e] : Settled(e)
    BY <2>3, PairFacts
  <2>5. \A e \in Dispatches : \A q \in receiver'[e] :
          \/ Blank(q)
          \/ q \in receiver[e]
    BY <2>1 DEF Blank
  <2>6. \A e \in Dispatches : \A r \in receiver[e] :
          r.claimed => Settled(e) \/ r \in receiver'[e]
    BY <2>1, <2>4
  <2>7. \A e \in Dispatches : \A r \in receiver[e] : SameWork(r, r)
    BY DEF SameWork
  <2> QED
    BY <1>0, <2>1, <2>2, <2>5, <2>6, <2>7, LeaseFrame
<1>3. CASE Allocate(d) \/ LeaseExpires(d) \/ Sweep(d)
  <2>1. PICK r \in receiver[d] :
          \/ receiver' = [receiver EXCEPT ![d] = {}] /\ ~r.claimed
          \/ receiver' = [receiver EXCEPT ![d] = {[r EXCEPT !.expired = TRUE]}]
          \/ \E ok \in BOOLEAN :
               receiver' = [receiver EXCEPT ![d] = {[r EXCEPT !.prepared = ok]}]
    BY <1>3 DEF Allocate, LeaseExpires, Sweep
  <2>2. r \in WorkerRecord /\ receiver[d] = {r}
    BY <1>0, RowElim
  <2>3. /\ \A e \in Dispatches \ {d} : receiver'[e] = receiver[e]
        /\ \/ receiver'[d] = {} /\ ~r.claimed
           \/ \E q : /\ receiver'[d] = {q} /\ SameWork(q, r)
                     /\ q.acked => r.acked
    <3>1. /\ SameWork([r EXCEPT !.expired = TRUE], r)
          /\ [r EXCEPT !.expired = TRUE].acked = r.acked
      BY <2>2 DEF SameWork, WorkerRecord
    <3>2. \A ok \in BOOLEAN : /\ SameWork([r EXCEPT !.prepared = ok], r)
                              /\ [r EXCEPT !.prepared = ok].acked = r.acked
      BY <2>2 DEF SameWork, WorkerRecord
    <3> QED
      BY <1>0, <2>1, <3>1, <3>2 DEF TypeOK
  <2>4. /\ UNCHANGED <<atOrigin, launching, launches, finals, claims, updates>>
        /\ \A m \in calls' : m \in calls \/ m.type = "prepared"
    BY <1>3, MsgFacts DEF Allocate, LeaseExpires, Sweep, link
  <2>5. \A e \in Dispatches : \A q \in receiver'[e] :
          \E p \in receiver[e] : SameWork(q, p) /\ (q.acked => p.acked)
    BY <2>2, <2>3 DEF SameWork
  <2>6. \A e \in Dispatches : \A p \in receiver[e] :
          p.claimed => \E q \in receiver'[e] : q.claimed
    BY <2>2, <2>3 DEF SameWork
  <2> QED
    BY <1>0, <2>4, <2>5, <2>6, LeaseFrame
<1> QED
  BY <1>1, <1>2, <1>3

(* A claim: the worker is new, so nothing was heard of it.                 *)
LEMMA SpawnWorker ==
    ASSUME PairInv, NEW d \in Dispatches, Spawn(d)
    PROVE  WorkerInv'
<1>0. TypeOK /\ WorkerInv /\ AdmitOnce
  BY DEF PairInv
<1>1. /\ Handle(Msg("spawn", d, 0), {})
      /\ UNCHANGED <<atOrigin, launches, finals, updates>>
  BY DEF Spawn
<1>2. \A m \in calls' : m \in calls /\ m.dispatch \in Dispatches
  BY <1>0, <1>1, HandleFacts, PairFacts
<1>3. CASE ~ \E r \in receiver[d] : Usable(r)
  <2>1. UNCHANGED <<claims, receiver, launching>>
    BY <1>3 DEF Spawn
  <2> QED
    BY <1>0, <1>1, <1>2, <2>1, PairFacts, LinkFrame DEF atOrigin
<1>4. CASE \E r \in receiver[d] : Usable(r)
  <2>1. PICK r \in receiver[d] : Usable(r)
    BY <1>4
  <2>2. r \in WorkerRecord /\ receiver[d] = {r} /\ ~r.claimed
    BY <1>0, <2>1, RowElim DEF Usable
  <2>3. Blank(r)
    BY <1>0, <2>1, <2>2 DEF WorkerInv, RowsSound
  <2>4. claims[d] = 0
    BY <1>0, <1>4, SpawnAdmit
  <2>5. launches[d] = 0 /\ finals[d] = 0 /\ wakes[d] = <<>>
    BY <1>0, <2>4, PairFacts DEF WorkerInv, LaunchSound
  <2>6. /\ claims' = [claims EXCEPT ![d] = @ + 1]
        /\ receiver' = [receiver EXCEPT ![d] =
                          {Claimed(q, claims'[d]) : q \in @}]
        /\ launching' = launching \cup {d}
    BY <1>4 DEF Spawn
  <2>7. claims'[d] = 1 /\ \A e \in Dispatches \ {d} : claims'[e] = claims[e]
    BY <1>0, <2>4, <2>6 DEF TypeOK
  <2> DEFINE q == Claimed(r, 1)
  <2>8. /\ receiver'[d] = {q}
        /\ \A e \in Dispatches \ {d} : receiver'[e] = receiver[e]
    BY <1>0, <2>2, <2>6, <2>7 DEF TypeOK
  <2>9. /\ q.claimed /\ q.session = 1 /\ q.seq = 0 /\ q.last = {} /\ ~q.acked
    BY <2>2, <2>3 DEF Claimed, WorkerRecord, Blank
  <2> HIDE DEF q
  <2>10. UNCHANGED <<origin, forward, observer, signature, wakes, launches,
                     finals, updates>>
    BY <1>1 DEF atOrigin
  <2>11. \A u : ~Genuine(d, u)
    BY <2>5 DEF Genuine
  <2>12. \A e \in Dispatches \ {d} : \A u : Genuine(e, u)' <=> Genuine(e, u)
    BY <2>8, <2>10 DEF Genuine
  <2>13. \A e : Settled(e)' <=> Settled(e)
    BY <2>10 DEF Settled
  <2>14. \A e : Woken(e)' <=> Woken(e)
    BY <2>10 DEF Woken, WokenFor
  <2>15. \A e, n : WakesUpTo(e, n)' <=> WakesUpTo(e, n)
    BY <2>10 DEF WakesUpTo
  <2>16. LaunchSound'
    BY <1>0, <2>5, <2>6, <2>7, <2>10 DEF WorkerInv, LaunchSound, TypeOK
  <2>17. RowsSound'
    <3>1. Working(d, q)'
      <4>1. 0 <= MaxSeq
        BY DispatchBoundsAssumption
      <4>2. WakesUpTo(d, 0)'
        BY <2>5, <2>15 DEF WakesUpTo
      <4> QED
        BY <2>5, <2>7, <2>9, <2>10, <4>1, <4>2 DEF Working
    <3>2. \A e \in Dispatches \ {d} : \A x : Working(e, x)' <=> Working(e, x)
      BY <2>7, <2>10, <2>12, <2>13, <2>15 DEF Working
    <3> QED
      BY <1>0, <2>7, <2>8, <2>9, <2>13, <2>14, <3>1, <3>2
      DEF WorkerInv, RowsSound
  <2>18. UpdatesSound'
    <3>1. /\ \A e \in updates : e.dispatch \in Dispatches
          /\ \A w \in observer : w.dispatch \in Dispatches
      BY <1>0, WorkElim DEF TypeOK, Event, Work
    <3> QED
      BY <1>0, <2>10, <2>11, <2>12, <3>1 DEF WorkerInv, UpdatesSound
  <2>19. ToldSound'
    <3>1. \A m \in calls' : MsgSound(m)'
      BY <1>2, <2>4, <2>7, <2>10, <2>13, PairFacts DEF MsgSound
    <3>2. \A w : WorkSound(w)' <=> WorkSound(w)
      BY <2>10 DEF WorkSound, WokenFor
    <3>3. \A e \in Dispatches : \A o \in origin[e] : RowSound(e, o)'
      <4>1. \A e \in Dispatches : \A o \in origin[e] : RowSound(e, o)
        BY <1>0 DEF WorkerInv, ToldSound
      <4> QED
        BY <2>4, <2>7, <2>10, <4>1 DEF RowSound
    <3> QED
      BY <1>0, <2>10, <3>1, <3>2, <3>3 DEF WorkerInv, ToldSound, WokenFor
  <2> QED
    BY <2>16, <2>17, <2>18, <2>19 DEF WorkerInv
<1> QED
  BY <1>3, <1>4

(* The engine's answer: the claimed worker starts, or does not.            *)
LEMMA LaunchWorker ==
    ASSUME PairInv, NEW d \in Dispatches, Launch(d)
    PROVE  WorkerInv'
<1>0. TypeOK /\ WorkerInv
  BY DEF PairInv
<1>1. PICK started \in BOOLEAN :
        /\ d \in launching
        /\ launching' = launching \ {d}
        /\ launches' = [launches EXCEPT ![d] = IF started THEN @ + 1 ELSE @]
        /\ \/ calls' = calls
           \/ calls' = calls \cup {Msg("spawned", d, r.session) :
                                     r \in receiver[d]}
        /\ UNCHANGED <<atOrigin, receiver, finals, claims, updates>>
  BY DEF Launch
<1>2. claims[d] = 1 /\ launches[d] = 0
  BY <1>0, <1>1 DEF WorkerInv, LaunchSound
<1>3. finals[d] = 0 /\ wakes[d] = <<>>
  BY <1>0, <1>2 DEF WorkerInv, LaunchSound
<1>4. \A r \in receiver[d] : r.session = 1
  <2>1. \E r \in receiver[d] : r.claimed
    BY <1>0, <1>2, <1>3, PairFacts DEF WorkerInv, RowsSound
  <2> QED
    BY <1>0, <2>1, RowElim DEF WorkerInv, RowsSound, Working
<1>5. UNCHANGED <<origin, forward, observer, signature, wakes>>
  BY <1>1 DEF atOrigin
<1>6. /\ launches'[d] \in {0, 1}
      /\ \A e \in Dispatches \ {d} : launches'[e] = launches[e]
  BY <1>0, <1>1, <1>2 DEF TypeOK
<1>7. \A u : ~Genuine(d, u)
  BY <1>2 DEF Genuine
<1>8. \A e \in Dispatches : \A u : Genuine(e, u) => Genuine(e, u)'
  BY <1>1, <1>6, <1>7 DEF Genuine
<1>9. \A e : Settled(e)' <=> Settled(e)
  BY <1>5 DEF Settled
<1>10. \A e : Woken(e)' <=> Woken(e)
  BY <1>1, <1>5 DEF Woken, WokenFor
<1>11. \A e, n : WakesUpTo(e, n)' <=> WakesUpTo(e, n)
  BY <1>5 DEF WakesUpTo
<1>12. LaunchSound'
  BY <1>0, <1>1, <1>2, <1>3, <1>5, <1>6 DEF WorkerInv, LaunchSound
<1>13. \A e \in Dispatches : \A r : Working(e, r) => Working(e, r)'
  BY <1>1, <1>8, <1>9, <1>11 DEF Working
<1>14. RowsSound'
  BY <1>0, <1>1, <1>9, <1>10, <1>13 DEF WorkerInv, RowsSound
<1>15. UpdatesSound'
  <2>1. /\ \A e \in updates : e.dispatch \in Dispatches
        /\ \A w \in observer : w.dispatch \in Dispatches
    BY <1>0, WorkElim DEF TypeOK, Event, Work
  <2> QED
    BY <1>0, <1>1, <1>5, <1>8, <2>1 DEF WorkerInv, UpdatesSound
<1>16. ToldSound'
  <2>1. \A m \in calls' : m \in calls \/ m = Msg("spawned", d, 1)
    BY <1>1, <1>4
  <2>2. \A m \in calls' : MsgSound(m)'
    BY <1>1, <1>2, <1>9, <2>1, PairFacts, MsgFacts DEF MsgSound
  <2>3. \A w : WorkSound(w)' <=> WorkSound(w)
    BY <1>5 DEF WorkSound, WokenFor
  <2>4. \A e, o : RowSound(e, o)' <=> RowSound(e, o)
    BY <1>1 DEF RowSound
  <2> QED
    BY <1>0, <1>5, <2>2, <2>3, <2>4 DEF WorkerInv, ToldSound, WokenFor
<1> QED
  BY <1>12, <1>14, <1>15, <1>16 DEF WorkerInv

(* A report: the next update, and the last one if it is final.             *)
LEMMA ReportWorker ==
    ASSUME PairInv, NEW d \in Dispatches, Report(d)
    PROVE  WorkerInv'
<1>0. TypeOK /\ WorkerInv /\ DeliveryInv
  BY DEF PairInv
<1>1. PICK r \in receiver[d], final \in BOOLEAN :
        /\ launches[d] > 0 /\ r.claimed /\ MayReport(r) /\ r.seq < MaxSeq
        /\ receiver' = [receiver EXCEPT ![d] =
             {[r EXCEPT !.seq = @ + 1, !.last = {Numbered(r, final)}]}]
        /\ updates' = updates \cup
             {[dispatch |-> d, update |-> Numbered(r, final)]}
        /\ finals' = IF final
                     THEN [finals EXCEPT ![d] = Numbered(r, final).seq]
                     ELSE finals
        /\ UNCHANGED <<atOrigin, launching, launches, claims, calls>>
  BY DEF Report
<1> DEFINE u == Numbered(r, final)
           q == [r EXCEPT !.seq = @ + 1, !.last = {u}]
           n == r.seq + 1
<1>2. r \in WorkerRecord /\ receiver[d] = {r} /\ r.seq \in Nat
  BY <1>0, RowElim DEF WorkerRecord
<1>3. Working(d, r)
  BY <1>0, <1>1 DEF WorkerInv, RowsSound
<1>4. u.seq = n /\ u.session = 1 /\ u.final = final
  BY <1>3 DEF Numbered, Working
<1>5. /\ q.claimed /\ q.session = 1 /\ q.seq = n /\ q.last = {u}
      /\ q.acked = r.acked
  BY <1>1, <1>2, <1>3 DEF WorkerRecord, Working
<1>6. /\ finals' = IF final THEN [finals EXCEPT ![d] = n] ELSE finals
      /\ updates' = updates \cup {[dispatch |-> d, update |-> u]}
      /\ receiver' = [receiver EXCEPT ![d] = {q}]
  BY <1>1, <1>4
<1> HIDE DEF u, q
<1>7. /\ receiver'[d] = {q}
      /\ \A e \in Dispatches \ {d} : receiver'[e] = receiver[e]
  BY <1>0, <1>6 DEF TypeOK
<1>8. finals[d] = 0 /\ launches[d] = 1
  <2>1. finals[d] = 0
    BY <1>1, <1>3 DEF MayReport, Working
  <2> QED
    BY <1>1, <2>1, PairFacts
<1>9. /\ finals'[d] = IF final THEN n ELSE 0
      /\ \A e \in Dispatches \ {d} : finals'[e] = finals[e]
  BY <1>0, <1>6, <1>8 DEF TypeOK
<1>10. n \in 1..MaxSeq /\ n # 0 /\ r.seq < n
  BY <1>1, <1>2, DispatchBoundsAssumption
<1>11. UNCHANGED <<origin, forward, observer, signature, wakes, launching,
                   launches, claims, calls>>
  BY <1>1 DEF atOrigin
<1>12. \A e \in Dispatches \ {d} : \A v : Genuine(e, v)' <=> Genuine(e, v)
  BY <1>7, <1>9, <1>11 DEF Genuine
<1>13. Genuine(d, u)'
  BY <1>4, <1>5, <1>7, <1>8, <1>9, <1>10, <1>11 DEF Genuine
<1>14. \A v : Genuine(d, v) => Genuine(d, v)'
  <2> SUFFICES ASSUME NEW v, Genuine(d, v) PROVE Genuine(d, v)'
    OBVIOUS
  <2>1. /\ v.seq \in 1..MaxSeq /\ v.seq <= r.seq /\ v.session = 1
        /\ v.final <=> v.seq = 0
    BY <1>1, <1>8 DEF Genuine
  <2>2. v.seq # 0 /\ v.seq < n /\ v.seq <= n
    BY <1>10, <2>1, DispatchBoundsAssumption, <1>2
  <2> QED
    BY <1>5, <1>7, <1>8, <1>9, <1>11, <2>1, <2>2 DEF Genuine
<1>15. \A e : Settled(e)' <=> Settled(e)
  BY <1>11 DEF Settled
<1>16. ~Settled(d)
  BY <1>8, PairFacts
<1>17. \A e \in Dispatches \ {d} : Woken(e)' <=> Woken(e)
  BY <1>9, <1>11 DEF Woken, WokenFor
<1>18. LaunchSound'
  BY <1>0, <1>8, <1>9, <1>11 DEF WorkerInv, LaunchSound
<1>19. WakesUpTo(d, n)'
  <2>1. \A i \in DOMAIN wakes[d] : wakes[d][i] \in Nat /\ wakes[d][i] <= r.seq
    BY <1>0, <1>3 DEF TypeOK, Working, WakesUpTo
  <2> QED
    BY <1>2, <1>11, <2>1 DEF WakesUpTo
<1>20. RowsSound'
  <2>1. Working(d, q)'
    <3>1. q.acked => Settled(d)
      BY <1>3, <1>5 DEF Working
    <3>2. finals'[d] # 0 <=> \E v \in q.last : v.final
      BY <1>4, <1>5, <1>9, <1>10
    <3>3. claims'[d] = 1 /\ q.seq <= MaxSeq
      BY <1>3, <1>5, <1>10, <1>11, DispatchBoundsAssumption DEF Working
    <3> QED
      BY <1>4, <1>5, <1>13, <1>15, <1>19, <3>1, <3>2, <3>3 DEF Working
  <2>2. \A e \in Dispatches \ {d} : \A x : Working(e, x)' <=> Working(e, x)
    BY <1>9, <1>11, <1>12, <1>15 DEF Working, WakesUpTo
  <2> QED
    BY <1>0, <1>5, <1>7, <1>11, <1>15, <1>16, <1>17, <2>1, <2>2
    DEF WorkerInv, RowsSound
<1>21. UpdatesSound'
  <2>1. /\ \A e \in updates : e.dispatch \in Dispatches
        /\ \A w \in observer : w.dispatch \in Dispatches
    BY <1>0, WorkElim DEF TypeOK, Event, Work
  <2>2. \A e \in updates' : Genuine(e.dispatch, e.update)'
    BY <1>0, <1>6, <1>12, <1>13, <1>14, <2>1 DEF WorkerInv, UpdatesSound
  <2> QED
    BY <1>0, <1>11, <1>12, <1>14, <2>1, <2>2 DEF WorkerInv, UpdatesSound
<1>22. ToldSound'
  <2>1. \A m \in calls' : MsgSound(m)'
    <3> TAKE m \in calls'
    <3>1. MsgSound(m) /\ m.dispatch \in Dispatches
      BY <1>11, PairFacts
    <3> QED
      BY <1>9, <1>11, <1>15, <1>16, <3>1 DEF MsgSound
  <2>2. \A w : WorkSound(w)' <=> WorkSound(w)
    BY <1>11 DEF WorkSound, WokenFor
  <2>3. \A o \in origin[d] : o.state # "done"
    <3>1. \A o \in origin[d] : forward[d] # "idle" /\ origin[d] = {o}
      BY <1>0, RowElim DEF DeliveryInv, IdleUntold
    <3> QED
      BY <1>16, <3>1 DEF Settled
  <2>4. \A e \in Dispatches : \A o \in origin'[e] : RowSound(e, o)'
    <3>1. \A e \in Dispatches : \A o \in origin[e] : RowSound(e, o)
      BY <1>0 DEF WorkerInv, ToldSound
    <3> QED
      BY <1>9, <1>11, <2>3, <3>1 DEF RowSound
  <2> QED
    BY <1>0, <1>11, <2>1, <2>2, <2>4 DEF WorkerInv, ToldSound, WokenFor
<1> QED
  BY <1>18, <1>20, <1>21, <1>22 DEF WorkerInv

(* Replays publish the last update again; an acknowledgement names the     *)
(* result, which only a settled dispatch has acknowledged.                 *)
LEMMA ReplayWorker ==
    ASSUME PairInv, NEW d \in Dispatches, Replay(d) \/ ReplayAck(d)
    PROVE  WorkerInv'
<1>0. TypeOK /\ WorkerInv
  BY DEF PairInv
<1>1. CASE Replay(d)
  <2>1. /\ Handle(Msg("replay", d, 0), {})
        /\ UNCHANGED <<atOrigin, atReceiver>>
        /\ \A e \in updates' : \/ e \in updates
                               \/ \E r \in receiver[d] : \E u \in r.last :
                                     e = [dispatch |-> d, update |-> u]
    BY <1>1 DEF Replay
  <2>2. \A r \in receiver[d] : \A u \in r.last : Genuine(d, u)
    BY <1>0 DEF WorkerInv, RowsSound, Working, Blank
  <2>3. \A e \in updates' : Genuine(e.dispatch, e.update)
    BY <2>1, <2>2, PairFacts
  <2>4. \A m \in calls' : m \in calls /\ m.dispatch \in Dispatches
    BY <1>0, <2>1, HandleFacts, PairFacts
  <2> QED
    BY <1>0, <2>1, <2>3, <2>4, LinkFrame DEF atOrigin, atReceiver
<1>2. CASE ReplayAck(d)
  <2>1. PICK m \in calls :
          /\ m.type = "replay" /\ m.dispatch = d /\ m.arg > 0
          /\ Handle(m, {})
          /\ receiver' = [receiver EXCEPT ![d] =
               {[r EXCEPT !.acked = @ \/ Acknowledged(r, m.arg)] : r \in @}]
          /\ UNCHANGED <<atOrigin, allocating, launching, launches, finals,
                         claims, updates>>
    BY <1>2 DEF ReplayAck
  <2>2. Settled(d)
    <3>1. m.arg # 0
      BY <1>0, <2>1 DEF TypeOK, Call
    <3> QED
      BY <2>1, <3>1, PairFacts DEF MsgSound
  <2>3. \A x \in calls' : x \in calls
    BY <1>0, <2>1, HandleFacts
  <2> DEFINE A(r) == [r EXCEPT !.acked = @ \/ Acknowledged(r, m.arg)]
  <2>4. \A r \in receiver[d] : /\ SameWork(A(r), r)
                               /\ A(r).acked => r.claimed \/ Blank(A(r))
    <3> TAKE r \in receiver[d]
    <3>1. r \in WorkerRecord
      BY <1>0, RowElim
    <3>2. SameWork(A(r), r)
      BY <3>1 DEF SameWork, WorkerRecord
    <3>3. CASE r.claimed
      BY <3>2, <3>3
    <3>4. CASE ~r.claimed
      <4>1. Blank(r)
        BY <1>0, <3>4 DEF WorkerInv, RowsSound
      <4> DEFINE b == r.acked \/ Acknowledged(r, m.arg)
      <4>2. b = FALSE
        BY <4>1 DEF Blank, Acknowledged
      <4>3. A(r) = [r EXCEPT !.acked = b]
        OBVIOUS
      <4> HIDE DEF b
      <4>4. A(r).acked = FALSE
        BY <3>1, <4>2, <4>3 DEF WorkerRecord
      <4> QED
        BY <3>2, <4>4
    <3> QED
      BY <3>3, <3>4
  <2>5. /\ receiver'[d] = {A(r) : r \in receiver[d]}
        /\ \A e \in Dispatches \ {d} : receiver'[e] = receiver[e]
    BY <1>0, <2>1 DEF TypeOK
  <2> HIDE DEF A
  <2>6. \A e \in Dispatches : \A q \in receiver'[e] :
          \/ Blank(q)
          \/ \E r \in receiver[e] :
                /\ SameWork(q, r)
                /\ q.acked => r.acked \/ (r.claimed /\ Settled(e))
    <3> TAKE e \in Dispatches
    <3>1. CASE e = d
      BY <2>2, <2>4, <2>5, <3>1
    <3>2. CASE e # d
      BY <2>5, <3>2 DEF SameWork
    <3> QED
      BY <3>1, <3>2
  <2>7. \A e \in Dispatches : \A r \in receiver[e] :
          r.claimed => Settled(e) \/ \E q \in receiver'[e] : q.claimed
    BY <2>2, <2>5
  <2> QED
    BY <1>0, <2>1, <2>3, <2>6, <2>7, LeaseFrame
<1> QED
  BY <1>1, <1>2

(* Accepting a genuine update.                                             *)
LEMMA AcceptWorker ==
    ASSUME PairInv, NEW d \in Dispatches, NEW o \in origin[d],
           NEW u, Genuine(d, u), Acceptable(o, u), Accept(d, o, u),
           UNCHANGED <<forward, signature, wakes, atReceiver, calls>>,
           updates' \subseteq updates
    PROVE  WorkerInv'
<1>0. TypeOK /\ WorkerInv
  BY DEF PairInv
<1>1. PICK k \in Known(o, u) :
        /\ origin' = [origin EXCEPT ![d] = {Retained(o, k)}]
        /\ observer' = IF MayDeliver(o)
                       THEN {[dispatch |-> d, update |-> k,
                              phase |-> "accepted"]}
                       ELSE {}
  BY DEF Accept
<1>2. Genuine(d, k)
  BY <1>0 DEF Known, WorkerInv, UpdatesSound
<1> DEFINE x == Retained(o, k)
<1>3. o \in OriginRecord /\ o.state = "open"
  BY <1>0, RowElim DEF Acceptable
<1>4. /\ x.session = 1 /\ x.state = "open" /\ x.lastUpdate = {k}
  BY <1>2, <1>3 DEF Retained, OriginRecord, Genuine
<1>5. origin' = [origin EXCEPT ![d] = {x}]
  BY <1>1
<1> HIDE DEF x
<1>6. RowSound(d, x) /\ \A v \in x.lastUpdate : Genuine(d, v)
  BY <1>2, <1>4, PairFacts DEF RowSound
<1>7. \A w \in observer' : Genuine(w.dispatch, w.update) /\ WorkSound(w)
  BY <1>1, <1>2 DEF WorkSound
<1> QED
  BY <1>0, <1>3, <1>4, <1>5, <1>6, <1>7, RowFrame

(* What is known of the observer's work.                                   *)
LEMMA WorkFacts ==
    ASSUME PairInv, NEW w \in observer, NEW o \in origin[w.dispatch]
    PROVE  /\ w \in Work /\ w.dispatch \in Dispatches
           /\ Genuine(w.dispatch, w.update) /\ WorkSound(w)
           /\ w.update.seq \in Nat /\ w.update.seq # 0
           /\ w.update.final <=> w.update.seq = finals[w.dispatch]
           /\ o \in OriginRecord /\ o.state = "open" /\ o.ackedSeq \in Nat
           /\ o.ackedSeq < w.update.seq
           /\ RowSound(w.dispatch, o)
           /\ \A u \in o.lastUpdate : Genuine(w.dispatch, u)
           /\ w.phase \in {"accepted", "marked"} =>
                WakesUpTo(w.dispatch, o.ackedSeq)
           /\ w.phase # "accepted" => o.deliveringSeq = {w.update.seq}
<1>1. TypeOK /\ WorkerInv /\ DeliveryInv
  BY DEF PairInv
<1>2. w \in Work /\ w.dispatch \in Dispatches /\ w.update \in Update
  BY <1>1, WorkElim DEF Work
<1>3. o \in OriginRecord /\ origin[w.dispatch] = {o} /\ o.ackedSeq \in Nat
  BY <1>1, <1>2, RowElim DEF OriginRecord
<1>4. w.update.seq \in Nat
  BY <1>2 DEF Update
<1>5. Genuine(w.dispatch, w.update) /\ WorkSound(w)
  BY <1>1 DEF WorkerInv, UpdatesSound, ToldSound
<1>6. /\ w.update.seq # 0
      /\ w.update.final <=> w.update.seq = finals[w.dispatch]
  BY <1>2, <1>5, PairFacts DEF Genuine
<1>7. /\ o.state = "open" /\ o.ackedSeq < w.update.seq
      /\ w.phase \in {"accepted", "marked"} => WakesUpTo(w.dispatch, o.ackedSeq)
      /\ w.phase # "accepted" => o.deliveringSeq = {w.update.seq}
  BY <1>1, <1>3 DEF DeliveryInv, WorkCurrent
<1>8. RowSound(w.dispatch, o) /\ \A u \in o.lastUpdate : Genuine(w.dispatch, u)
  BY <1>1, <1>2 DEF WorkerInv, ToldSound, UpdatesSound
<1> QED
  BY <1>2, <1>3, <1>4, <1>5, <1>6, <1>7, <1>8

(* The row after an acknowledged delivery of a genuine update.             *)
LEMMA AcknowledgedFacts ==
    ASSUME PairInv, NEW d \in Dispatches, NEW o \in OriginRecord,
           o.state = "open", NEW u \in Update, Genuine(d, u),
           u.seq \in WokenFor(d), o.ackedSeq < u.seq, RowSound(d, o),
           \A v \in o.lastUpdate : Genuine(d, v)
    PROVE  LET x == AcknowledgedRow(o, u)
           IN /\ RowSound(d, x)
              /\ x.state = "done" => Woken(d)
              /\ \A v \in x.lastUpdate : Genuine(d, v)
              /\ u.final => x.state = "done" /\ u.seq = finals[d]
<1> DEFINE x == AcknowledgedRow(o, u)
<1>1. u.seq \in Nat /\ o.ackedSeq \in Nat
  BY DEF Update, OriginRecord
<1>2. /\ x.session = o.session /\ x.ackedSeq = u.seq
      /\ x.state = (IF u.final THEN "done" ELSE "open")
      /\ x.lastUpdate = o.lastUpdate
  BY <1>1 DEF AcknowledgedRow, OriginRecord
<1>3. u.final <=> u.seq = finals[d]
  BY DEF Genuine
<1>4. u.seq # 0
  BY PairFacts
<1> HIDE DEF x
<1>5. RowSound(d, x)
  BY <1>2, <1>3 DEF RowSound
<1>6. x.state = "done" => Woken(d)
  BY <1>2, <1>3, <1>4 DEF Woken
<1>7. u.final => x.state = "done" /\ u.seq = finals[d]
  BY <1>2, <1>3
<1> QED
  BY <1>2, <1>5, <1>6, <1>7 DEF x

(* The owner's engine takes the wake: nothing else changes.                *)
LEMMA DeliverWorker ==
    ASSUME PairInv, Deliver
    PROVE  WorkerInv'
<1>0. TypeOK /\ WorkerInv
  BY DEF PairInv
<1>1. PICK w, o :
        /\ w \in observer /\ o \in origin[w.dispatch]
        /\ w.phase = "marked"
        /\ IF o.booked /\ signature[w.dispatch] = w.update.seq
           THEN wakes' = wakes /\ observer' = {[w EXCEPT !.phase = "signed"]}
           ELSE /\ wakes' = [wakes EXCEPT ![w.dispatch] =
                               Append(@, w.update.seq)]
                /\ observer' = {[w EXCEPT !.phase = "sent"]}
        /\ UNCHANGED <<origin, forward, signature, atReceiver, link>>
  BY DEF Deliver
<1> DEFINE d == w.dispatch
           n == w.update.seq
<1>2. /\ w \in Work /\ d \in Dispatches /\ n \in Nat /\ n # 0
      /\ Genuine(d, w.update)
  BY <1>1, WorkFacts
<1>3. UNCHANGED <<receiver, launching, launches, finals, claims, calls, updates>>
  BY <1>1 DEF atReceiver, link
<1>4. PICK p \in {"signed", "sent"} : observer' = {[w EXCEPT !.phase = p]}
  BY <1>1
<1> DEFINE v == [w EXCEPT !.phase = p]
<1>5. v.dispatch = d /\ v.update = w.update /\ observer' = {v}
  BY <1>2, <1>4 DEF Work
<1>6. n \in WokenFor(d)' /\ \A e \in Dispatches : WokenFor(e) \subseteq WokenFor(e)'
  <2>1. CASE o.booked /\ signature[d] = n
    <3>1. signature[d] \in {0} \cup WokenFor(d)
      BY <1>0, <1>2 DEF WorkerInv, ToldSound
    <3> QED
      BY <1>1, <1>2, <2>1, <3>1 DEF WokenFor
  <2>2. CASE ~(o.booked /\ signature[d] = n)
    <3> DEFINE s == wakes[d]
               t == Append(s, n)
    <3>1. s \in Seq(Nat) /\ wakes \in [Dispatches -> Seq(Nat)]
      BY <1>0, <1>2 DEF TypeOK
    <3>2. /\ DOMAIN t = 1..(Len(s) + 1) /\ DOMAIN s = 1..Len(s)
          /\ Len(s) \in Nat /\ t[Len(s) + 1] = n
          /\ \A i \in 1..Len(s) : t[i] = s[i]
      BY <1>2, <3>1
    <3>3. wakes'[d] = t /\ \A e \in Dispatches \ {d} : wakes'[e] = wakes[e]
      BY <1>1, <1>2, <2>2, <3>1
    <3> HIDE DEF t
    <3>4. /\ \A i \in DOMAIN wakes[d] : i \in DOMAIN t /\ wakes[d][i] = t[i]
          /\ Len(s) + 1 \in DOMAIN t
      BY <3>2
    <3>5. n \in WokenFor(d)'
      BY <3>2, <3>3, <3>4 DEF WokenFor
    <3>6. WokenFor(d) \subseteq WokenFor(d)'
      BY <3>3, <3>4 DEF WokenFor
    <3>7. \A e \in Dispatches \ {d} : WokenFor(e) = WokenFor(e)'
      BY <3>3 DEF WokenFor
    <3> QED
      BY <3>5, <3>6, <3>7
  <2> QED
    BY <2>1, <2>2
<1>7. \A e \in Dispatches, k \in Nat :
        WakesUpTo(e, k) /\ (e = d => n <= k) => WakesUpTo(e, k)'
  <2> SUFFICES ASSUME NEW e \in Dispatches, NEW k \in Nat,
                      WakesUpTo(e, k), e = d => n <= k
               PROVE  WakesUpTo(e, k)'
    OBVIOUS
  <2>1. CASE wakes'[e] = wakes[e]
    BY <2>1 DEF WakesUpTo
  <2>2. CASE wakes'[e] # wakes[e]
    <3>1. wakes \in [Dispatches -> Seq(Nat)]
      BY <1>0 DEF TypeOK
    <3>2. e = d /\ wakes'[e] = Append(wakes[e], n)
      BY <1>1, <2>2, <3>1
    <3>3. wakes[e] \in Seq(Nat)
      BY <3>1
    <3> DEFINE s == wakes[e]
    <3>4. /\ DOMAIN Append(s, n) = 1..(Len(s) + 1) /\ DOMAIN s = 1..Len(s)
          /\ Append(s, n)[Len(s) + 1] = n /\ Len(s) \in Nat
          /\ \A i \in 1..Len(s) : Append(s, n)[i] = s[i]
      BY <1>2, <3>3
    <3>5. ASSUME NEW i \in DOMAIN Append(s, n)
          PROVE  Append(s, n)[i] <= k
      <4>1. CASE i \in 1..Len(s)
        BY <3>4, <4>1 DEF WakesUpTo
      <4>2. CASE i = Len(s) + 1
        BY <3>2, <3>4, <4>2
      <4> QED
        BY <3>4, <4>1, <4>2
    <3> QED
      BY <3>2, <3>5 DEF WakesUpTo
  <2> QED
    BY <2>1, <2>2
<1> HIDE DEF d, n, v
<1>8. \A e, u : Genuine(e, u)' <=> Genuine(e, u)
  BY <1>3 DEF Genuine
<1>9. \A e : Settled(e)' <=> Settled(e)
  BY <1>1 DEF Settled
<1>10. LaunchSound'
  <2>1. launches[d] = 1
    BY <1>2 DEF Genuine
  <2>2. \A e \in Dispatches \ {d} : wakes'[e] = wakes[e]
    BY <1>0, <1>1, <1>2 DEF d, TypeOK
  <2> QED
    BY <1>0, <1>3, <2>1, <2>2 DEF WorkerInv, LaunchSound
<1>11. RowsSound'
  <2>1. ASSUME NEW e \in Dispatches, NEW r \in receiver[e], r.claimed
        PROVE  Working(e, r)'
    <3>1. Working(e, r)
      BY <1>0, <2>1 DEF WorkerInv, RowsSound
    <3>2. e = d => n <= r.seq
      BY <1>2, <2>1 DEF Genuine, n
    <3>3. r.seq \in Nat
      BY <1>0, RowElim DEF WorkerRecord
    <3>4. WakesUpTo(e, r.seq)'
      BY <1>7, <3>1, <3>2, <3>3 DEF Working
    <3> QED
      BY <1>3, <1>8, <1>9, <3>1, <3>4 DEF Working
  <2>2. \A e \in Dispatches : Woken(e) => Woken(e)'
    BY <1>3, <1>6 DEF Woken
  <2> QED
    BY <1>0, <1>3, <1>9, <2>1, <2>2 DEF WorkerInv, RowsSound, Blank
<1>12. UpdatesSound'
  BY <1>0, <1>1, <1>2, <1>3, <1>5, <1>8 DEF WorkerInv, UpdatesSound
<1>13. ToldSound'
  <2>1. WorkSound(v)'
    BY <1>5, <1>6 DEF WorkSound, n
  <2>2. \A e \in Dispatches : signature'[e] \in {0} \cup WokenFor(e)'
    BY <1>0, <1>1, <1>6 DEF WorkerInv, ToldSound
  <2>3. \A m \in calls' : MsgSound(m)'
    BY <1>0, <1>3, <1>9 DEF WorkerInv, ToldSound, MsgSound
  <2>4. \A e, q : RowSound(e, q)' <=> RowSound(e, q)
    BY <1>3 DEF RowSound
  <2> QED
    BY <1>0, <1>1, <1>5, <2>1, <2>2, <2>3, <2>4 DEF WorkerInv, ToldSound
<1> QED
  BY <1>10, <1>11, <1>12, <1>13 DEF WorkerInv

(* The other steps of the observer.                                        *)
LEMMA ObserveWorker ==
    ASSUME PairInv, Observe
    PROVE  WorkerInv'
<1>0. TypeOK /\ WorkerInv
  BY DEF PairInv
<1>1. CASE ReceiveUpdate
  <2>1. PICK e \in updates :
          /\ updates' = updates \ {e}
          /\ IF \E o \in origin[e.dispatch] : Acceptable(o, e.update)
             THEN \E o \in origin[e.dispatch] : Accept(e.dispatch, o, e.update)
             ELSE UNCHANGED <<origin, observer>>
          /\ UNCHANGED <<forward, signature, wakes, atReceiver, calls>>
    BY <1>1 DEF ReceiveUpdate
  <2>2. e.dispatch \in Dispatches /\ Genuine(e.dispatch, e.update)
    BY <1>0, PairFacts DEF TypeOK, Event
  <2>3. CASE \E o \in origin[e.dispatch] : Acceptable(o, e.update)
    <3>1. PICK o \in origin[e.dispatch] : Accept(e.dispatch, o, e.update)
      BY <2>1, <2>3
    <3>2. Acceptable(o, e.update)
      BY <1>0, <2>2, <2>3, RowElim
    <3> QED
      BY <2>1, <2>2, <3>1, <3>2, AcceptWorker
  <2>4. CASE ~ \E o \in origin[e.dispatch] : Acceptable(o, e.update)
    BY <1>0, <2>1, <2>2, <2>4, PairFacts, LinkFrame DEF atReceiver
  <2> QED
    BY <2>3, <2>4
<1>2. CASE MarkDelivering
  <2>1. PICK w, o :
          /\ w \in observer /\ o \in origin[w.dispatch]
          /\ w.phase = "accepted"
          /\ origin' = [origin EXCEPT ![w.dispatch] =
                          {[o EXCEPT !.deliveringSeq = {w.update.seq}]}]
          /\ observer' = {[w EXCEPT !.phase = "marked"]}
          /\ UNCHANGED <<forward, signature, wakes, atReceiver, link>>
    BY <1>2 DEF MarkDelivering
  <2> DEFINE x == [o EXCEPT !.deliveringSeq = {w.update.seq}]
             v == [w EXCEPT !.phase = "marked"]
  <2>2. /\ w \in Work /\ w.dispatch \in Dispatches
        /\ o \in OriginRecord /\ o.state = "open"
        /\ Genuine(w.dispatch, w.update) /\ RowSound(w.dispatch, o)
        /\ \A u \in o.lastUpdate : Genuine(w.dispatch, u)
    BY <2>1, WorkFacts
  <2>3. /\ x.state = "open" /\ x.session = o.session /\ x.ackedSeq = o.ackedSeq
        /\ x.lastUpdate = o.lastUpdate
    BY <2>2 DEF OriginRecord
  <2>4. v.dispatch = w.dispatch /\ v.update = w.update /\ v.phase = "marked"
    BY <2>2 DEF Work
  <2>5. origin' = [origin EXCEPT ![w.dispatch] = {x}] /\ observer' = {v}
    BY <2>1
  <2> HIDE DEF x, v
  <2>6. RowSound(w.dispatch, x)
    BY <2>2, <2>3 DEF RowSound
  <2>7. \A y \in observer' : Genuine(y.dispatch, y.update) /\ WorkSound(y)
    BY <2>2, <2>4, <2>5 DEF WorkSound
  <2>8. UNCHANGED <<forward, signature, wakes, atReceiver, calls, updates>>
    BY <2>1 DEF link
  <2> QED
    BY <1>0, <2>1, <2>2, <2>3, <2>5, <2>6, <2>7, <2>8, RowFrame
<1>3. CASE Deliver
  BY <1>3, DeliverWorker
<1>4. CASE RecordSignature
  <2>1. PICK w, o :
          /\ w \in observer /\ o \in origin[w.dispatch]
          /\ w.phase = "sent"
          /\ \/ signature' = signature
             \/ signature' = [signature EXCEPT ![w.dispatch] = w.update.seq]
          /\ observer' = {[w EXCEPT !.phase = "signed"]}
          /\ UNCHANGED <<origin, forward, wakes, atReceiver, link>>
    BY <1>4 DEF RecordSignature
  <2> DEFINE v == [w EXCEPT !.phase = "signed"]
  <2>2. /\ w \in Work /\ w.dispatch \in Dispatches
        /\ Genuine(w.dispatch, w.update)
        /\ w.update.seq \in WokenFor(w.dispatch)
    BY <2>1, WorkFacts DEF WorkSound
  <2>3. v.dispatch = w.dispatch /\ v.update = w.update /\ observer' = {v}
    BY <2>1, <2>2 DEF Work
  <2> HIDE DEF v
  <2>4. UNCHANGED <<receiver, launching, launches, finals, claims, calls, updates>>
    BY <2>1 DEF atReceiver, link
  <2>5. \A e, u : Genuine(e, u)' <=> Genuine(e, u)
    BY <2>4 DEF Genuine
  <2>6. \A e : Settled(e)' <=> Settled(e)
    BY <2>1 DEF Settled
  <2>7. \A e : /\ WokenFor(e)' = WokenFor(e)
               /\ Woken(e)' <=> Woken(e)
    BY <2>1, <2>4 DEF Woken, WokenFor
  <2>8. \A e, n : WakesUpTo(e, n)' <=> WakesUpTo(e, n)
    BY <2>1 DEF WakesUpTo
  <2>9. LaunchSound'
    BY <1>0, <2>1, <2>4 DEF WorkerInv, LaunchSound
  <2>10. \A e \in Dispatches : \A r : Working(e, r)' <=> Working(e, r)
    BY <2>4, <2>5, <2>6, <2>8 DEF Working
  <2>11. RowsSound'
    BY <1>0, <2>4, <2>6, <2>7, <2>10 DEF WorkerInv, RowsSound
  <2>12. UpdatesSound'
    BY <1>0, <2>1, <2>2, <2>3, <2>4, <2>5 DEF WorkerInv, UpdatesSound
  <2>13. ToldSound'
    <3>1. \A e \in Dispatches : signature'[e] \in {0} \cup WokenFor(e)
      BY <1>0, <2>1, <2>2 DEF WorkerInv, ToldSound, TypeOK
    <3>2. \A m \in calls' : MsgSound(m)'
      BY <1>0, <2>4, <2>6 DEF WorkerInv, ToldSound, MsgSound
    <3>3. \A e, q : RowSound(e, q)' <=> RowSound(e, q)
      BY <2>4 DEF RowSound
    <3>4. \A y \in observer' : WorkSound(y)'
      BY <2>2, <2>3, <2>7 DEF WorkSound
    <3> QED
      BY <1>0, <2>1, <2>7, <3>1, <3>2, <3>3, <3>4 DEF WorkerInv, ToldSound
  <2> QED
    BY <2>9, <2>11, <2>12, <2>13 DEF WorkerInv
<1>5. CASE Acknowledge
  <2>1. PICK w, o :
          /\ w \in observer /\ o \in origin[w.dispatch]
          /\ w.phase = "signed"
          /\ origin' = [origin EXCEPT ![w.dispatch] =
                          {AcknowledgedRow(o, w.update)}]
          /\ observer' = {}
          /\ calls' = IF w.update.final
                      THEN calls \cup {Msg("replay", w.dispatch, w.update.seq)}
                      ELSE calls
          /\ UNCHANGED <<forward, signature, wakes, atReceiver, updates>>
    BY <1>5 DEF Acknowledge
  <2> DEFINE d == w.dispatch
             x == AcknowledgedRow(o, w.update)
  <2>2. /\ d \in Dispatches /\ o \in OriginRecord /\ o.state = "open"
        /\ w.update \in Update /\ Genuine(d, w.update)
        /\ w.update.seq \in WokenFor(d) /\ o.ackedSeq < w.update.seq
        /\ RowSound(d, o) /\ \A v \in o.lastUpdate : Genuine(d, v)
    BY <2>1, WorkFacts DEF WorkSound, Work
  <2>3. /\ RowSound(d, x)
        /\ x.state = "done" => Woken(d)
        /\ \A v \in x.lastUpdate : Genuine(d, v)
        /\ w.update.final => x.state = "done" /\ w.update.seq = finals[d]
    BY <2>2, AcknowledgedFacts
  <2> HIDE DEF d, x
  <2>4. origin' = [origin EXCEPT ![d] = {x}] /\ o \in origin[d]
    BY <2>1 DEF d, x
  <2>5. \A m \in calls' : m \in calls \/ MsgSound(m)'
    <3>1. ASSUME w.update.final
          PROVE  MsgSound(Msg("replay", d, w.update.seq))'
      <4>1. finals'[d] = w.update.seq
        BY <2>1, <2>3, <3>1 DEF atReceiver
      <4>2. forward'[d] # "idle"
        BY <2>1, <2>2, <2>4 DEF PairInv, DeliveryInv, IdleUntold
      <4>3. Settled(d)'
        BY <1>0, <2>2, <2>3, <2>4, <3>1, <4>2 DEF Settled, TypeOK
      <4> QED
        BY <4>1, <4>3, MsgFacts DEF MsgSound
    <3> QED
      BY <2>1, <3>1 DEF d
  <2>6. \A y \in observer' : Genuine(y.dispatch, y.update) /\ WorkSound(y)
    BY <2>1
  <2>7. /\ \A e \in Dispatches : forward'[e] = "idle" <=> forward[e] = "idle"
        /\ updates' \subseteq updates
        /\ UNCHANGED <<atReceiver, signature, wakes>>
        /\ o.state # "done"
    BY <2>1, <2>2
  <2> QED
    BY <1>0, <2>2, <2>3, <2>4, <2>5, <2>6, <2>7, RowFrame
<1>6. CASE DeliveryFails
  <2>1. /\ UNCHANGED <<origin, forward, signature, receiver, launching, launches,
                       finals, claims, wakes, calls, updates>>
        /\ observer' \subseteq observer
    BY <1>6 DEF DeliveryFails, atReceiver, link
  <2>2. /\ \A e \in updates : Genuine(e.dispatch, e.update)
        /\ \A m \in calls : m.dispatch \in Dispatches
    BY <1>0 DEF WorkerInv, UpdatesSound, TypeOK, Call
  <2> QED
    BY <1>0, <2>1, <2>2, LinkFrame
<1> QED
  BY <1>1, <1>2, <1>3, <1>4, <1>5, <1>6 DEF Observe

(* Reconciliation.                                                         *)
LEMMA ReconcileWorker ==
    ASSUME PairInv, NEW d \in Dispatches, Reconcile(d)
    PROVE  WorkerInv'
<1>0. TypeOK /\ WorkerInv /\ DeliveryInv
  BY DEF PairInv
<1>1. CASE ReconcileDone(d) \/ ReconcileReplay(d)
  <2>1. PICK o, n :
          /\ o \in origin[d]
          /\ calls' = calls \cup {Msg("replay", d, n)}
          /\ n = 0 \/ (o.state = "done" /\ n = o.ackedSeq)
          /\ UNCHANGED <<atOrigin, atReceiver, updates>>
    BY <1>1 DEF ReconcileDone, ReconcileReplay
  <2>2. o.state = "done" => Settled(d) /\ o.ackedSeq = finals[d]
    <3>1. origin[d] = {o} /\ forward[d] # "idle" /\ RowSound(d, o)
      BY <1>0, <2>1, RowElim
      DEF DeliveryInv, IdleUntold, WorkerInv, ToldSound
    <3> QED
      BY <3>1 DEF Settled, RowSound
  <2>3. MsgSound(Msg("replay", d, n))
    BY <2>1, <2>2, MsgFacts DEF MsgSound
  <2>4. \A m \in calls' : /\ m \in calls \/ MsgSound(m)
                          /\ m.dispatch \in Dispatches
    BY <2>1, <2>3, PairFacts, MsgFacts
  <2> QED
    BY <1>0, <2>1, <2>4, PairFacts, LinkFrame DEF atOrigin, atReceiver
<1>2. CASE ReconcileConfirm(d)
  <2>1. PICK o, u :
          /\ o \in origin[d] /\ u \in o.lastUpdate
          /\ observer = {} /\ o.state = "open" /\ Confirmable(d, o)
          /\ origin' = [origin EXCEPT ![d] = {AcknowledgedRow(o, u)}]
          /\ UNCHANGED <<forward, observer, signature, wakes, atReceiver, link>>
    BY <1>2 DEF ReconcileConfirm
  <2> DEFINE x == AcknowledgedRow(o, u)
  <2>2. /\ o \in OriginRecord /\ u \in Update /\ o.lastUpdate = {u}
    BY <1>0, <2>1, RowElim, LastElim
  <2>3. o.deliveringSeq = {u.seq} /\ signature[d] = u.seq
    BY <2>1, <2>2 DEF Confirmable
  <2>4. o.ackedSeq < u.seq
    BY <1>0, <2>1, <2>3 DEF DeliveryInv, RowsBound
  <2>5. Genuine(d, u) /\ RowSound(d, o)
    BY <1>0, <2>1 DEF WorkerInv, UpdatesSound, ToldSound
  <2>6. u.seq \in WokenFor(d)
    <3>1. signature[d] \in {0} \cup WokenFor(d)
      BY <1>0 DEF WorkerInv, ToldSound
    <3> QED
      BY <2>3, <2>5, <3>1, PairFacts
  <2>7. /\ RowSound(d, x)
        /\ x.state = "done" => Woken(d)
        /\ \A v \in x.lastUpdate : Genuine(d, v)
    BY <2>1, <2>2, <2>4, <2>5, <2>6, AcknowledgedFacts
  <2>8. origin' = [origin EXCEPT ![d] = {x}]
    BY <2>1
  <2> HIDE DEF x
  <2>9. /\ \A w \in observer' : Genuine(w.dispatch, w.update) /\ WorkSound(w)
        /\ \A e \in Dispatches : forward'[e] = "idle" <=> forward[e] = "idle"
        /\ UNCHANGED <<atReceiver, signature, wakes, calls, updates>>
        /\ o.state # "done"
    BY <2>1 DEF link
  <2> QED
    BY <1>0, <2>1, <2>7, <2>8, <2>9, RowFrame
<1>3. CASE ReconcileDeliver(d)
  <2>1. PICK o, u :
          /\ o \in origin[d] /\ u \in o.lastUpdate
          /\ Acceptable(o, u) /\ Accept(d, o, u)
          /\ UNCHANGED <<forward, signature, wakes, atReceiver, calls, updates>>
    BY <1>3 DEF ReconcileDeliver, link
  <2>2. Genuine(d, u)
    BY <1>0, <2>1 DEF WorkerInv, UpdatesSound
  <2> QED
    BY <2>1, <2>2, AcceptWorker
<1> QED
  BY <1>1, <1>2, <1>3 DEF Reconcile

(* Losses and restarts.                                                    *)
LEMMA FaultWorker ==
    ASSUME PairInv,
           LoseCall \/ LoseUpdate \/ OriginCrash \/ ReceiverCrash
             \/ UNCHANGED vars
    PROVE  WorkerInv'
<1>0. TypeOK /\ WorkerInv
  BY DEF PairInv
<1>1. /\ UNCHANGED <<origin, signature, receiver, launches, finals, claims, wakes>>
      /\ observer' \subseteq observer /\ launching' \subseteq launching
      /\ calls' \subseteq calls /\ updates' \subseteq updates
  BY DEF LoseCall, LoseUpdate, OriginCrash, ReceiverCrash, atOrigin, atReceiver,
         link, vars
<1>2. \A d \in Dispatches : forward'[d] = "idle" <=> forward[d] = "idle"
  BY DEF LoseCall, LoseUpdate, OriginCrash, ReceiverCrash, atOrigin, vars
<1>3. /\ \A e \in updates : Genuine(e.dispatch, e.update)
      /\ \A m \in calls : m.dispatch \in Dispatches
  BY <1>0 DEF WorkerInv, UpdatesSound, TypeOK, Call
<1> QED
  BY <1>0, <1>1, <1>2, <1>3, LinkFrame

(* Every step keeps the invariant.                                         *)
LEMMA NextPair == PairInv /\ [Next]_vars => PairInv'
<1> SUFFICES ASSUME PairInv, [Next]_vars PROVE PairInv'
  OBVIOUS
<1>1. ASSUME NEW d \in Dispatches, Origin(d) PROVE WorkerInv'
  BY <1>1, OriginWorker
<1>2. ASSUME NEW d \in Dispatches, Receiver(d) PROVE WorkerInv'
  BY <1>2, LeaseWorker, SpawnWorker, LaunchWorker, ReportWorker, ReplayWorker
  DEF Receiver
<1>3. ASSUME NEW d \in Dispatches, Reconcile(d) PROVE WorkerInv'
  BY <1>3, ReconcileWorker
<1>4. Observe => WorkerInv'
  BY ObserveWorker
<1>5. LoseCall \/ LoseUpdate \/ OriginCrash \/ ReceiverCrash \/ UNCHANGED vars
        => WorkerInv'
  BY FaultWorker
<1>6. WorkerInv'
  BY <1>1, <1>2, <1>3, <1>4, <1>5 DEF Next
<1>7. TypeOK' /\ DeliveryInv' /\ AdmitOnce'
  BY NextType, NextDelivery, NextAdmit DEF PairInv
<1> QED
  BY <1>6, <1>7 DEF PairInv

-----------------------------------------------------------------------------
(* What follows for the owner.                                             *)

LEMMA PairAlways == RepeatsOneCall => (Spec => []PairInv)
<1>1. RepeatsOneCall /\ Init => PairInv
  BY InitPair
<1>2. PairInv /\ [Next]_vars => PairInv'
  BY NextPair
<1> QED
  BY <1>1, <1>2, PTL DEF Spec

LEMMA PairRetains == PairInv => WorkRetained
<1> SUFFICES ASSUME PairInv, NEW d \in Dispatches, launches[d] > 0, ~Woken(d)
             PROVE  /\ d \in OpenRows
                    /\ \E r \in receiver[d] :
                         /\ r.claimed
                         /\ finals[d] # 0 => \E u \in r.last : u.final
  BY DEF WorkRetained
<1>0. TypeOK /\ WorkerInv /\ AdmitOnce
  BY DEF PairInv
<1>1. launches[d] # 0
  BY <1>0 DEF TypeOK
<1>2. claims[d] = 1
  <2>1. launches[d] <= claims[d] /\ launches[d] \in {0, 1} /\ claims[d] \in {0, 1}
    BY <1>0, PairFacts DEF WorkerInv, LaunchSound
  <2> QED
    BY <1>1, <2>1
<1>3. forward[d] # "idle"
  BY <1>0, <1>2 DEF AdmitOnce
<1>4. ~Settled(d) /\ \E r \in receiver[d] : r.claimed
  BY <1>0, <1>2 DEF WorkerInv, RowsSound
<1>5. PICK o \in origin[d] : o.state # "done"
  BY <1>3, <1>4 DEF Settled
<1>6. d \in OpenRows
  <2>1. o \in OriginRecord
    BY <1>0, <1>5, RowElim
  <2> QED
    BY <1>5, <2>1 DEF OriginRecord, OpenRows, OriginRows
<1>7. \A r \in receiver[d] : r.claimed /\ finals[d] # 0 => \E u \in r.last : u.final
  BY <1>0 DEF WorkerInv, RowsSound, Working
<1> QED
  BY <1>4, <1>6, <1>7

LEMMA PairAgrees == PairInv => SessionsAgree
<1> SUFFICES ASSUME PairInv, NEW d \in Dispatches, NEW o \in origin[d],
                    NEW r \in receiver[d], o.state = "open" \/ r.claimed,
                    o.session # 0
             PROVE  o.session = r.session
  BY DEF SessionsAgree
<1>0. TypeOK /\ WorkerInv
  BY DEF PairInv
<1>1. o.session = 1 /\ claims[d] = 1
  BY <1>0 DEF WorkerInv, ToldSound, RowSound
<1>2. CASE r.claimed
  BY <1>0, <1>1, <1>2 DEF WorkerInv, RowsSound, Working
<1>3. CASE ~r.claimed
  <2>1. receiver[d] = {r}
    BY <1>0, RowElim
  <2>2. Settled(d)
    BY <1>0, <1>1, <1>3, <2>1 DEF WorkerInv, RowsSound
  <2> QED
    BY <1>3, <2>2 DEF Settled
<1> QED
  BY <1>2, <1>3

(* Started work is never dropped before its owner was told the result,     *)
(* however full both journals are and whatever is lost, repeated once or   *)
(* interrupted by a restart (receiver.rs spawn_owned and eviction,         *)
(* origin.rs acknowledge).                                                 *)
THEOREM DispatchRetainsWork == RepeatsOneCall => (Spec => []WorkRetained)
  BY PairAlways, PairRetains, PTL

(* Both hubs mean the same worker: no answer and no update binds an open   *)
(* row to a session other than the admitted one (origin.rs attach,         *)
(* accept_and_deliver).                                                    *)
THEOREM DispatchSessionsAgree == RepeatsOneCall => (Spec => []SessionsAgree)
  BY PairAlways, PairAgrees, PTL

-----------------------------------------------------------------------------
(* The promise.                                                            *)

(* The owner was told the result in this state: the set the promise calls  *)
(* `closed`.                                                               *)
Closed == {d \in Dispatches : Woken(d)}

LEMMA InitPromise == Init => Promise!Init
<1> SUFFICES ASSUME Init PROVE Promise!Init
  OBVIOUS
<1>1. \A d \in Dispatches : ~Woken(d)
  BY DEF Init, Woken
<1> QED
  BY <1>1 DEF Init, Promise!Init

(* Started by the receiver: the first worker of the dispatch.              *)
LEMMA LaunchPromise ==
    ASSUME PairInv, NEW d \in Dispatches, Launch(d)
    PROVE  Promise!Next \/ UNCHANGED <<launches, wakes, Closed>>
<1>1. UNCHANGED <<wakes, finals>>
  BY DEF Launch, atOrigin
<1>2. UNCHANGED Closed
  BY <1>1 DEF Closed, Woken, WokenFor
<1>3. TypeOK /\ LaunchSound
  BY DEF PairInv, WorkerInv
<1>4. launches[d] = 0
  BY <1>3 DEF Launch, LaunchSound
<1>5. CASE launches' = [launches EXCEPT ![d] = @ + 1]
  <2>1. launches' = [launches EXCEPT ![d] = 1]
    BY <1>3, <1>4, <1>5 DEF TypeOK
  <2>2. Promise!Launch(d)
    BY <1>1, <1>2, <1>4, <2>1 DEF Promise!Launch, Closed
  <2> QED
    BY <2>2 DEF Promise!Next
<1>6. CASE launches' = [launches EXCEPT ![d] = launches[d]]
  <2>1. launches' = launches
    BY <1>3, <1>6 DEF TypeOK
  <2> QED
    BY <1>1, <1>2, <2>1
<1> QED
  BY <1>5, <1>6 DEF Launch

(* The owner's engine takes the wake: it is told.                          *)
LEMMA DeliverPromise ==
    ASSUME PairInv, Deliver
    PROVE  Promise!Next \/ UNCHANGED <<launches, wakes, Closed>>
<1>1. PICK w, o :
        /\ w \in observer /\ o \in origin[w.dispatch]
        /\ w.phase = "marked"
        /\ \/ wakes' = wakes
           \/ wakes' = [wakes EXCEPT ![w.dispatch] = Append(@, w.update.seq)]
  BY DEF Deliver
<1>2. UNCHANGED <<launches, finals>>
  BY DEF Deliver, atReceiver
<1> DEFINE d == w.dispatch
           n == w.update.seq
           s == wakes[d]
<1>3. /\ d \in Dispatches /\ n \in Nat /\ n # 0 /\ Genuine(d, w.update)
      /\ w.update \in Update /\ o.ackedSeq \in Nat /\ o.ackedSeq < n
      /\ WakesUpTo(d, o.ackedSeq)
  BY <1>1, WorkFacts DEF Work
<1>4. s \in Seq(Nat) /\ wakes \in [Dispatches -> Seq(Nat)] /\ finals[d] \in Nat
  BY <1>3 DEF PairInv, TypeOK
<1>5. CASE wakes' = wakes
  <2>1. UNCHANGED Closed
    BY <1>2, <1>5 DEF Closed, Woken, WokenFor
  <2> QED
    BY <1>2, <1>5, <2>1
<1>6. CASE wakes' = [wakes EXCEPT ![d] = Append(@, n)]
  <2>1. launches[d] = 1 /\ n \in 1..MaxSeq
    BY <1>3 DEF Genuine
  <2>2. \A i \in DOMAIN s : s[i] < n
    <3> TAKE i \in DOMAIN s
    <3>1. s[i] <= o.ackedSeq /\ s[i] \in Nat
      BY <1>3, <1>4 DEF WakesUpTo
    <3> QED
      BY <1>3, <3>1
  <2>3. d \notin Closed
    <3>1. \A i \in DOMAIN s : s[i] # finals[d] \/ finals[d] = 0
      <4> TAKE i \in DOMAIN s
      <4>1. s[i] < n /\ s[i] \in Nat /\ (finals[d] # 0 => n <= finals[d])
        BY <1>3, <1>4, <2>2 DEF Genuine
      <4> QED
        BY <1>3, <1>4, <4>1
    <3> QED
      BY <3>1 DEF Closed, Woken, WokenFor
  <2>4. s # <<>> => n > s[Len(s)]
    <3>1. s # <<>> => Len(s) \in DOMAIN s
      BY <1>4
    <3>2. \A i \in DOMAIN s : s[i] \in Nat
      BY <1>4
    <3> QED
      BY <1>3, <2>2, <3>1, <3>2
  <2>5. s # <<>> => n > Promise!Last(s)
    BY <2>4 DEF Promise!Last
  <2>6. /\ wakes'[d] = Append(s, n)
        /\ \A e \in Dispatches \ {d} : wakes'[e] = wakes[e]
    BY <1>3, <1>4, <1>6
  <2>7. n \in WokenFor(d)' /\ WokenFor(d)' \subseteq WokenFor(d) \cup {n}
    <3> DEFINE t == Append(s, n)
    <3>1. /\ DOMAIN t = 1..(Len(s) + 1) /\ DOMAIN s = 1..Len(s)
          /\ Len(s) \in Nat /\ t[Len(s) + 1] = n
          /\ \A i \in 1..Len(s) : t[i] = s[i]
      BY <1>3, <1>4
    <3> HIDE DEF t
    <3>2. /\ Len(s) + 1 \in DOMAIN t
          /\ \A i \in DOMAIN t : (i \in DOMAIN s /\ t[i] = s[i]) \/ t[i] = n
      BY <3>1
    <3>3. wakes'[d] = t
      BY <2>6 DEF t
    <3> QED
      BY <3>1, <3>2, <3>3 DEF WokenFor
  <2>8. Woken(d)' <=> w.update.final
    <3>1. w.update.final <=> n = finals[d]
      BY <1>3 DEF Genuine
    <3>2. Woken(d)' <=> finals[d] # 0 /\ finals[d] \in WokenFor(d)'
      BY <1>2 DEF Woken
    <3>3. finals[d] # 0 => finals[d] \notin WokenFor(d)
      BY <1>3, <2>3 DEF Closed, Woken
    <3> QED
      BY <1>3, <2>7, <3>1, <3>2, <3>3
  <2>9. \A e \in Dispatches \ {d} : Woken(e)' <=> Woken(e)
    BY <1>2, <2>6 DEF Woken, WokenFor
  <2>10. Closed' = IF w.update.final THEN Closed \cup {d} ELSE Closed
    BY <1>3, <2>3, <2>8, <2>9 DEF Closed
  <2>11. Promise!Tell(d, n, w.update.final)
    BY <1>2, <1>6, <2>1, <2>3, <2>5, <2>10 DEF Promise!Tell, Closed
  <2>12. w.update.final \in BOOLEAN
    BY <1>3 DEF Update
  <2> QED
    BY <1>3, <2>1, <2>11, <2>12 DEF Promise!Next
<1> QED
  BY <1>1, <1>5, <1>6

(* A final report tells the owner nothing: its number is a new one.        *)
LEMMA ReportPromise ==
    ASSUME PairInv, NEW d \in Dispatches, Report(d)
    PROVE  UNCHANGED <<launches, wakes, Closed>>
<1>1. PICK r \in receiver[d], final \in BOOLEAN :
        /\ r.claimed /\ MayReport(r)
        /\ finals' = IF final THEN [finals EXCEPT ![d] = r.seq + 1] ELSE finals
        /\ UNCHANGED <<launches, wakes>>
  BY DEF Report, Numbered, atOrigin
<1>2. TypeOK /\ Working(d, r)
  BY <1>1 DEF PairInv, WorkerInv, RowsSound
<1>3. r.seq \in Nat /\ finals \in [Dispatches -> Nat] /\ wakes[d] \in Seq(Nat)
  BY <1>2, RowElim DEF TypeOK, WorkerRecord
<1>4. finals[d] = 0
  BY <1>1, <1>2 DEF Working, MayReport
<1>5. r.seq + 1 \notin WokenFor(d)
  <2>1. \A i \in DOMAIN wakes[d] : wakes[d][i] <= r.seq /\ wakes[d][i] \in Nat
    BY <1>2, <1>3 DEF Working, WakesUpTo
  <2> QED
    BY <1>3, <2>1 DEF WokenFor
<1>6. \A e \in Dispatches : Woken(e)' <=> Woken(e)
  <2> TAKE e \in Dispatches
  <2>1. WokenFor(e)' = WokenFor(e)
    BY <1>1 DEF WokenFor
  <2>2. CASE finals'[e] = finals[e]
    BY <2>1, <2>2 DEF Woken
  <2>3. CASE finals'[e] # finals[e]
    <3>1. e = d /\ finals'[e] = r.seq + 1
      BY <1>1, <1>3, <2>3
    <3> QED
      BY <1>4, <1>5, <2>1, <3>1 DEF Woken
  <2> QED
    BY <2>2, <2>3
<1> QED
  BY <1>1, <1>6 DEF Closed

(* Every step keeps the promise or is one of it.                           *)
LEMMA StepPromise == PairInv /\ [Next]_vars => [Promise!Next]_(Promise!vars)
<1> SUFFICES ASSUME PairInv, [Next]_vars
             PROVE  Promise!Next \/ UNCHANGED <<launches, wakes, Closed>>
  BY DEF Promise!vars, Closed
<1>1. UNCHANGED <<launches, wakes, finals>> => UNCHANGED <<launches, wakes, Closed>>
  BY DEF Closed, Woken, WokenFor
<1>2. ASSUME NEW d \in Dispatches, Origin(d)
      PROVE  UNCHANGED <<launches, wakes, finals>>
  BY <1>2 DEF Origin, Dispatch, CallSpawn, Attach, ForwardFails, atReceiver
<1>3. ASSUME NEW d \in Dispatches, Receiver(d)
      PROVE  \/ Launch(d) \/ Report(d)
             \/ UNCHANGED <<launches, wakes, finals>>
  BY <1>3 DEF Receiver, PrepareAgain, Prepare, Allocate, Spawn, LeaseExpires,
              Sweep, ReplayAck, Replay, atOrigin, atReceiver
<1>4. ASSUME NEW d \in Dispatches, Reconcile(d)
      PROVE  UNCHANGED <<launches, wakes, finals>>
  BY <1>4 DEF Reconcile, ReconcileDone, ReconcileConfirm, ReconcileDeliver,
              ReconcileReplay, atOrigin, atReceiver
<1>5. Observe => Deliver \/ UNCHANGED <<launches, wakes, finals>>
  <2>1. ReceiveUpdate \/ MarkDelivering => UNCHANGED <<launches, wakes, finals>>
    BY DEF ReceiveUpdate, MarkDelivering, atReceiver
  <2>2. RecordSignature \/ Acknowledge \/ DeliveryFails =>
          UNCHANGED <<launches, wakes, finals>>
    BY DEF RecordSignature, Acknowledge, DeliveryFails, atReceiver
  <2> QED
    BY <2>1, <2>2 DEF Observe
<1>6. LoseCall \/ LoseUpdate \/ OriginCrash \/ ReceiverCrash \/ UNCHANGED vars =>
        UNCHANGED <<launches, wakes, finals>>
  BY DEF LoseCall, LoseUpdate, OriginCrash, ReceiverCrash, atOrigin, atReceiver,
         vars
<1>7. ASSUME NEW d \in Dispatches, Launch(d) \/ Report(d)
      PROVE  Promise!Next \/ UNCHANGED <<launches, wakes, Closed>>
  BY <1>7, LaunchPromise, ReportPromise
<1> QED
  BY <1>1, <1>2, <1>3, <1>4, <1>5, <1>6, <1>7, DeliverPromise DEF Next

(* Paired dispatch keeps its promise: each dispatch starts at most one     *)
(* worker and its owner is told each update at most once, in order, and    *)
(* nothing after the final one (docs/paired-dispatch-recovery.md;          *)
(* receiver.rs spawn_owned, origin.rs accept_and_deliver).                 *)
THEOREM DispatchKeepsPromise == RepeatsOneCall => (Spec => ImplementsPromise)
<1>1. Init => Promise!Init
  BY InitPromise
<1>2. PairInv /\ [Next]_vars => [Promise!Next]_(Promise!vars)
  BY StepPromise
<1> QED
  BY <1>1, <1>2, PairAlways, PTL DEF Spec, ImplementsPromise, Promise!Spec

==============================================================================

------------------------------ MODULE TurnWatch ------------------------------
(***************************************************************************)
(* The turn watch of the hub's message queue (message_queue.rs, Turn and   *)
(* Readiness): after an entry was sent, how many turn ends the hub must    *)
(* observe before the next entry may go.  Constant operators only; the     *)
(* modules that use it keep a watch as part of their state.                *)
(*                                                                         *)
(* A row is what the hub knows of a session: its readiness class `state`   *)
(* and its count of user prompts `prompts`.  The clock is abstracted to what       *)
(* Turn::observe asks of it: "off" before the delivery completed           *)
(* (since = None), "fresh" less than STALE_TURN after it started, "stale"  *)
(* from then on.                                                           *)
(***************************************************************************)
EXTENDS Naturals

(* An Option of the code: a set of at most one element.                    *)
Option(S) == {X \in SUBSET S : \A x, y \in X : x = y}

Readiness == {"ready", "busy", "blocked", "ended", "remote"}

Clock == {"off", "fresh", "stale"}

\* Owed turn ends are clamped to this many (the 3 in Turn::after_send).
MaxEnds == 3

Turn == [ends : 0..MaxEnds, sawBusy : BOOLEAN, prompts : Option(Nat),
         since : Clock]

\* Mutant: the turns owed add up instead of being clamped.
ClampAddsUp(owed, base) == owed + base

(* owed.clamp(base, 3)                                                     *)
Clamp(owed, base) ==
    IF owed < base THEN base ELSE IF owed > MaxEnds THEN MaxEnds ELSE owed

(* Turn::after_send.  `row` and `previous` are Options: a send-now may     *)
(* have no row, and only a send-now passes the watch it replaces.          *)
AfterSend(row, previous) ==
    LET ready == \E r \in row : r.state = "ready"
        owed  == IF previous = {} THEN 0
                 ELSE (CHOOSE p \in previous : TRUE).ends + 1
    IN [ends    |-> Clamp(owed, IF ready THEN 1 ELSE 2),
        sawBusy |-> ~ready,
        prompts |-> {r.prompts : r \in row},
        since   |-> "off"]

(* Turn::restored: the watch of a session that was awaiting a turn when    *)
(* the hub stopped.                                                        *)
Restored == [ends |-> 1, sawBusy |-> FALSE, prompts |-> {}, since |-> "fresh"]

\* Mutant: a completed delivery does not start the stale clock.
DeliveredNoClock(t) == t

(* Turn::delivered: the clock starts when the delivery completes.          *)
Delivered(t) == IF t.since = "off" THEN [t EXCEPT !.since = "fresh"] ELSE t

(* Turn::observe has two results: whether the watched turns are over, and  *)
(* the watch afterwards.  TurnEnds is the "ready after busy" edge.         *)
TurnEnds(t, r) == r.state = "ready" /\ t.sawBusy

Over(t, r) ==
    \/ r.state = "ended"
    \/ TurnEnds(t, r) /\ t.ends <= 1
    \/ /\ r.state = "ready" /\ ~t.sawBusy
       /\ t.ends <= 1
       /\ \/ \E p \in t.prompts : r.prompts > p
          \/ t.since = "stale"

Watched(t, r) ==
    CASE r.state \in {"busy", "blocked"} -> [t EXCEPT !.sawBusy = TRUE]
      [] TurnEnds(t, r) -> [ends    |-> IF t.ends = 0 THEN 0 ELSE t.ends - 1,
                            sawBusy |-> FALSE,
                            prompts |-> {r.prompts},
                            since   |-> "fresh"]
      [] OTHER -> t

(* The watch of a session after one observed row: gone once it is over.    *)
ObserveTurn(turn, r) == {Watched(t, r) : t \in {x \in turn : ~Over(x, r)}}
==============================================================================

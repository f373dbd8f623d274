------------------------------- MODULE MCJobs -------------------------------
(* Model-checking instances of Jobs.                                        *)
EXTENDS Jobs

Interval == [kind |-> "interval", at |-> 0]
OnceAtOne == [kind |-> "once", at |-> 1]
Manual == [kind |-> "manual", at |-> 0]

Timed == {Interval, OnceAtOne}

Row(trigger, host) ==
    [enabled |-> TRUE, proposal |-> FALSE, replaces |-> {}, trigger |-> trigger,
     host |-> host, action |-> CHOOSE a \in Actions : TRUE]

Starting(trigger, host) ==
    [j \in JobIds |->
        IF j = CHOOSE i \in JobIds : TRUE THEN {Row(trigger, host)} ELSE {}]

InlineInterval == Starting(Interval, "inline")
PeerInterval == Starting(Interval, "peer")
=============================================================================

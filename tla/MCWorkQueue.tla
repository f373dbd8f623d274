----------------------------- MODULE MCWorkQueue -----------------------------
(* Model-checking instances of WorkQueue.                                   *)
EXTENDS WorkQueue

OneEach == [k \in Kinds |-> 1]
NoneOrTwo == [k \in Kinds |-> IF k = "shell" THEN 0 ELSE 2]
TwoLimits == {OneEach, NoneOrTwo}
NoShell == [k \in Kinds |-> IF k = "shell" THEN 0 ELSE 1]

\* `updated` influences nothing but itself: runs that do not ask for it leave
\* it out of a state's identity.
Unstamped(its) ==
    [i \in Items |-> {[x EXCEPT !.updated = 0] : x \in its[i]}]
View == <<Unstamped(items), Unstamped(disk), watches, limits, gate, pass, task,
          agent, rows, clock, history, spent>>
=============================================================================

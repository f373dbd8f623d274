-------------------------- MODULE DispatchPromise --------------------------
(***************************************************************************)
(* What paired dispatch promises the local manager                         *)
(* (docs/paired-dispatch-recovery.md, "Admission and return contract"):    *)
(* a dispatch starts at most one worker, and its owner is told of the      *)
(* worker's updates at most once each, in order, and of nothing after the  *)
(* final one.  RemoteDispatch implements it.                               *)
(***************************************************************************)
EXTENDS Naturals, Sequences, SequencesExt

CONSTANTS
    Dispatches, \* dispatch ids
    Seqs        \* sequence numbers of updates

VARIABLES
    launches, \* how many workers each dispatch has started
    told,     \* the sequence numbers its owner was told of, in order
    closed    \* dispatches whose final update the owner was told of

vars == <<launches, told, closed>>

Init ==
    /\ launches = [d \in Dispatches |-> 0]
    /\ told = [d \in Dispatches |-> <<>>]
    /\ closed = {}

Launch(d) ==
    /\ launches[d] = 0
    /\ launches' = [launches EXCEPT ![d] = 1]
    /\ UNCHANGED <<told, closed>>

Tell(d, seq, final) ==
    /\ launches[d] = 1
    /\ d \notin closed
    /\ told[d] # <<>> => seq > Last(told[d])
    /\ told' = [told EXCEPT ![d] = Append(@, seq)]
    /\ closed' = IF final THEN closed \cup {d} ELSE closed
    /\ UNCHANGED launches

Next == \E d \in Dispatches :
    \/ Launch(d)
    \/ \E seq \in Seqs, final \in BOOLEAN : Tell(d, seq, final)

Spec == Init /\ [][Next]_vars
==============================================================================

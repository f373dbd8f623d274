--------------------------- MODULE MCMessageQueue ---------------------------
(* Model-checking instances of MessageQueue.                               *)
EXTENDS MessageQueue

\* Entry ids and attempt uuids are interchangeable names, and so are sessions.
Symmetry == Permutations(Ids) \cup Permutations(Uuids)
==============================================================================

------------------------------- MODULE MCNodes -------------------------------
(* Model-checking instances of Nodes.                                       *)
EXTENDS Nodes
=============================================================================

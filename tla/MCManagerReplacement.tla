------------------------- MODULE MCManagerReplacement -------------------------
(* Model-checking instances of ManagerReplacement.                          *)
EXTENDS ManagerReplacement
=============================================================================

--------------------------- MODULE MCCCRPCTimely ----------------------------
(***************************************************************************)
(* An instance of CCRPCTimely for TLC.                                     *)
(***************************************************************************)
EXTENDS CCRPCTimely

OneEntry == <<[from |-> 1, n |-> 1, nn |-> 3]>>
=============================================================================

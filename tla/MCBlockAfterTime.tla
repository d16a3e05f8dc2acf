-------------------------- MODULE MCBlockAfterTime --------------------------
(***************************************************************************)
(* An instance of BlockAfterTime for TLC.  The epochs play no role here.   *)
(***************************************************************************)
EXTENDS BlockAfterTime

AnyEntry == <<[from |-> 1, n |-> 1, nn |-> 3]>>
=============================================================================

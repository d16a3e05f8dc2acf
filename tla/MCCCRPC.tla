------------------------------ MODULE MCCCRPC -------------------------------
(***************************************************************************)
(* Instances of CCRPC for TLC.                                             *)
(***************************************************************************)
EXTENDS CCRPC

\* One entry: epochs of one main block, applied three smart blocks after their mapping.
OneEntry == <<[from |-> 1, n |-> 1, nn |-> 3]>>
\* Epochs of two main blocks, then from main height 3 on of one block with a longer delay.
TwoEntries == <<[from |-> 1, n |-> 2, nn |-> 3], [from |-> 3, n |-> 1, nn |-> 4]>>
=============================================================================

--------------------------- MODULE MCTransferRows ---------------------------
(***************************************************************************)
(* Instances of TransferRows for TLC.                                      *)
(***************************************************************************)
EXTENDS TransferRows, TLC
=============================================================================

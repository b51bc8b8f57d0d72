---------------------------- MODULE MCFileCommit ----------------------------
(***************************************************************************)
(* Instances of FileCommit for TLC.                                        *)
(***************************************************************************)
EXTENDS FileCommit, TLC

CONSTANTS sent, fetched     \* an uploaded and a downloaded file
=============================================================================

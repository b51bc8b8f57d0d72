--------------------------- MODULE MCProfileStore ---------------------------
(***************************************************************************)
(* Instances of ProfileStore for TLC.                                      *)
(***************************************************************************)
EXTENDS ProfileStore, TLC

CONSTANTS app1, app2    \* two running copies of the application

\* The copies are alike.
Instances == Permutations(Stores)
=============================================================================

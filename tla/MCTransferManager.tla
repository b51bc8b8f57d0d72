------------------------- MODULE MCTransferManager -------------------------
(* Instances of TransferManager for TLC.  Ids are numbered in the order the  *)
(* planners hand them out: 10 is the row of the plan, 11, 12, ... its jobs.  *)
EXTENDS TransferManager

OnePlan == {"a"}

\* A plan of three jobs.
OneIds       == {10, 11, 12, 13}
OnePlanOf    == [i \in OneIds |-> "a"]
OneRow       == [p \in OnePlan |-> 10]
OneFirst     == [p \in OnePlan |-> 11]
OneOverwrite == [p \in OnePlan |-> "OverwriteAll"]
OneAsk       == [p \in OnePlan |-> "Ask"]

\* A plan of two jobs.
TwoIds    == {10, 11, 12}
TwoPlanOf == [i \in TwoIds |-> "a"]
=============================================================================

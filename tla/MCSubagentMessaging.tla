------------------------ MODULE MCSubagentMessaging ------------------------
(* Values for the constants of SubagentMessaging. *)
EXTENDS SubagentMessaging, TLC

FairSpec == Spec /\ Fairness
=============================================================================

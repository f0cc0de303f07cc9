-------------------------- MODULE MCAccountRefresh --------------------------
(* Values for the constants of AccountRefresh. *)
EXTENDS AccountRefresh, TLC

CONSTANTS s1, s2, a

\* One session synchronises twice, the other once.
TwoAndOne == (s1 :> 2) @@ (s2 :> 1)

FairSpec == Spec /\ Fairness
=============================================================================

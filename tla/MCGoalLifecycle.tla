-------------------------- MODULE MCGoalLifecycle --------------------------
(* Values for the constants of GoalLifecycle. *)
EXTENDS GoalLifecycle
=============================================================================

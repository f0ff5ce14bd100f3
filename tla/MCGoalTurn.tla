----------------------------- MODULE MCGoalTurn ------------------------------
(* GoalTurn on small sets, for TLC: goals, turns and agents are            *)
(* interchangeable model values.                                           *)
EXTENDS GoalTurn, TLC

Symmetry == Permutations(GoalId) \cup Permutations(Turn) \cup Permutations(Agent)
=============================================================================

------------------------------ MODULE GoalStore ------------------------------
(***************************************************************************)
(* The row of goals.sqlite that a session owns, and the transactions on it *)
(* (src-rust/crates/core/src/goal.rs).  One session is modelled: every     *)
(* statement of the store is keyed by session_id, so rows of two sessions  *)
(* never meet.  Each operator below is one SQL statement or one immediate  *)
(* transaction, hence one atomic step; callers that read first and write   *)
(* later do so in two steps of their own.                                  *)
(*                                                                         *)
(* Left out: the objective's text, time_used_secs (accounted like tokens   *)
(* but never consulted) and created_at_ms.                                 *)
(***************************************************************************)
EXTENDS Naturals

CONSTANTS
  GoalId,        \* what uuid_v4 can return
  Budget,        \* token budgets a user may ask for
  NoBudget,      \* the column is NULL
  NoGoal,        \* the session has no row
  Stamp,         \* readings of the wall clock, which need not advance
  MaxGoalTurns   \* MAX_GOAL_TURNS, the runaway guard

ASSUME BudgetAssumption == Budget \subseteq Nat /\ NoBudget \notin Nat
ASSUME StampAssumption == Stamp # {}
ASSUME CapAssumption == MaxGoalTurns \in Nat

GoalStatus == {"active", "paused", "budget_limited", "complete"}

Goal == [id: GoalId, status: GoalStatus, budget: Budget \cup {NoBudget},
         tokens: Nat, turns: Nat, stamp: Stamp]

ASSUME NoGoalAssumption == NoGoal \notin Goal

VARIABLES
  goal,          \* the row, or NoGoal
  issued         \* the ids handed out so far: uuid_v4 does not repeat one

storeVars == <<goal, issued>>

StoreTypeOK ==
  /\ goal \in Goal \cup {NoGoal}
  /\ issued \subseteq GoalId
  /\ goal # NoGoal => goal.id \in issued

StoreInit == goal = NoGoal /\ issued = {}

-----------------------------------------------------------------------------
(* Predicates on a row. *)

IsOverBudget(g) == g.budget # NoBudget /\ g.tokens >= g.budget

(* The row lets a turn that has not completed it go on working. *)
Workable(g) == /\ g.status = "active"
               /\ ~IsOverBudget(g)
               /\ g.turns < MaxGoalTurns

(* The error an id-checked transaction on an active row meets, or "ok". *)
Owned(g, id) == IF g = NoGoal THEN "not_found"
                ELSE IF g.id # id THEN "replaced" ELSE "ok"

OwnedActive(g, id) == IF Owned(g, id) # "ok" THEN Owned(g, id)
                      ELSE IF g.status # "active" THEN "not_active" ELSE "ok"

-----------------------------------------------------------------------------
(* Transactions.  Each is enabled only where it changes the row: the       *)
(* callers model the errors with Owned and OwnedActive.                    *)

SetGoal(budget) ==
  \E id \in GoalId \ issued, now \in Stamp :
    /\ goal' = [id |-> id, status |-> "active", budget |-> budget,
                tokens |-> 0, turns |-> 0, stamp |-> now]
    /\ issued' = issued \cup {id}

WriteStatus(status) ==
  /\ \E now \in Stamp : goal' = [goal EXCEPT !.status = status, !.stamp = now]
  /\ UNCHANGED issued

(* The statement behind /goal pause and /goal resume: no condition on the  *)
(* status it replaces.                                                     *)
SetStatus(status) == goal # NoGoal /\ WriteStatus(status)

ClearGoal == goal' = NoGoal /\ UNCHANGED issued

(* Mutant of RecordCompletedTurn: the total is taken for a difference. *)
RecordDifference(id, total) ==
  /\ OwnedActive(goal, id) = "ok"
  /\ \E now \in Stamp :
       goal' = [goal EXCEPT !.tokens = @ + total, !.turns = @ + 1, !.stamp = now]
  /\ UNCHANGED issued

(* Stores an absolute total, never lowering the stored one. *)
RecordCompletedTurn(id, total) ==
  /\ OwnedActive(goal, id) = "ok"
  /\ \E now \in Stamp :
       goal' = [goal EXCEPT !.tokens = IF @ < total THEN total ELSE @,
                            !.turns = @ + 1, !.stamp = now]
  /\ UNCHANGED issued

CompleteGoal(id) == OwnedActive(goal, id) = "ok" /\ WriteStatus("complete")

PauseActiveGoal(id) == OwnedActive(goal, id) = "ok" /\ WriteStatus("paused")

BudgetLimitGoal(id) == OwnedActive(goal, id) = "ok" /\ WriteStatus("budget_limited")

=============================================================================

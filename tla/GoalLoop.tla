------------------------------- MODULE GoalLoop -------------------------------
(***************************************************************************)
(* The autonomous loop of /goal: interactive processes on one session run  *)
(* a query under a captured goal, account it, test the guards and dispatch *)
(* the next turn (query/src/goal_loop.rs, InteractiveTurn in               *)
(* cli/src/main.rs, GoalCommand in commands/src/lib.rs).                   *)
(*                                                                         *)
(* Nothing but the transactions of GoalStore is atomic: between any two    *)
(* reads or writes of one process the others may change the row.  Two      *)
(* processes are on one session when the same conversation is resumed in   *)
(* two terminals.                                                          *)
(*                                                                         *)
(* A query is its rounds: check the authority, ask the model, check again, *)
(* then end the turn, call GoalComplete, or call another tool and go on.   *)
(* How one round goes is the business of GoalTurn and QueryLoop.           *)
(***************************************************************************)
EXTENDS GoalStore, FiniteSets

CONSTANTS
  Repl,          \* interactive processes that opened the session
  MaxRounds,     \* --max-turns, requests per query
  Spend,         \* tokens one response may cost (0: usage not reported)
  Commands,      \* bound: which of "message", "set", "audit", "pause",
                 \* "resume", "clear" the user of each process gives
  Faults         \* BOOLEAN: a query may fail or be cancelled

ASSUME ReplAssumption == IsFiniteSet(Repl) /\ NoGoal \notin GoalId
ASSUME RoundsAssumption == MaxRounds \in Nat \ {0}
ASSUME SpendAssumption == Spend \subseteq Nat /\ Spend # {} /\ Faults \in BOOLEAN
ASSUME CommandAssumption ==
  Commands \in [Repl -> SUBSET {"message", "set", "audit", "pause", "resume", "clear"}]

Command == {"pausing_command", "resuming_command"}
Admission == {"capturing", "validating", "injecting", "spawning"}
Query == {"running", "streaming", "streamed", "completing"}
Accounting == {"ended", "checking", "recording", "guards", "pausing",
               "limiting", "reloading"}
PC == {"idle"} \cup Command \cup Admission \cup Query \cup Accounting

(* How the last turn of a process left it idle. *)
Report == {"none", "unaccounted", "complete", "paused", "budget_limited",
           "runaway", "error", "refused", "exhausted", "failed"}

VARIABLES
  pc,
  turn,          \* id of the goal the process's turn was captured for, or NoGoal
  receipt,       \* the row the turn completed, or NoGoal
  rounds,        \* requests the running query made
  used,          \* tracker total minus the baseline's, GoalTurnBaseline
  total,         \* total_tokens_used it decided to record
  said,          \* GoalContinuation::Stop and its reason, or NoGoal ("unaccounted")
  spent          \* history: spent[id], tokens of the turns recorded for goal id

turnVars == <<turn, receipt, rounds, used, total>>
loopVars == <<pc, said, spent, turnVars>>
vars == <<storeVars, loopVars>>

TypeOK ==
  /\ StoreTypeOK
  /\ pc \in [Repl -> PC]
  /\ turn \in [Repl -> GoalId \cup {NoGoal}]
  /\ receipt \in [Repl -> Goal \cup {NoGoal}]
  /\ rounds \in [Repl -> Nat]
  /\ used \in [Repl -> Nat]
  /\ total \in [Repl -> Nat]
  /\ said \in [Repl -> Report]
  /\ spent \in [GoalId -> Nat]

Init ==
  /\ StoreInit
  /\ pc = [r \in Repl |-> "idle"]
  /\ turn = [r \in Repl |-> NoGoal]
  /\ receipt = [r \in Repl |-> NoGoal]
  /\ rounds = [r \in Repl |-> 0]
  /\ used = [r \in Repl |-> 0]
  /\ total = [r \in Repl |-> 0]
  /\ said = [r \in Repl |-> "none"]
  /\ spent = [id \in GoalId |-> 0]

(* On to the next place; what the loop said is no longer on display.       *)
Goto(r, to) == /\ pc' = [pc EXCEPT ![r] = to]
               /\ said' = [said EXCEPT ![r] = "none"]

Step(r, to) == Goto(r, to) /\ UNCHANGED turnVars

(* The loop of r ends, drops its turn and leaves the prompt to the user.   *)
Stop(r, report) ==
  /\ pc' = [pc EXCEPT ![r] = "idle"]
  /\ said' = [said EXCEPT ![r] = report]
  /\ turn' = [turn EXCEPT ![r] = NoGoal]
  /\ receipt' = [receipt EXCEPT ![r] = NoGoal]
  /\ rounds' = [rounds EXCEPT ![r] = 0]
  /\ used' = [used EXCEPT ![r] = 0]
  /\ total' = [total EXCEPT ![r] = 0]

-----------------------------------------------------------------------------
(* What the user types at an idle prompt. *)

(* InteractiveTurn::capture or from_goal: a fresh logical turn of goal id. *)
NewTurn(r, id) ==
  /\ turn' = [turn EXCEPT ![r] = id]
  /\ receipt' = [receipt EXCEPT ![r] = NoGoal]
  /\ rounds' = [rounds EXCEPT ![r] = 0]
  /\ used' = [used EXCEPT ![r] = 0]
  /\ total' = [total EXCEPT ![r] = 0]

ActiveId == IF goal # NoGoal /\ goal.status = "active" THEN goal.id ELSE NoGoal

(* An ordinary message: whatever goal is active is captured, unchecked. *)
Message(r) ==
  /\ "message" \in Commands[r] /\ pc[r] = "idle"
  /\ Goto(r, "spawning") /\ NewTurn(r, ActiveId)
  /\ UNCHANGED <<storeVars, spent>>

SetCommand(r) ==
  /\ "set" \in Commands[r] /\ pc[r] = "idle"
  /\ \E b \in Budget \cup {NoBudget} : SetGoal(b)
  /\ Goto(r, "capturing") /\ NewTurn(r, goal'.id)
  /\ UNCHANGED spent

(* /goal complete asks the model for an audit under a captured turn. *)
AuditCommand(r) ==
  /\ "audit" \in Commands[r] /\ pc[r] = "idle" /\ ActiveId # NoGoal
  /\ Goto(r, "injecting") /\ NewTurn(r, ActiveId)
  /\ UNCHANGED <<storeVars, spent>>

(* /goal pause and /goal resume read the row, answer by its status, and    *)
(* then write the status of whatever row there is.                         *)
PauseRead(r) ==
  /\ "pause" \in Commands[r] /\ pc[r] = "idle"
  /\ goal # NoGoal /\ goal.status \notin {"complete", "paused"}
  /\ Step(r, "pausing_command") /\ UNCHANGED <<storeVars, spent>>

ResumeRead(r) ==
  /\ "resume" \in Commands[r] /\ pc[r] = "idle"
  /\ goal # NoGoal /\ goal.status \notin {"active", "complete"}
  /\ Step(r, "resuming_command") /\ UNCHANGED <<storeVars, spent>>

CommandWrite(r) ==
  /\ pc[r] \in Command /\ Stop(r, "none")
  /\ IF goal = NoGoal
     THEN UNCHANGED storeVars
     ELSE SetStatus(IF pc[r] = "pausing_command" THEN "paused" ELSE "active")
  /\ UNCHANGED spent

ClearCommand(r) ==
  /\ "clear" \in Commands[r] /\ pc[r] = "idle" /\ goal # NoGoal
  /\ ClearGoal /\ UNCHANGED loopVars

-----------------------------------------------------------------------------
(* Admission of a turn: each check is a read of its own. *)

(* Mutant of Permitted: the turn cap is not looked at. *)
PermittedUncapped(r) ==
  \/ turn[r] = NoGoal
  \/ receipt[r] # NoGoal /\ goal = receipt[r]
  \/ /\ receipt[r] = NoGoal /\ Owned(goal, turn[r]) = "ok"
     /\ goal.status = "active" /\ ~IsOverBudget(goal)

(* GoalTurnContext::validate; a turn without a goal needs no authority. *)
Permitted(r) ==
  \/ turn[r] = NoGoal
  \/ receipt[r] # NoGoal /\ goal = receipt[r]
  \/ receipt[r] = NoGoal /\ Owned(goal, turn[r]) = "ok" /\ Workable(goal)

(* One check of r's turn: on to the next place, or the turn is refused. *)
Admit(r, from, to) ==
  /\ pc[r] = from
  /\ IF Permitted(r) THEN Step(r, to) ELSE Stop(r, "refused")
  /\ UNCHANGED <<storeVars, spent>>

(* capture_goal_turn reads the row, then validates what it captured. *)
CaptureGoalTurn(r) ==
  /\ pc[r] = "capturing"
  /\ IF OwnedActive(goal, turn[r]) = "ok"
     THEN Goto(r, "validating") /\ NewTurn(r, turn[r])
     ELSE Stop(r, "error")
  /\ UNCHANGED <<storeVars, spent>>

Validate(r) == Admit(r, "validating", "injecting")

(* inject() requires work before it puts the message in the transcript. *)
Inject(r) == Admit(r, "injecting", "spawning")

Spawn(r) == Admit(r, "spawning", "running")

-----------------------------------------------------------------------------
(* The query. *)

(* "Maximum turn limit reached" is an error, not the end of a turn. *)
StartRequest(r) ==
  /\ pc[r] = "running"
  /\ CASE ~Permitted(r) -> Stop(r, "refused")
       [] Permitted(r) /\ rounds[r] = MaxRounds -> Stop(r, "exhausted")
       [] OTHER -> /\ Goto(r, "streaming")
                   /\ rounds' = [rounds EXCEPT ![r] = @ + 1]
                   /\ UNCHANGED <<turn, receipt, used, total>>
  /\ UNCHANGED <<storeVars, spent>>

Respond(r) ==
  /\ pc[r] = "streaming" /\ Goto(r, "streamed")
  /\ \E k \in Spend : used' = [used EXCEPT ![r] = @ + k]
  /\ UNCHANGED <<storeVars, spent, turn, receipt, rounds, total>>

EndTurn(r) == Admit(r, "streamed", "ended")

(* The response calls a tool.  After a completion it may not. *)
CallTool(r) == receipt[r] = NoGoal /\ Admit(r, "streamed", "running")

CallGoalComplete(r) ==
  /\ turn[r] # NoGoal /\ receipt[r] = NoGoal
  /\ Admit(r, "streamed", "completing")

Complete(r) ==
  /\ pc[r] = "completing"
  /\ IF OwnedActive(goal, turn[r]) = "ok"
     THEN /\ CompleteGoal(turn[r])
          /\ receipt' = [receipt EXCEPT ![r] = goal']
          /\ Goto(r, "running") /\ UNCHANGED <<turn, rounds, used, total>>
     ELSE Stop(r, "refused") /\ UNCHANGED storeVars
  /\ UNCHANGED spent

QueryFails(r) ==
  /\ Faults /\ pc[r] \in Query /\ Stop(r, "failed")
  /\ UNCHANGED <<storeVars, spent>>

-----------------------------------------------------------------------------
(* The turn ended: account it, test the guards, continue or stop. *)

(* InteractiveTurn::continuation reads the row to decide what to record. *)
Baseline(r) ==
  /\ pc[r] = "ended"
  /\ \/ turn[r] = NoGoal /\ Stop(r, "unaccounted")
     \/ turn[r] # NoGoal /\ Owned(goal, turn[r]) # "ok" /\ Stop(r, "error")
     \/ OwnedActive(goal, turn[r]) = "not_active" /\ Stop(r, "unaccounted")
     \/ /\ OwnedActive(goal, turn[r]) = "ok" /\ Goto(r, "checking")
        /\ total' = [total EXCEPT ![r] = goal.tokens + used[r]]
        /\ UNCHANGED <<turn, receipt, rounds, used>>
  /\ UNCHANGED <<storeVars, spent>>

(* A read that stops the loop unless the turn's goal is still active. *)
ReadStops(r) ==
  \/ Owned(goal, turn[r]) # "ok" /\ Stop(r, "error")
  \/ OwnedActive(goal, turn[r]) = "not_active" /\ Stop(r, goal.status)

(* check_and_continue_goal_after_turn reads again before it records. *)
Check(r) ==
  /\ pc[r] = "checking"
  /\ \/ ReadStops(r)
     \/ OwnedActive(goal, turn[r]) = "ok" /\ Step(r, "recording")
  /\ UNCHANGED <<storeVars, spent>>

(* Mutant of Loses: a lost race is reported as if it had been won. *)
LosesUnnoticed(r) ==
  /\ \/ /\ OwnedActive(goal, turn[r]) = "not_active"
        /\ Stop(r, IF pc[r] = "limiting" THEN "budget_limited" ELSE "runaway")
     \/ Owned(goal, turn[r]) # "ok" /\ Stop(r, "error")
  /\ UNCHANGED <<storeVars, spent>>

(* A transaction of the loop on its goal: lost races are resolved by       *)
(* reading again.                                                          *)
Loses(r) ==
  /\ \/ OwnedActive(goal, turn[r]) = "not_active" /\ Step(r, "reloading")
     \/ Owned(goal, turn[r]) # "ok" /\ Stop(r, "error")
  /\ UNCHANGED <<storeVars, spent>>

Record(r) ==
  /\ pc[r] = "recording"
  /\ \/ Loses(r)
     \/ /\ RecordCompletedTurn(turn[r], total[r])
        /\ spent' = [spent EXCEPT ![turn[r]] = @ + used[r]]
        /\ Step(r, "guards")

(* check_goal_guards on an active row: where it sends the loop. *)
Guard(g) ==
  CASE g.turns >= MaxGoalTurns -> "pausing"
    [] g.turns < MaxGoalTurns /\ IsOverBudget(g) -> "limiting"
    [] OTHER -> "capturing"

Guards(r) ==
  /\ pc[r] = "guards"
  /\ \/ ReadStops(r)
     \/ OwnedActive(goal, turn[r]) = "ok" /\ Step(r, Guard(goal))
  /\ UNCHANGED <<storeVars, spent>>

(* The automatic pause or limit. *)
Transition(r) ==
  \/ pc[r] \in {"pausing", "limiting"} /\ Loses(r)
  \/ /\ pc[r] = "pausing" /\ PauseActiveGoal(turn[r]) /\ Stop(r, "runaway")
     /\ UNCHANGED spent
  \/ /\ pc[r] = "limiting" /\ BudgetLimitGoal(turn[r]) /\ Stop(r, "budget_limited")
     /\ UNCHANGED spent

(* Mutant of Reload: a goal that is active again is guarded again. *)
ReloadRetries(r) ==
  /\ pc[r] = "reloading"
  /\ \/ ReadStops(r)
     \/ OwnedActive(goal, turn[r]) = "ok" /\ Step(r, "guards")
  /\ UNCHANGED <<storeVars, spent>>

(* reload_after_racing_transition: the race is resolved once, not again. *)
Reload(r) ==
  /\ pc[r] = "reloading"
  /\ \/ ReadStops(r)
     \/ OwnedActive(goal, turn[r]) = "ok" /\ Stop(r, "error")
  /\ UNCHANGED <<storeVars, spent>>

-----------------------------------------------------------------------------
User(r) ==
  \/ Message(r) \/ SetCommand(r) \/ AuditCommand(r)
  \/ PauseRead(r) \/ ResumeRead(r) \/ ClearCommand(r)

LoopStep(r) ==
  \/ CommandWrite(r)
  \/ CaptureGoalTurn(r) \/ Validate(r) \/ Inject(r) \/ Spawn(r)
  \/ StartRequest(r) \/ Respond(r)
  \/ EndTurn(r) \/ CallTool(r) \/ CallGoalComplete(r) \/ Complete(r) \/ QueryFails(r)
  \/ Baseline(r) \/ Check(r) \/ Record(r) \/ Guards(r) \/ Transition(r) \/ Reload(r)

Next == \E r \in Repl : User(r) \/ LoopStep(r)

Spec == Init /\ [][Next]_vars

(* The event loop and the query task keep running; users owe nothing. *)
FairSpec == Spec /\ \A r \in Repl : WF_vars(LoopStep(r))

-----------------------------------------------------------------------------
(* Properties. *)

(* MAX_GOAL_TURNS holds although the count, the guard that reads it and    *)
(* the pause are three steps: only turns already under way in the other    *)
(* processes when the cap is reached can still be recorded.                *)
TurnsBounded ==
  goal # NoGoal => goal.turns <= MaxGoalTurns + Cardinality(Repl) - 1

(* The stored total never exceeds what the recorded turns spent, whatever  *)
(* the interleaving of baseline, read and record.                          *)
NeverOvercharged == goal # NoGoal => goal.tokens <= spent[goal.id]

(* What the loop tells the user when it stops is what happened to the goal *)
(* of the turn, though the guard was decided on an earlier read.           *)
ReportsAreTrue ==
  [][\A r \in Repl : pc[r] \in Accounting /\ pc'[r] = "idle" =>
       /\ said'[r] = "runaway" =>
            /\ goal.status = "active" /\ goal'.status = "paused"
            /\ goal'.id = turn[r] /\ goal'.turns >= MaxGoalTurns
       /\ said'[r] \in GoalStatus =>
            goal'.id = turn[r] /\ goal'.status = said'[r]]_vars

(* A process that works or accounts under a turn changes no goal but the   *)
(* one it captured, and only while that goal is active: the replacement of *)
(* a goal, or its pause by the user, is never overwritten.                 *)
ActsOnOwnGoal ==
  [][\A r \in Repl : pc[r] \in Query \cup Accounting /\ pc'[r] # pc[r] /\ goal' # goal =>
       /\ goal # NoGoal /\ goal.id = turn[r] /\ goal.status = "active"]_vars

(* The autonomous loop of every process comes to an end.                   *)
LoopEnds == \A r \in Repl : pc[r] # "idle" ~> pc[r] = "idle"
=============================================================================

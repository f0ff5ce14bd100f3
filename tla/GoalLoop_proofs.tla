---------------------------- MODULE GoalLoop_proofs ----------------------------
(***************************************************************************)
(* Theorems about the autonomous loop, for any finite number of processes  *)
(* on one session, any cap, budgets, token counts and commands.            *)
(*                                                                         *)
(* The invariant is LoopInv: the types, what each process knows about the  *)
(* goal of its turn (ProcInv), and how many turns may still be recorded    *)
(* once the cap is reached (CapInv).                                       *)
(***************************************************************************)
EXTENDS GoalLoop, FiniteSetTheorems, TLAPS

USE BudgetAssumption, StampAssumption, CapAssumption, NoGoalAssumption,
    ReplAssumption, RoundsAssumption, SpendAssumption

(* The goal of the turn of r is still the goal of the session.             *)
Holds(r) == goal # NoGoal /\ turn[r] = goal.id

(* What r read, decided or started earlier still fits the row.             *)
ProcInv(r) ==
  /\ turn[r] \in issued \cup {NoGoal}
  /\ pc[r] \in {"validating", "injecting", "spawning"} => receipt[r] = NoGoal
  /\ Holds(r) /\ pc[r] \in {"checking", "recording"} => total[r] <= spent[goal.id] + used[r]
  /\ Holds(r) /\ pc[r] = "pausing" => goal.turns >= MaxGoalTurns

(* The processes past the last check of the cap before they record: from   *)
(* the end of their turn, or from the permission to complete it, on.       *)
IsPast(r) ==
  /\ Holds(r)
  /\ \/ pc[r] \in {"completing", "ended", "checking", "recording"}
     \/ pc[r] \in {"running", "streaming", "streamed"} /\ receipt[r] # NoGoal

Past == {r \in Repl : IsPast(r)}

(* At the cap only those may count another turn, each of them once.        *)
CapInv ==
  goal # NoGoal /\ goal.turns >= MaxGoalTurns =>
    goal.turns + Cardinality(Past) + 1 <= MaxGoalTurns + Cardinality(Repl)

LoopInv == TypeOK /\ (\A r \in Repl : ProcInv(r)) /\ NeverOvercharged /\ CapInv

-----------------------------------------------------------------------------
(* The row. *)

(* The row keeps its goal and its counters: at most its status changed.    *)
Kept ==
  /\ goal # NoGoal /\ goal' # NoGoal /\ goal'.id = goal.id
  /\ goal'.tokens = goal.tokens /\ goal'.turns = goal.turns
  /\ issued' = issued

(* The row is another goal, under an id nobody had.                        *)
Fresh ==
  /\ goal' # NoGoal /\ goal'.id \in GoalId \ issued /\ issued' = issued \cup {goal'.id}
  /\ goal'.tokens = 0 /\ goal'.turns = 0

Gone == goal' = NoGoal /\ issued' = issued

(* A turn of goal id was recorded with an absolute total of tokens.        *)
Counted(id, tokens) ==
  /\ goal # NoGoal /\ goal.id = id /\ goal' # NoGoal /\ goal'.id = id
  /\ goal'.turns = goal.turns + 1
  /\ goal'.tokens = IF goal.tokens < tokens THEN tokens ELSE goal.tokens
  /\ issued' = issued

(* What a row is made of.                                                  *)
LEMMA Rows == goal # NoGoal /\ StoreTypeOK =>
                /\ goal \in Goal /\ goal.id \in GoalId /\ goal.id \in issued
                /\ goal.turns \in Nat /\ goal.tokens \in Nat /\ goal.status \in GoalStatus
BY DEF StoreTypeOK, Goal

(* A new goal has an id of its own and no turn yet.                        *)
LEMMA SetMoves ==
  ASSUME StoreTypeOK, NEW b \in Budget \cup {NoBudget}, SetGoal(b)
  PROVE  StoreTypeOK' /\ Fresh
BY DEF StoreTypeOK, Goal, GoalStatus, SetGoal, Fresh

(* Writing a status keeps the goal and its counters.                       *)
LEMMA StatusMoves ==
  ASSUME StoreTypeOK, goal # NoGoal, NEW s \in GoalStatus, WriteStatus(s)
  PROVE  StoreTypeOK' /\ Kept /\ goal'.status = s /\ goal' \in Goal
<1>1. PICK now \in Stamp : goal' = [goal EXCEPT !.status = s, !.stamp = now]
  BY DEF WriteStatus
<1>2. goal \in Goal /\ issued' = issued
  BY Rows DEF WriteStatus
<1>3. goal' \in Goal /\ goal'.status = s /\ goal'.id = goal.id
      /\ goal'.tokens = goal.tokens /\ goal'.turns = goal.turns
  BY <1>1, <1>2 DEF Goal
<1>4. QED
  BY <1>2, <1>3, NoGoalAssumption DEF StoreTypeOK, Kept

(* Recording a turn adds one to its goal, and never lowers the tokens.     *)
LEMMA RecordMoves ==
  ASSUME StoreTypeOK, NEW id, NEW tokens \in Nat, RecordCompletedTurn(id, tokens)
  PROVE  StoreTypeOK' /\ Counted(id, tokens)
<1>1. PICK now \in Stamp :
        goal' = [goal EXCEPT !.tokens = IF @ < tokens THEN tokens ELSE @,
                             !.turns = @ + 1, !.stamp = now]
  BY DEF RecordCompletedTurn
<1>2. goal # NoGoal /\ goal \in Goal /\ goal.id = id /\ issued' = issued
  BY Rows DEF RecordCompletedTurn, OwnedActive, Owned
<1> DEFINE k == IF goal.tokens < tokens THEN tokens ELSE goal.tokens
           n == goal.turns + 1
<1>3. k \in Nat /\ n \in Nat
  BY <1>2 DEF Goal
<1>4. goal' = [goal EXCEPT !.tokens = k, !.turns = n, !.stamp = now]
  BY <1>1, <1>2
<1> HIDE DEF k, n
<1>5. goal' \in Goal /\ goal'.id = id /\ goal'.turns = n /\ goal'.tokens = k
  BY <1>2, <1>3, <1>4 DEF Goal
<1>6. goal' # NoGoal
  BY <1>5, NoGoalAssumption
<1>7. StoreTypeOK'
  BY <1>2, <1>5 DEF StoreTypeOK
<1>8. QED
  BY <1>2, <1>5, <1>6, <1>7 DEF Counted, k, n

-----------------------------------------------------------------------------
(* The processes. *)

ProcTypes ==
  /\ pc \in [Repl -> PC] /\ said \in [Repl -> Report]
  /\ turn \in [Repl -> GoalId \cup {NoGoal}] /\ receipt \in [Repl -> Goal \cup {NoGoal}]
  /\ rounds \in [Repl -> Nat] /\ used \in [Repl -> Nat] /\ total \in [Repl -> Nat]

(* A step of r leaves the other processes where they are.                  *)
OthersStay(r) ==
  \A q \in Repl : q # r =>
    /\ pc'[q] = pc[q] /\ turn'[q] = turn[q] /\ receipt'[q] = receipt[q]
    /\ used'[q] = used[q] /\ total'[q] = total[q]

(* A move of the program counter of r.                                     *)
LEMMA GotoMoves ==
  ASSUME ProcTypes, NEW r \in Repl, NEW to \in PC, Goto(r, to)
  PROVE  /\ pc' \in [Repl -> PC] /\ said' \in [Repl -> Report]
         /\ pc'[r] = to /\ \A q \in Repl : q # r => pc'[q] = pc[q]
BY DEF ProcTypes, Goto, Report

(* A step of r that keeps what it knows of its turn.                       *)
LEMMA StepMoves ==
  ASSUME ProcTypes, NEW r \in Repl, NEW to \in PC, Step(r, to)
  PROVE  /\ ProcTypes' /\ OthersStay(r) /\ pc'[r] = to
         /\ UNCHANGED <<turn, receipt, used, total>>
BY GotoMoves DEF ProcTypes, Step, OthersStay, turnVars

(* A stop of r ends its turn with a report.                                *)
LEMMA StopMoves ==
  ASSUME ProcTypes, NEW r \in Repl, NEW report \in Report, Stop(r, report)
  PROVE  /\ ProcTypes' /\ OthersStay(r) /\ pc'[r] = "idle" /\ turn'[r] = NoGoal
         /\ said'[r] = report
<1>1. "idle" \in PC
  BY DEF PC
<1>2. QED
  BY <1>1 DEF ProcTypes, Stop, OthersStay

(* A turn that begins has no receipt.                                      *)
LEMMA NewTurnMoves ==
  ASSUME ProcTypes, NEW r \in Repl, NEW to \in PC, Goto(r, to),
         NEW id \in GoalId \cup {NoGoal}, NewTurn(r, id)
  PROVE  /\ ProcTypes' /\ OthersStay(r) /\ pc'[r] = to /\ turn'[r] = id
         /\ receipt'[r] = NoGoal
<1>1. /\ turn' \in [Repl -> GoalId \cup {NoGoal}] /\ receipt' \in [Repl -> Goal \cup {NoGoal}]
      /\ rounds' \in [Repl -> Nat] /\ used' \in [Repl -> Nat] /\ total' \in [Repl -> Nat]
  BY DEF ProcTypes, NewTurn
<1>2. \A q \in Repl : q # r =>
        /\ turn'[q] = turn[q] /\ receipt'[q] = receipt[q]
        /\ used'[q] = used[q] /\ total'[q] = total[q]
  BY DEF ProcTypes, NewTurn
<1>3. turn'[r] = id /\ receipt'[r] = NoGoal
  BY DEF ProcTypes, NewTurn
<1>4. QED
  BY <1>1, <1>2, <1>3, GotoMoves DEF ProcTypes, OthersStay

(* What a step of r does to the row and to the tokens recorded for it.     *)
Writes(r) ==
  \/ UNCHANGED spent /\ (UNCHANGED storeVars \/ Kept \/ Fresh \/ Gone)
  \/ /\ pc[r] = "recording" /\ pc'[r] = "guards" /\ Holds(r)
     /\ Counted(goal.id, total[r])
     /\ spent' = [spent EXCEPT ![goal.id] = @ + used[r]]

(* Nobody goes past the last check when the cap is reached, nor under a    *)
(* goal that is new.                                                       *)
CapChecked(r) ==
  IsPast(r)' => ~Fresh /\ (goal # NoGoal /\ goal.turns >= MaxGoalTurns => IsPast(r))

(* A step of r keeps the types, what r knows and the cap.                  *)
Good(r) ==
  /\ StoreTypeOK' /\ ProcTypes' /\ spent' \in [GoalId -> Nat]
  /\ OthersStay(r) /\ Writes(r) /\ ProcInv(r)' /\ CapChecked(r)

(* When the loop of r stops, its turn is gone.                             *)
LEMMA StopGood ==
  ASSUME TypeOK, NEW r \in Repl, NEW report \in Report, Stop(r, report), UNCHANGED spent,
         StoreTypeOK', UNCHANGED storeVars \/ Kept \/ Fresh \/ Gone
  PROVE  Good(r)
<1>1. ProcTypes' /\ OthersStay(r) /\ pc'[r] = "idle" /\ turn'[r] = NoGoal
  BY StopMoves DEF TypeOK, ProcTypes
<1>2. ~Holds(r)'
  BY <1>1 DEF Holds, StoreTypeOK, Goal
<1>3. ProcInv(r)' /\ CapChecked(r)
  BY <1>1, <1>2 DEF ProcInv, CapChecked, IsPast
<1>4. QED
  BY <1>1, <1>3 DEF Good, Writes, TypeOK

(* When r only moves on, what it must know depends on where it goes.       *)
LEMMA StepGood ==
  ASSUME TypeOK, NEW r \in Repl, ProcInv(r), NEW to \in PC, Step(r, to),
         UNCHANGED <<storeVars, spent>>,
         to \in {"validating", "injecting", "spawning"} => receipt[r] = NoGoal,
         to = "checking" => pc[r] = "checking", to = "recording" => pc[r] = "checking",
         to = "pausing" => Holds(r) /\ goal.turns >= MaxGoalTurns,
         CapChecked(r)
  PROVE  Good(r)
<1>1. ProcTypes' /\ OthersStay(r) /\ pc'[r] = to /\ UNCHANGED <<turn, receipt, used, total>>
  BY StepMoves DEF TypeOK, ProcTypes
<1>2. StoreTypeOK' /\ UNCHANGED <<goal, issued, spent>> /\ spent' \in [GoalId -> Nat]
  BY DEF TypeOK, StoreTypeOK, storeVars
<1>3. ProcInv(r)'
  BY <1>1, <1>2 DEF ProcInv, Holds
<1>4. QED
  BY <1>1, <1>2, <1>3 DEF Good, Writes, storeVars

(* A new turn starts before the checks, and without a receipt.             *)
LEMMA NewTurnGood ==
  ASSUME TypeOK, NEW r \in Repl, NEW to \in {"capturing", "validating", "injecting", "spawning"},
         Goto(r, to), NEW id \in GoalId \cup {NoGoal}, NewTurn(r, id), id \in issued' \cup {NoGoal},
         UNCHANGED spent, StoreTypeOK', UNCHANGED storeVars \/ Fresh
  PROVE  Good(r)
<1>1. ProcTypes' /\ OthersStay(r) /\ pc'[r] = to /\ turn'[r] = id /\ receipt'[r] = NoGoal
  BY NewTurnMoves DEF TypeOK, ProcTypes, PC, Admission
<1>2. ProcInv(r)' /\ CapChecked(r)
  BY <1>1 DEF ProcInv, CapChecked, IsPast
<1>3. QED
  BY <1>1, <1>2 DEF Good, Writes, TypeOK

(* The reports that the steps make are reports.                            *)
LEMMA ReportsKnown ==
  {"none", "unaccounted", "complete", "paused", "budget_limited",
   "runaway", "error", "refused", "exhausted", "failed"} \subseteq Report
BY DEF Report

(* A check of the authority, towards a place that needs nothing, or the    *)
(* last one, which a turn without a receipt passes below the cap only.     *)
LEMMA AdmitGood ==
  ASSUME TypeOK, NEW r \in Repl, ProcInv(r), NEW from, NEW to, Admit(r, from, to),
         \/ from = "validating" /\ to = "injecting"
         \/ from = "injecting" /\ to = "spawning"
         \/ from = "spawning" /\ to = "running"
         \/ from = "streamed" /\ to \in {"ended", "running", "completing"}
  PROVE  Good(r)
<1>0. UNCHANGED <<storeVars, spent>> /\ pc[r] = from /\ StoreTypeOK'
  BY DEF Admit, TypeOK, StoreTypeOK, storeVars
<1>1. CASE ~Permitted(r)
  BY <1>0, <1>1, StopGood, ReportsKnown DEF Admit
<1>2. CASE Permitted(r)
  <2>1. Step(r, to) /\ to \in PC
    BY <1>2 DEF Admit, PC, Admission, Query, Accounting
  <2>2. pc'[r] = to /\ UNCHANGED <<turn, receipt, goal>>
    BY <1>0, <2>1, StepMoves DEF TypeOK, ProcTypes, storeVars
  <2>3. ASSUME IsPast(r)', goal # NoGoal, goal.turns >= MaxGoalTurns PROVE IsPast(r)
    <3>1. Holds(r)
      BY <2>2, <2>3 DEF IsPast, Holds
    <3>2. CASE receipt[r] # NoGoal
      BY <1>0, <2>2, <2>3, <3>1, <3>2 DEF IsPast, ProcInv
    <3>3. CASE receipt[r] = NoGoal
      <4>1. turn[r] # NoGoal
        BY <3>1, Rows DEF Holds, TypeOK
      <4>2. Workable(goal)
        BY <1>2, <3>3, <4>1 DEF Permitted
      <4>3. QED
        BY <2>3, <4>2, Rows DEF Workable, TypeOK
    <3>4. QED
      BY <3>2, <3>3
  <2>4. CapChecked(r)
    BY <1>0, <2>3 DEF CapChecked, Fresh, storeVars, TypeOK, StoreTypeOK
  <2>5. QED
    BY <1>0, <2>1, <2>4, StepGood DEF ProcInv
<1>3. QED
  BY <1>1, <1>2

-----------------------------------------------------------------------------
(* One lemma per group of actions. *)

(* The user's messages and commands. *)
LEMMA UserGood ==
  ASSUME TypeOK, NEW r \in Repl, ProcInv(r), User(r) \/ CommandWrite(r)
  PROVE  Good(r)
<1>1. ActiveId \in GoalId \cup {NoGoal} /\ ActiveId \in issued \cup {NoGoal}
  BY Rows DEF ActiveId, TypeOK
<1>2. CASE Message(r) \/ AuditCommand(r)
  <2>1. UNCHANGED <<storeVars, spent>> /\ StoreTypeOK' /\ issued' = issued
    BY <1>2 DEF Message, AuditCommand, TypeOK, StoreTypeOK, storeVars
  <2>2. PICK to \in {"spawning", "injecting"} : Goto(r, to) /\ NewTurn(r, ActiveId)
    BY <1>2 DEF Message, AuditCommand
  <2>3. QED
    BY <1>1, <2>1, <2>2, NewTurnGood
<1>3. CASE SetCommand(r)
  <2>1. StoreTypeOK' /\ Fresh
    BY <1>3, SetMoves DEF SetCommand, TypeOK
  <2>2. goal'.id \in GoalId /\ goal'.id \in issued'
    BY <2>1 DEF Fresh
  <2>3. QED
    BY <1>3, <2>1, <2>2, NewTurnGood DEF SetCommand
<1>4. CASE PauseRead(r) \/ ResumeRead(r)
  <2>1. UNCHANGED <<storeVars, spent>>
    BY <1>4 DEF PauseRead, ResumeRead
  <2>2. PICK to \in Command : Step(r, to)
    BY <1>4 DEF PauseRead, ResumeRead, Command
  <2>3. to \in PC /\ pc'[r] = to
    BY <2>2, StepMoves DEF PC, TypeOK, ProcTypes
  <2>4. CapChecked(r)
    BY <2>2, <2>3 DEF CapChecked, IsPast, Command
  <2>5. QED
    BY <2>1, <2>2, <2>3, <2>4, StepGood DEF Command
<1>5. CASE ClearCommand(r)
  <2>1. Gone /\ StoreTypeOK' /\ UNCHANGED loopVars
    BY <1>5 DEF ClearCommand, ClearGoal, Gone, TypeOK, StoreTypeOK
  <2>2. ~Holds(r)'
    BY <2>1 DEF Gone, Holds
  <2>3. ProcInv(r)' /\ CapChecked(r)
    BY <2>1, <2>2 DEF ProcInv, CapChecked, IsPast, Gone, loopVars, turnVars
  <2>4. QED
    BY <2>1, <2>3 DEF Good, Writes, ProcTypes, OthersStay, loopVars, turnVars, TypeOK
<1>6. CASE CommandWrite(r)
  <2>1. StoreTypeOK' /\ (UNCHANGED storeVars \/ Kept)
    <3>1. CASE goal = NoGoal
      BY <1>6, <3>1 DEF CommandWrite, TypeOK, StoreTypeOK, storeVars
    <3>2. CASE goal # NoGoal
      <4>1. PICK s \in {"paused", "active"} : WriteStatus(s)
        BY <1>6, <3>2 DEF CommandWrite, SetStatus
      <4>2. QED
        BY <3>2, <4>1, StatusMoves DEF TypeOK, GoalStatus
    <3>3. QED
      BY <3>1, <3>2
  <2>2. QED
    BY <1>6, <2>1, StopGood, ReportsKnown DEF CommandWrite
<1>7. QED
  BY <1>2, <1>3, <1>4, <1>5, <1>6 DEF User

(* Admission and the query. *)
LEMMA QueryGood ==
  ASSUME TypeOK, NEW r \in Repl, ProcInv(r),
         \/ CaptureGoalTurn(r) \/ Validate(r) \/ Inject(r) \/ Spawn(r)
         \/ StartRequest(r) \/ Respond(r) \/ EndTurn(r) \/ CallTool(r)
         \/ CallGoalComplete(r) \/ Complete(r) \/ QueryFails(r)
  PROVE  Good(r)
<1>0. ProcTypes /\ StoreTypeOK
  BY DEF TypeOK, ProcTypes
<1>1. CASE Validate(r) \/ Inject(r) \/ Spawn(r) \/ EndTurn(r) \/ CallTool(r) \/ CallGoalComplete(r)
  BY <1>1, AdmitGood DEF Validate, Inject, Spawn, EndTurn, CallTool, CallGoalComplete
<1>2. ASSUME UNCHANGED <<storeVars, spent>>, NEW report \in Report, Stop(r, report)
      PROVE  Good(r)
  <2>1. StoreTypeOK'
    BY <1>2 DEF TypeOK, StoreTypeOK, storeVars
  <2>2. QED
    BY <1>2, <2>1, StopGood
<1>3. CASE QueryFails(r)
  BY <1>2, <1>3, ReportsKnown DEF QueryFails
<1>4. CASE CaptureGoalTurn(r)
  <2>1. CASE OwnedActive(goal, turn[r]) = "ok"
    <3>1. turn[r] \in GoalId \cup {NoGoal} /\ turn[r] \in issued \cup {NoGoal}
      BY DEF TypeOK, ProcInv
    <3>2. UNCHANGED <<storeVars, spent>> /\ StoreTypeOK' /\ issued' = issued
      BY <1>4 DEF CaptureGoalTurn, TypeOK, StoreTypeOK, storeVars
    <3>3. QED
      BY <1>4, <2>1, <3>1, <3>2, NewTurnGood DEF CaptureGoalTurn
  <2>2. CASE OwnedActive(goal, turn[r]) # "ok"
    BY <1>2, <1>4, <2>2, ReportsKnown DEF CaptureGoalTurn
  <2>3. QED
    BY <2>1, <2>2
<1>5. CASE StartRequest(r)
  <2>1. UNCHANGED <<goal, issued, spent>> /\ pc[r] = "running"
    BY <1>5 DEF StartRequest, storeVars
  <2>2. CASE ~Permitted(r) \/ rounds[r] = MaxRounds
    BY <1>2, <1>5, <2>2, ReportsKnown DEF StartRequest
  <2>3. CASE Permitted(r) /\ rounds[r] # MaxRounds
    <3>1. /\ Goto(r, "streaming") /\ rounds' = [rounds EXCEPT ![r] = @ + 1]
          /\ UNCHANGED <<turn, receipt, used, total>>
      BY <1>5, <2>3 DEF StartRequest
    <3>2. pc'[r] = "streaming" /\ OthersStay(r) /\ ProcTypes'
      BY <1>0, <3>1, GotoMoves DEF ProcTypes, OthersStay, PC, Query
    <3>3. ProcInv(r)' /\ CapChecked(r)
      BY <1>0, <2>1, <3>1, <3>2 DEF ProcInv, CapChecked, IsPast, Holds, Fresh, StoreTypeOK
    <3>4. QED
      BY <2>1, <3>2, <3>3 DEF Good, Writes, TypeOK, StoreTypeOK, storeVars
  <2>4. QED
    BY <2>2, <2>3
<1>6. CASE Respond(r)
  <2>1. UNCHANGED <<goal, issued, spent>> /\ pc[r] = "streaming"
    BY <1>6 DEF Respond, storeVars
  <2>2. PICK k \in Spend : used' = [used EXCEPT ![r] = @ + k]
    BY <1>6 DEF Respond
  <2>3. Goto(r, "streamed") /\ UNCHANGED <<turn, receipt, rounds, total>>
    BY <1>6 DEF Respond
  <2>4. pc'[r] = "streamed" /\ OthersStay(r) /\ ProcTypes'
    <3>1. used' \in [Repl -> Nat] /\ \A q \in Repl : q # r => used'[q] = used[q]
      BY <1>0, <2>2 DEF ProcTypes
    <3>2. QED
      BY <1>0, <2>3, <3>1, GotoMoves DEF ProcTypes, OthersStay, PC, Query
  <2>5. ProcInv(r)' /\ CapChecked(r)
    BY <1>0, <2>1, <2>3, <2>4 DEF ProcInv, CapChecked, IsPast, Holds, Fresh, StoreTypeOK
  <2>6. QED
    BY <2>1, <2>4, <2>5 DEF Good, Writes, TypeOK, StoreTypeOK, storeVars
<1>7. CASE Complete(r)
  <2>1. CASE OwnedActive(goal, turn[r]) # "ok"
    BY <1>2, <1>7, <2>1, ReportsKnown DEF Complete
  <2>2. CASE OwnedActive(goal, turn[r]) = "ok"
    <3>1. goal # NoGoal /\ WriteStatus("complete") /\ pc[r] = "completing" /\ UNCHANGED spent
      BY <1>7, <2>2 DEF Complete, CompleteGoal, OwnedActive, Owned
    <3>2. Holds(r)
      BY <2>2 DEF OwnedActive, Owned, Holds
    <3>3. StoreTypeOK' /\ Kept /\ goal' \in Goal
      BY <1>0, <3>1, StatusMoves DEF GoalStatus
    <3>4. /\ receipt' = [receipt EXCEPT ![r] = goal'] /\ Goto(r, "running")
          /\ UNCHANGED <<turn, rounds, used, total>>
      BY <1>7, <2>2 DEF Complete
    <3>5. pc'[r] = "running" /\ OthersStay(r) /\ ProcTypes'
      BY <1>0, <3>3, <3>4, GotoMoves DEF ProcTypes, OthersStay, PC, Query
    <3>6. IsPast(r) /\ ~Fresh
      BY <1>0, <3>1, <3>2, <3>3, Rows DEF IsPast, Kept, Fresh
    <3>7. ProcInv(r)' /\ CapChecked(r)
      BY <3>3, <3>4, <3>5, <3>6 DEF ProcInv, CapChecked, Kept
    <3>8. QED
      BY <3>1, <3>3, <3>5, <3>7 DEF Good, Writes, TypeOK
  <2>3. QED
    BY <2>1, <2>2
<1>8. QED
  BY <1>1, <1>3, <1>4, <1>5, <1>6, <1>7

(* The accounting of a turn. *)
LEMMA AccountGood ==
  ASSUME TypeOK, NEW r \in Repl, ProcInv(r), NeverOvercharged,
         \/ Baseline(r) \/ Check(r) \/ Record(r) \/ Guards(r) \/ Transition(r) \/ Reload(r)
  PROVE  Good(r)
<1>0. ProcTypes /\ StoreTypeOK /\ spent \in [GoalId -> Nat]
  BY DEF TypeOK, ProcTypes
<1>1. ASSUME UNCHANGED <<storeVars, spent>>, NEW report \in Report, Stop(r, report)
      PROVE  Good(r)
  <2>1. StoreTypeOK'
    BY <1>0, <1>1 DEF StoreTypeOK, storeVars
  <2>2. QED
    BY <1>1, <2>1, StopGood
<1>2. ASSUME UNCHANGED <<storeVars, spent>>, ReadStops(r) PROVE Good(r)
  <2>1. OwnedActive(goal, turn[r]) = "not_active" => goal.status \in Report
    BY <1>0, Rows DEF OwnedActive, Owned, GoalStatus, Report
  <2>2. QED
    BY <1>1, <1>2, <2>1, ReportsKnown DEF ReadStops
<1>3. ASSUME UNCHANGED <<storeVars, spent>>, NEW to \in PC, Step(r, to),
             to \notin {"validating", "injecting", "spawning", "checking",
                        "completing", "ended", "running", "streaming", "streamed"},
             to = "recording" => pc[r] = "checking",
             to = "pausing" => Holds(r) /\ goal.turns >= MaxGoalTurns
      PROVE  Good(r)
  <2>1. pc'[r] = to /\ UNCHANGED <<turn, receipt, goal, issued>>
    BY <1>0, <1>3, StepMoves DEF storeVars
  <2>2. CapChecked(r)
    BY <1>0, <1>3, <2>1 DEF CapChecked, IsPast, Holds, Fresh, StoreTypeOK
  <2>3. QED
    BY <1>3, <2>2, StepGood
<1>4. OwnedActive(goal, turn[r]) = "ok" => Holds(r)
  BY DEF OwnedActive, Owned, Holds
<1>5. CASE Baseline(r)
  <2>1. UNCHANGED <<goal, issued, spent>> /\ pc[r] = "ended"
    BY <1>5 DEF Baseline, storeVars
  <2>2. CASE Stop(r, "unaccounted") \/ Stop(r, "error")
    BY <1>1, <2>1, <2>2, ReportsKnown DEF storeVars
  <2>3. CASE /\ OwnedActive(goal, turn[r]) = "ok" /\ Goto(r, "checking")
             /\ total' = [total EXCEPT ![r] = goal.tokens + used[r]]
             /\ UNCHANGED <<turn, receipt, rounds, used>>
    <3>1. Holds(r) /\ goal.tokens \in Nat /\ goal.id \in GoalId /\ used[r] \in Nat
      BY <1>0, <1>4, <2>3, Rows DEF Holds, ProcTypes
    <3>2. pc'[r] = "checking" /\ OthersStay(r) /\ ProcTypes'
      <4>1. total' \in [Repl -> Nat] /\ \A q \in Repl : q # r => total'[q] = total[q]
        BY <1>0, <2>3, <3>1 DEF ProcTypes
      <4>2. QED
        BY <1>0, <2>3, <4>1, GotoMoves DEF ProcTypes, OthersStay, PC, Accounting
    <3>3. total'[r] = goal.tokens + used[r]
      BY <1>0, <2>3 DEF ProcTypes
    <3>4. total'[r] <= spent[goal.id] + used[r]
      BY <1>0, <3>1, <3>3 DEF NeverOvercharged, Holds
    <3>5. ProcInv(r)' /\ CapChecked(r)
      BY <1>0, <2>1, <2>3, <3>1, <3>2, <3>4
      DEF ProcInv, CapChecked, IsPast, Holds, Fresh, StoreTypeOK
    <3>6. QED
      BY <1>0, <2>1, <3>2, <3>5 DEF Good, Writes, StoreTypeOK, storeVars
  <2>4. QED
    BY <1>5, <2>2, <2>3 DEF Baseline
<1>6. CASE Check(r)
  <2>1. UNCHANGED <<storeVars, spent>> /\ pc[r] = "checking" /\ "recording" \in PC
    BY <1>6 DEF Check, PC, Accounting
  <2>2. QED
    BY <1>2, <1>3, <1>6, <2>1 DEF Check
<1>7. ASSUME Loses(r) PROVE Good(r)
  <2>1. UNCHANGED <<storeVars, spent>> /\ "reloading" \in PC
    BY <1>7 DEF Loses, PC, Accounting
  <2>2. QED
    BY <1>1, <1>3, <1>7, <2>1, ReportsKnown DEF Loses
<1>8. CASE Record(r)
  <2>1. CASE Loses(r)
    BY <1>7, <2>1
  <2>2. CASE /\ RecordCompletedTurn(turn[r], total[r])
             /\ spent' = [spent EXCEPT ![turn[r]] = @ + used[r]]
             /\ Step(r, "guards")
    <3>1. /\ Holds(r) /\ pc[r] = "recording" /\ total[r] \in Nat /\ used[r] \in Nat
          /\ goal.id \in GoalId /\ turn[r] = goal.id
      BY <1>0, <1>4, <1>8, <2>2, Rows DEF Record, RecordCompletedTurn, ProcTypes, Holds
    <3>2. StoreTypeOK' /\ Counted(goal.id, total[r])
      BY <1>0, <2>2, <3>1, RecordMoves
    <3>3. /\ ProcTypes' /\ OthersStay(r) /\ pc'[r] = "guards"
          /\ UNCHANGED <<turn, receipt, used, total>>
      BY <1>0, <2>2, StepMoves DEF PC, Accounting
    <3>4. spent' \in [GoalId -> Nat] /\ spent' = [spent EXCEPT ![goal.id] = @ + used[r]]
      BY <1>0, <2>2, <3>1
    <3>5. ProcInv(r)' /\ CapChecked(r)
      BY <3>2, <3>3 DEF ProcInv, CapChecked, IsPast, Counted
    <3>6. QED
      BY <3>1, <3>2, <3>3, <3>4, <3>5 DEF Good, Writes
  <2>3. QED
    BY <1>8, <2>1, <2>2 DEF Record
<1>9. CASE Guards(r)
  <2>1. UNCHANGED <<storeVars, spent>>
    BY <1>9 DEF Guards
  <2>2. CASE ReadStops(r)
    BY <1>2, <2>1, <2>2
  <2>3. CASE OwnedActive(goal, turn[r]) = "ok" /\ Step(r, Guard(goal))
    <3>1. /\ Guard(goal) \in {"pausing", "limiting", "capturing"}
          /\ Guard(goal) = "pausing" => goal.turns >= MaxGoalTurns
      BY DEF Guard
    <3>2. Guard(goal) \in PC
      BY <3>1 DEF PC, Admission, Accounting
    <3>3. QED
      BY <1>3, <1>4, <2>1, <2>3, <3>1, <3>2
  <2>4. QED
    BY <1>9, <2>2, <2>3 DEF Guards
<1>10. CASE Transition(r)
  <2>1. CASE Loses(r)
    BY <1>7, <2>1
  <2>2. ASSUME NEW s \in {"paused", "budget_limited"}, NEW report \in Report,
               OwnedActive(goal, turn[r]) = "ok", WriteStatus(s), Stop(r, report), UNCHANGED spent
        PROVE  Good(r)
    <3>1. StoreTypeOK' /\ Kept
      BY <1>0, <1>4, <2>2, StatusMoves DEF Holds, GoalStatus
    <3>2. QED
      BY <2>2, <3>1, StopGood
  <2>3. QED
    BY <1>10, <2>1, <2>2, ReportsKnown DEF Transition, PauseActiveGoal, BudgetLimitGoal
<1>11. CASE Reload(r)
  BY <1>1, <1>2, <1>11, ReportsKnown DEF Reload
<1>12. QED
  BY <1>5, <1>6, <1>8, <1>9, <1>10, <1>11

-----------------------------------------------------------------------------
(* The invariant. *)

(* What the other processes know survives whatever r writes.               *)
LEMMA OthersKnow ==
  ASSUME TypeOK, NEW r \in Repl, Good(r), NEW q \in Repl, q # r, ProcInv(q)
  PROVE  /\ ProcInv(q)'
         /\ IsPast(q)' => goal # NoGoal /\ goal'.id = goal.id /\ IsPast(q)
<1>0. /\ turn'[q] = turn[q] /\ pc'[q] = pc[q] /\ receipt'[q] = receipt[q]
      /\ total'[q] = total[q] /\ used'[q] = used[q]
      /\ total[q] \in Nat /\ used[q] \in Nat /\ turn[q] \in issued \cup {NoGoal}
  BY DEF Good, OthersStay, TypeOK, ProcInv
<1>1. CASE UNCHANGED spent /\ (UNCHANGED storeVars \/ Kept)
  <2>1. issued' = issued /\ Holds(q)' = Holds(q)
    BY <1>0, <1>1 DEF Holds, Kept, storeVars
  <2>2. Holds(q) => goal # NoGoal /\ goal'.id = goal.id /\ goal'.turns = goal.turns
    BY <1>1 DEF Holds, Kept, storeVars
  <2>3. QED
    BY <1>0, <1>1, <2>1, <2>2 DEF ProcInv, IsPast
<1>2. CASE UNCHANGED spent /\ (Fresh \/ Gone)
  <2>1. ~Holds(q)' /\ issued \subseteq issued'
    BY <1>0, <1>2 DEF Holds, Fresh, Gone, TypeOK, StoreTypeOK
  <2>2. QED
    BY <1>0, <2>1 DEF ProcInv, IsPast
<1>3. CASE /\ Holds(r) /\ Counted(goal.id, total[r])
           /\ spent' = [spent EXCEPT ![goal.id] = @ + used[r]]
  <2>1. /\ goal # NoGoal /\ goal'.id = goal.id /\ goal.id \in GoalId
        /\ goal'.turns = goal.turns + 1 /\ goal.turns \in Nat /\ issued' = issued
    BY <1>3, Rows DEF Counted, TypeOK
  <2>2. Holds(q)' = Holds(q)
    BY <1>0, <1>3, <2>1 DEF Holds, Counted
  <2>3. spent'[goal.id] = spent[goal.id] + used[r] /\ used[r] \in Nat /\ spent[goal.id] \in Nat
    BY <1>3, <2>1 DEF TypeOK
  <2>4. total[q] <= spent[goal.id] + used[q] => total[q] <= spent'[goal.id] + used[q]
    BY <1>0, <2>3
  <2>5. goal.turns >= MaxGoalTurns => goal'.turns >= MaxGoalTurns
    BY <2>1, CapAssumption
  <2>6. QED
    BY <1>0, <2>1, <2>2, <2>4, <2>5 DEF ProcInv, IsPast
<1>4. QED
  BY <1>1, <1>2, <1>3 DEF Good, Writes

(* The stored total is covered by what the recorded turns spent.           *)
LEMMA ChargeStep ==
  ASSUME TypeOK, NEW r \in Repl, Good(r), ProcInv(r), NeverOvercharged
  PROVE  NeverOvercharged'
<1>0. spent \in [GoalId -> Nat]
  BY DEF TypeOK
<1>1. CASE UNCHANGED spent /\ (UNCHANGED storeVars \/ Kept \/ Gone)
  BY <1>1 DEF NeverOvercharged, Kept, Gone, storeVars
<1>2. CASE UNCHANGED spent /\ Fresh
  BY <1>0, <1>2 DEF NeverOvercharged, Fresh
<1>3. CASE /\ pc[r] = "recording" /\ Holds(r) /\ Counted(goal.id, total[r])
           /\ spent' = [spent EXCEPT ![goal.id] = @ + used[r]]
  <2>1. /\ goal # NoGoal /\ goal.id \in GoalId /\ goal.tokens \in Nat
        /\ used[r] \in Nat /\ total[r] \in Nat /\ spent[goal.id] \in Nat
    BY <1>0, <1>3, Rows DEF Holds, TypeOK
  <2>2. total[r] <= spent[goal.id] + used[r] /\ goal.tokens <= spent[goal.id]
    BY <1>3, <2>1 DEF ProcInv, NeverOvercharged
  <2>3. spent'[goal.id] = spent[goal.id] + used[r]
    BY <1>0, <1>3, <2>1
  <2>4. goal'.id = goal.id /\ (goal'.tokens = goal.tokens \/ goal'.tokens = total[r])
    BY <1>3 DEF Counted
  <2>5. goal'.tokens <= spent'[goal.id]
    BY <2>1, <2>2, <2>3, <2>4
  <2>6. QED
    BY <2>4, <2>5 DEF NeverOvercharged
<1>4. QED
  BY <1>1, <1>2, <1>3 DEF Good, Writes

(* The room left at the cap is never exceeded: a recorded turn leaves it.  *)
LEMMA CapStep ==
  ASSUME TypeOK, NEW r \in Repl, Good(r), \A q \in Repl : ProcInv(q), CapInv
  PROVE  CapInv'
<1> SUFFICES ASSUME goal' # NoGoal, goal'.turns >= MaxGoalTurns
             PROVE  goal'.turns + Cardinality(Past') + 1 <= MaxGoalTurns + Cardinality(Repl)
  BY DEF CapInv
<1>0. /\ IsFiniteSet(Repl) /\ Cardinality(Repl) \in Nat
      /\ Past \subseteq Repl /\ Past' \subseteq Repl
      /\ IsFiniteSet(Past) /\ IsFiniteSet(Past')
      /\ Cardinality(Past) \in Nat /\ Cardinality(Past') \in Nat
  BY ReplAssumption, FS_CardinalityType, FS_Subset DEF Past
<1>1. Cardinality(Repl \ {r}) = Cardinality(Repl) - 1 /\ IsFiniteSet(Repl \ {r})
  BY <1>0, FS_RemoveElement
<1>2. \A q \in Repl : q # r /\ IsPast(q)' => goal # NoGoal /\ goal'.id = goal.id /\ IsPast(q)
  BY OthersKnow
<1>3. CASE Fresh
  <2>1. \A q \in Repl : ~IsPast(q)'
    BY <1>2, <1>3 DEF Fresh, Good, CapChecked, TypeOK, StoreTypeOK
  <2>2. Past' = {}
    BY <2>1 DEF Past
  <2>3. goal'.turns = 0 /\ MaxGoalTurns = 0
    BY <1>3, CapAssumption DEF Fresh
  <2>4. Cardinality(Repl) >= 1
    BY <1>0, FS_EmptySet
  <2>5. QED
    BY <2>2, <2>3, <2>4, <1>0, FS_EmptySet
<1>4. CASE UNCHANGED storeVars \/ Kept
  <2>1. goal # NoGoal /\ goal'.turns = goal.turns /\ goal.turns \in Nat
    BY <1>4, Rows DEF Kept, storeVars, TypeOK
  <2>2. IsPast(r)' => IsPast(r)
    BY <2>1 DEF Good, CapChecked
  <2>3. Past' \subseteq Past
    BY <1>2, <2>2 DEF Past
  <2>4. Cardinality(Past') <= Cardinality(Past)
    BY <1>0, <2>3, FS_Subset
  <2>5. QED
    BY <1>0, <2>1, <2>4, CapAssumption DEF CapInv
<1>5. CASE pc[r] = "recording" /\ pc'[r] = "guards" /\ Holds(r) /\ Counted(goal.id, total[r])
  <2>1. goal # NoGoal /\ goal'.turns = goal.turns + 1 /\ goal.turns \in Nat
    BY <1>5, Rows DEF Counted, TypeOK
  <2>2. IsPast(r) /\ ~IsPast(r)'
    BY <1>5 DEF IsPast
  <2>3. Past' \subseteq Past \ {r} /\ Past' \subseteq Repl \ {r} /\ r \in Past
    BY <1>2, <2>2 DEF Past
  <2>4. Cardinality(Past \ {r}) = Cardinality(Past) - 1 /\ IsFiniteSet(Past \ {r})
    BY <1>0, <2>3, FS_RemoveElement
  <2>5. Cardinality(Past') <= Cardinality(Past) - 1 /\ Cardinality(Past') <= Cardinality(Repl) - 1
    <3>1. Cardinality(Past') <= Cardinality(Past \ {r})
      BY <2>3, <2>4, FS_Subset
    <3>2. Cardinality(Past') <= Cardinality(Repl \ {r})
      BY <1>1, <2>3, FS_Subset
    <3>3. QED
      BY <1>1, <2>4, <3>1, <3>2
  <2>6. CASE goal.turns >= MaxGoalTurns
    BY <1>0, <2>1, <2>5, <2>6, CapAssumption DEF CapInv
  <2>7. CASE ~(goal.turns >= MaxGoalTurns)
    <3>1. goal.turns + 1 <= MaxGoalTurns
      BY <2>1, <2>7, CapAssumption
    <3>2. QED
      BY <1>0, <2>1, <2>5, <3>1, CapAssumption
  <2>8. QED
    BY <2>6, <2>7
<1>6. QED
  BY <1>3, <1>4, <1>5 DEF Good, Writes, Gone

(* LoopInv is an invariant of the loop. *)
THEOREM LoopInvariant == Spec => []LoopInv
<1>1. Init => LoopInv
  <2> SUFFICES ASSUME Init PROVE LoopInv
    OBVIOUS
  <2>1. TypeOK
    BY DEF Init, StoreInit, TypeOK, StoreTypeOK, PC, Report
  <2>2. (\A r \in Repl : ProcInv(r)) /\ NeverOvercharged /\ CapInv
    BY DEF Init, StoreInit, ProcInv, Holds, NeverOvercharged, CapInv
  <2>3. QED
    BY <2>1, <2>2 DEF LoopInv
<1>2. ASSUME LoopInv, NEW r \in Repl, User(r) \/ LoopStep(r) PROVE LoopInv'
  <2>0. TypeOK /\ (\A q \in Repl : ProcInv(q)) /\ NeverOvercharged /\ CapInv
    BY <1>2 DEF LoopInv
  <2>1. Good(r)
    BY <1>2, <2>0, UserGood, QueryGood, AccountGood DEF LoopStep
  <2>2. TypeOK'
    BY <2>1 DEF Good, ProcTypes, TypeOK
  <2>3. \A q \in Repl : ProcInv(q)'
    BY <2>0, <2>1, OthersKnow DEF Good
  <2>4. NeverOvercharged' /\ CapInv'
    BY <2>0, <2>1, ChargeStep, CapStep
  <2>5. QED
    BY <2>2, <2>3, <2>4 DEF LoopInv
<1>3. LoopInv /\ UNCHANGED vars => LoopInv'
  BY DEF LoopInv, TypeOK, StoreTypeOK, ProcInv, Holds, NeverOvercharged, CapInv, Past, IsPast,
     vars, storeVars, loopVars, turnVars
<1>4. LoopInv /\ [Next]_vars => LoopInv'
  BY <1>2, <1>3 DEF Next
<1>5. QED
  BY <1>1, <1>4, PTL DEF Spec

(* However many processes race on a goal, no more turns are recorded for   *)
(* it than the cap and one for each other process.                         *)
THEOREM TurnsStayBounded == Spec => []TurnsBounded
<1>1. LoopInv => TurnsBounded
  <2> SUFFICES ASSUME LoopInv, goal # NoGoal
               PROVE  goal.turns <= MaxGoalTurns + Cardinality(Repl) - 1
    BY DEF TurnsBounded
  <2>1. goal.turns \in Nat /\ Cardinality(Repl) \in Nat /\ Cardinality(Past) \in Nat
    <3>1. Past \subseteq Repl
      BY DEF Past
    <3>2. QED
      BY <3>1, ReplAssumption, FS_CardinalityType, FS_Subset, Rows DEF LoopInv, TypeOK
  <2>2. CASE goal.turns >= MaxGoalTurns
    BY <2>1, <2>2, CapAssumption DEF LoopInv, CapInv
  <2>3. CASE ~(goal.turns >= MaxGoalTurns)
    BY <2>1, <2>3, CapAssumption
  <2>4. QED
    BY <2>2, <2>3
<1>2. QED
  BY <1>1, LoopInvariant, PTL

(* The stored total never exceeds what the recorded turns spent.           *)
THEOREM NobodyIsOvercharged == Spec => []NeverOvercharged
<1>1. LoopInv => NeverOvercharged
  BY DEF LoopInv
<1>2. QED
  BY <1>1, LoopInvariant, PTL

-----------------------------------------------------------------------------
(* What a single step may do: the action properties.                       *)

(* Whose step it is. *)
LEMMA OneActor ==
  ASSUME LoopInv, NEW p \in Repl, User(p) \/ LoopStep(p), NEW r \in Repl, pc'[r] # pc[r]
  PROVE  p = r
<1>1. Good(p)
  BY UserGood, QueryGood, AccountGood DEF LoopInv, LoopStep
<1>2. QED
  BY <1>1 DEF Good, OthersStay

(* A process accounts or works only by these actions. *)
LEMMA ByPlace ==
  ASSUME NEW r \in Repl, User(r) \/ LoopStep(r)
  PROVE  /\ pc[r] \in Accounting =>
              Baseline(r) \/ Check(r) \/ Record(r) \/ Guards(r) \/ Transition(r) \/ Reload(r)
         /\ pc[r] \in Query => UNCHANGED goal \/ Complete(r)
<1>1. CASE User(r)
  <2>1. pc[r] = "idle"
    BY <1>1 DEF User, Message, SetCommand, AuditCommand, PauseRead, ResumeRead, ClearCommand
  <2>2. QED
    BY <2>1 DEF Accounting, Query
<1>2. CASE CommandWrite(r)
  BY <1>2 DEF CommandWrite, Command, Accounting, Query
<1>3. CASE CaptureGoalTurn(r) \/ Validate(r) \/ Inject(r) \/ Spawn(r)
  <2>1. pc[r] \in Admission
    BY <1>3 DEF CaptureGoalTurn, Validate, Inject, Spawn, Admit, Admission
  <2>2. QED
    BY <2>1 DEF Admission, Accounting, Query
<1>4. CASE StartRequest(r) \/ Respond(r) \/ EndTurn(r) \/ CallTool(r) \/ CallGoalComplete(r)
           \/ QueryFails(r)
  <2>1. pc[r] \in Query /\ UNCHANGED goal
    BY <1>4 DEF StartRequest, Respond, EndTurn, CallTool, CallGoalComplete, QueryFails, Admit,
       Query, storeVars
  <2>2. QED
    BY <2>1 DEF Accounting, Query
<1>5. CASE Complete(r)
  BY <1>5 DEF Complete, Accounting
<1>6. CASE Baseline(r) \/ Check(r) \/ Record(r) \/ Guards(r) \/ Transition(r) \/ Reload(r)
  <2>1. pc[r] \in Accounting
    BY <1>6 DEF Baseline, Check, Record, Guards, Transition, Reload, Accounting
  <2>2. QED
    BY <1>6, <2>1 DEF Accounting, Query
<1>7. QED
  BY <1>1, <1>2, <1>3, <1>4, <1>5, <1>6 DEF LoopStep

(* What the report of a stopped loop says of the row.                      *)
Reported(r) ==
  /\ said'[r] = "runaway" =>
       /\ goal.status = "active" /\ goal'.status = "paused"
       /\ goal'.id = turn[r] /\ goal'.turns >= MaxGoalTurns
  /\ said'[r] \in GoalStatus => goal'.id = turn[r] /\ goal'.status = said'[r]

(* A step that ends a turn with a report does what it says.                *)
LEMMA ReportStep ==
  ASSUME LoopInv, NEW r \in Repl, pc'[r] = "idle",
         Baseline(r) \/ Check(r) \/ Record(r) \/ Guards(r) \/ Transition(r) \/ Reload(r)
  PROVE  Reported(r)
<1>0. TypeOK /\ ProcTypes /\ StoreTypeOK /\ ProcInv(r)
  BY DEF LoopInv, TypeOK, ProcTypes
<1>1. ASSUME NEW report \in Report, Stop(r, report), report # "runaway", report \notin GoalStatus
      PROVE  Reported(r)
  BY <1>0, <1>1, StopMoves DEF Reported
<1>2. ASSUME ReadStops(r), UNCHANGED goal PROVE Reported(r)
  <2>1. CASE Stop(r, "error")
    BY <1>1, <2>1, ReportsKnown DEF GoalStatus
  <2>2. CASE OwnedActive(goal, turn[r]) = "not_active" /\ Stop(r, goal.status)
    <3>1. /\ goal # NoGoal /\ goal.id = turn[r] /\ goal.status \in GoalStatus
          /\ goal.status # "active"
      BY <1>0, <2>2, Rows DEF OwnedActive, Owned
    <3>2. goal.status \in Report /\ goal.status # "runaway"
      BY <3>1, ReportsKnown DEF GoalStatus
    <3>3. said'[r] = goal.status
      BY <1>0, <2>2, <3>2, StopMoves
    <3>4. QED
      BY <1>2, <3>1, <3>2, <3>3 DEF Reported
  <2>3. QED
    BY <1>2, <2>1, <2>2 DEF ReadStops
<1>3. ASSUME NEW to \in PC \ {"idle"}, Goto(r, to) PROVE FALSE
  BY <1>0, <1>3, GotoMoves
<1>4. {"checking", "recording", "guards", "pausing", "limiting", "capturing", "reloading"}
        \subseteq PC \ {"idle"}
  BY DEF PC, Accounting, Admission
<1>5. {"error", "unaccounted"} \subseteq Report \ (GoalStatus \cup {"runaway"})
  BY DEF Report, GoalStatus
<1>6. CASE Baseline(r)
  BY <1>1, <1>3, <1>4, <1>5, <1>6 DEF Baseline
<1>7. CASE Check(r)
  BY <1>2, <1>3, <1>4, <1>7 DEF Check, Step, storeVars
<1>8. CASE Loses(r)
  BY <1>1, <1>3, <1>4, <1>5, <1>8 DEF Loses, Step
<1>9. CASE Record(r)
  BY <1>3, <1>4, <1>8, <1>9 DEF Record, Step
<1>10. CASE Guards(r)
  <2>1. Guard(goal) \in PC \ {"idle"}
    BY <1>4 DEF Guard
  <2>2. QED
    BY <1>2, <1>3, <1>10, <2>1 DEF Guards, Step, storeVars
<1>11. CASE Reload(r)
  BY <1>1, <1>2, <1>5, <1>11 DEF Reload, storeVars
<1>12. CASE Transition(r)
  <2>1. ASSUME NEW s \in {"paused", "budget_limited"}, OwnedActive(goal, turn[r]) = "ok",
               WriteStatus(s)
        PROVE  /\ goal # NoGoal /\ goal.status = "active" /\ Holds(r)
               /\ goal'.id = turn[r] /\ goal'.status = s /\ goal'.turns = goal.turns
    <3>1. goal # NoGoal /\ goal.id = turn[r] /\ goal.status = "active"
      BY <2>1 DEF OwnedActive, Owned
    <3>2. Kept /\ goal'.status = s
      BY <1>0, <2>1, <3>1, StatusMoves DEF GoalStatus
    <3>3. QED
      BY <3>1, <3>2 DEF Kept, Holds
  <2>2. CASE pc[r] = "pausing" /\ PauseActiveGoal(turn[r]) /\ Stop(r, "runaway")
    <3>1. said'[r] = "runaway" /\ "runaway" \notin GoalStatus
      BY <1>0, <2>2, StopMoves, ReportsKnown DEF GoalStatus
    <3>2. /\ goal.status = "active" /\ goal'.status = "paused" /\ Holds(r)
          /\ goal'.id = turn[r] /\ goal'.turns = goal.turns
      BY <2>1, <2>2 DEF PauseActiveGoal
    <3>3. goal.turns >= MaxGoalTurns
      BY <1>0, <2>2, <3>2 DEF ProcInv
    <3>4. QED
      BY <3>1, <3>2, <3>3 DEF Reported
  <2>3. CASE BudgetLimitGoal(turn[r]) /\ Stop(r, "budget_limited")
    <3>1. said'[r] = "budget_limited"
      BY <1>0, <2>3, StopMoves, ReportsKnown
    <3>2. goal'.id = turn[r] /\ goal'.status = "budget_limited"
      BY <2>1, <2>3 DEF BudgetLimitGoal
    <3>3. QED
      BY <3>1, <3>2 DEF Reported
  <2>4. QED
    BY <1>8, <1>12, <2>2, <2>3 DEF Transition
<1>13. QED
  BY <1>6, <1>7, <1>9, <1>10, <1>11, <1>12

(* When the loop stops and says why, that is what happened to the goal of  *)
(* its turn.                                                               *)
THEOREM ReportsStayTrue == Spec => ReportsAreTrue
<1>1. ASSUME LoopInv, [Next]_vars, NEW r \in Repl, pc[r] \in Accounting, pc'[r] = "idle"
      PROVE  Reported(r)
  <2>1. pc'[r] # pc[r]
    BY <1>1 DEF Accounting
  <2>2. User(r) \/ LoopStep(r)
    BY <1>1, <2>1, OneActor DEF Next, vars, loopVars
  <2>3. QED
    BY <1>1, <2>2, ByPlace, ReportStep
<1>2. LoopInv /\ [Next]_vars =>
        [\A r \in Repl : pc[r] \in Accounting /\ pc'[r] = "idle" => Reported(r)]_vars
  BY <1>1
<1>3. QED
  BY <1>2, LoopInvariant, PTL DEF Spec, ReportsAreTrue, Reported

(* The row is the active goal of the turn of r.                            *)
Own(r) ==
  /\ goal # NoGoal /\ goal.id = turn[r] /\ goal.status = "active"

(* A process that works or accounts changes no goal but its own, active.   *)
THEOREM OnlyOwnGoals == Spec => ActsOnOwnGoal
<1>1. ASSUME NEW r \in Repl, OwnedActive(goal, turn[r]) = "ok" PROVE Own(r)
  BY <1>1 DEF OwnedActive, Owned, Own
<1>2. ASSUME LoopInv, [Next]_vars, NEW r \in Repl, pc[r] \in Query \cup Accounting,
             pc'[r] # pc[r], goal' # goal
      PROVE  Own(r)
  <2>1. User(r) \/ LoopStep(r)
    BY <1>2, OneActor DEF Next, vars, loopVars
  <2>3. CASE Complete(r)
    BY <1>1, <1>2, <2>3 DEF Complete, storeVars
  <2>4. CASE Record(r) \/ Transition(r)
    BY <1>1, <1>2, <2>4 DEF Record, Transition, Loses, RecordCompletedTurn, PauseActiveGoal,
       BudgetLimitGoal, storeVars
  <2>5. ~(Baseline(r) \/ Check(r) \/ Guards(r) \/ Reload(r))
    BY <1>2 DEF Baseline, Check, Guards, Reload, storeVars
  <2>6. QED
    BY <1>2, <2>1, <2>3, <2>4, <2>5, ByPlace
<1>3. LoopInv /\ [Next]_vars =>
        [\A r \in Repl : pc[r] \in Query \cup Accounting /\ pc'[r] # pc[r] /\ goal' # goal
           => Own(r)]_vars
  BY <1>2
<1>4. QED
  BY <1>3, LoopInvariant, PTL DEF Spec, ActsOnOwnGoal, Own
=============================================================================

--------------------------- MODULE GoalTurn_proofs ---------------------------
(***************************************************************************)
(* Theorems about GoalTurn for every set of goals, turns and agents, every *)
(* cap and budget, with or without store faults.                           *)
(***************************************************************************)
EXTENDS GoalTurn, TLAPS

USE BudgetAssumption, StampAssumption, CapAssumption, NoGoalAssumption,
    TurnAssumption, BoundAssumption, FaultAssumption

(* Every transaction of the store leaves a well-typed row.                 *)
LEMMA StoreTyped ==
  ASSUME StoreTypeOK, StoreAction
  PROVE  StoreTypeOK'
<1> USE DEF StoreTypeOK, Goal, GoalStatus
<1>1. ASSUME NEW b \in Budget \cup {NoBudget}, SetGoal(b) PROVE StoreTypeOK'
  BY <1>1 DEF SetGoal
<1>2. ASSUME NEW s \in GoalStatus, goal # NoGoal, WriteStatus(s) PROVE StoreTypeOK'
  BY <1>2 DEF WriteStatus
<1>3. ASSUME NEW total \in 0..MaxTokens, RecordCompletedTurn(goal.id, total)
      PROVE StoreTypeOK'
  <2>1. goal \in Goal
    BY <1>3 DEF RecordCompletedTurn, OwnedActive, Owned
  <2>2. total \in Nat
    BY <1>3
  <2>3. PICK now \in Stamp :
          goal' = [goal EXCEPT !.tokens = IF @ < total THEN total ELSE @,
                               !.turns = @ + 1, !.stamp = now]
    BY <1>3 DEF RecordCompletedTurn
  <2> DEFINE tokens == IF goal.tokens < total THEN total ELSE goal.tokens
  <2>4. tokens \in Nat /\ goal.turns + 1 \in Nat
    BY <2>1, <2>2
  <2>5. goal' = [goal EXCEPT !.tokens = tokens, !.turns = goal.turns + 1, !.stamp = now]
    BY <2>1, <2>3
  <2> HIDE DEF tokens
  <2>6. goal' \in Goal /\ goal'.id = goal.id
    BY <2>1, <2>4, <2>5
  <2>7. QED
    BY <1>3, <2>1, <2>6 DEF RecordCompletedTurn
<1>4. CASE ClearGoal
  BY <1>4 DEF ClearGoal
<1>5. QED
  BY <1>1, <1>2, <1>3, <1>4
     DEF StoreAction, SetStatus, PauseActiveGoal, BudgetLimitGoal, OwnedActive, Owned

(* The completing transaction too, and what it leaves is the receipt.      *)
LEMMA CompletionTyped ==
  ASSUME StoreTypeOK, NEW id \in GoalId \cup {NoGoal}, CompleteGoal(id)
  PROVE  StoreTypeOK' /\ goal' \in Goal /\ goal'.id = id /\ goal'.status = "complete"
BY DEF StoreTypeOK, Goal, GoalStatus, CompleteGoal, OwnedActive, Owned, WriteStatus

-----------------------------------------------------------------------------
(* Every step leaves a well-typed state: in particular an attached agent    *)
(* always has a turn.                                                      *)
LEMMA TypeStep ==
  ASSUME TypeOK, [Next]_vars
  PROVE  TypeOK'
<1> USE DEF TypeOK, Role, PC, Goto
<1>1. CASE Elsewhere
  <2>1. StoreTypeOK'
    BY <1>1, StoreTyped DEF Elsewhere
  <2>2. QED
    BY <1>1, <2>1 DEF Elsewhere, turnVars, agentVars
<1>2. ASSUME NEW a \in Agent, AgentStep(a) PROVE TypeOK'
  <2>1. CASE CrossBoundary(a) \/ RequireWork(a) \/ ReserveValidate(a)
    <3>1. CASE CrossBoundary(a)
      BY <3>1 DEF CrossBoundary, Validate, Observe, storeVars, StoreTypeOK
    <3>2. CASE RequireWork(a)
      BY <3>2 DEF RequireWork, Validate, Observe, storeVars, StoreTypeOK
    <3>3. CASE ReserveValidate(a)
      BY <3>3 DEF ReserveValidate, Validate, Observe, storeVars, StoreTypeOK
    <3>4. QED
      BY <2>1, <3>1, <3>2, <3>3
  <2>2. CASE FinishWork(a) \/ Release(a)
    BY <2>2 DEF FinishWork, Release, storeVars, turnVars, StoreTypeOK
  <2>5. CASE Reserve(a)
    BY <2>5 DEF Reserve, Reservable, storeVars, StoreTypeOK
  <2>6. CASE Finish(a)
    BY <2>6 DEF Finish, storeVars, StoreTypeOK
  <2>7. CASE DropReservation(a)
    BY <2>7 DEF DropReservation, storeVars, StoreTypeOK
  <2>3. CASE CompleteGoalTurn(a)
    <3> DEFINE t == turnOf[a]
    <3>0. t \in Turn
      BY <2>3 DEF CompleteGoalTurn
    <3>1. CASE Refused(a)
      BY <2>3, <3>1 DEF CompleteGoalTurn, Refused, storeVars, StoreTypeOK
    <3>2. CASE Succeeded(t)
      <4>1. StoreTypeOK' /\ goal' \in Goal
        BY <3>0, <3>2, CompletionTyped DEF Succeeded
      <4>2. QED
        BY <2>3, <3>0, <3>2, <4>1 DEF CompleteGoalTurn, Succeeded
    <3>3. CASE Failed(t)
      BY <2>3, <3>0, <3>3 DEF CompleteGoalTurn, Failed, storeVars, StoreTypeOK
    <3>4. QED
      BY <2>3, <3>1, <3>2, <3>3 DEF CompleteGoalTurn
  <2>4. QED
    BY <1>2, <2>1, <2>2, <2>3, <2>5, <2>6, <2>7 DEF AgentStep
<1>3. ASSUME NEW a \in Agent, Acquire(a) PROVE TypeOK'
  <2>1. ASSUME NEW t \in Turn, CaptureActiveGoal(a, t) \/ Dispatch(a, t) PROVE TypeOK'
    <3>1. /\ turnOf' \in [Agent -> Turn \cup {NoTurn}]
          /\ role' \in [Agent -> Role]
          /\ pc' \in [Agent -> PC]
          /\ background' \in [Agent -> BOOLEAN]
          /\ \A c \in Agent : pc'[c] # "free" => turnOf'[c] # NoTurn
      <4>1. Attach(a, t, "foreground", FALSE)
        BY <2>1 DEF CaptureActiveGoal, Dispatch
      <4>2. t # NoTurn
        OBVIOUS
      <4>3. background' \in [Agent -> BOOLEAN]
        BY <4>1 DEF Attach
      <4>4. QED
        BY <4>1, <4>2, <4>3 DEF Attach
    <3>2. captured' \in [Turn -> GoalId \cup {NoGoal}]
      <4>1. CASE CaptureActiveGoal(a, t)
        <5>1. goal.id \in GoalId
          BY <4>1 DEF CaptureActiveGoal, StoreTypeOK, Goal
        <5>2. captured' = [captured EXCEPT ![t] = goal.id]
          BY <4>1 DEF CaptureActiveGoal
        <5>3. QED
          BY <5>1, <5>2
      <4>2. CASE Dispatch(a, t)
        BY <4>2 DEF Dispatch, turnVars
      <4>3. QED
        BY <2>1, <4>1, <4>2
    <3>3. QED
      <4>1. UNCHANGED <<storeVars, receipt, revoked, inFlight, answers>>
        BY <2>1 DEF CaptureActiveGoal, Dispatch, turnVars
      <4>2. StoreTypeOK'
        BY <4>1 DEF storeVars, StoreTypeOK
      <4>3. QED
        BY <3>1, <3>2, <4>1, <4>2
  <2>2. ASSUME NEW b \in Agent, NEW r \in Role, Share(a, b, r) PROVE TypeOK'
    <3>1. turnOf[a] \in Turn /\ turnOf[a] # NoTurn
      BY <2>2 DEF Share
    <3>2. (background[a] \/ r = "housekeeping") \in BOOLEAN
      OBVIOUS
    <3>3. /\ turnOf' \in [Agent -> Turn \cup {NoTurn}]
          /\ role' \in [Agent -> Role]
          /\ pc' \in [Agent -> PC]
          /\ \A c \in Agent : pc'[c] # "free" => turnOf'[c] # NoTurn
      BY <2>2, <3>1 DEF Share, Attach
    <3>4. background' \in [Agent -> BOOLEAN]
      BY <2>2, <3>2 DEF Share, Attach
    <3>5. QED
      BY <2>2, <3>3, <3>4 DEF Share, storeVars, turnVars, StoreTypeOK
  <2>4. role[a] \in Role
    OBVIOUS
  <2>3. QED
    BY <1>3, <2>1, <2>2, <2>4 DEF Acquire, ShareWithTool, SpawnChild,
       SpawnHousekeeping, ForChildWork, ForBackgroundWork
<1>4. CASE UNCHANGED vars
  BY <1>4 DEF vars, storeVars, turnVars, agentVars, StoreTypeOK
<1>5. QED
  BY <1>1, <1>2, <1>3, <1>4 DEF Next

(* Type correctness of the captured turns, their holders and the row.      *)
THEOREM TypeCorrect == Spec => []TypeOK
<1>1. Init => TypeOK
  BY DEF Init, StoreInit, TypeOK, StoreTypeOK, Role, PC
<1>2. TypeOK /\ [Next]_vars => TypeOK'
  BY TypeStep
<1>3. QED
  BY <1>1, <1>2, PTL DEF Spec

-----------------------------------------------------------------------------
(* What a validation may change and what its answer tells.                 *)
LEMMA ValidateEffect ==
  ASSUME TypeOK, NEW a \in Agent, pc[a] # "free", NEW p, Validate(a, p)
  PROVE  /\ turnOf[a] \in Turn
         /\ revoked' \in [Turn -> BOOLEAN]
         /\ \A t \in Turn : t # turnOf[a] => revoked'[t] = revoked[t]
         /\ \A t \in Turn : revoked[t] => revoked'[t]
         /\ p = "final" => role[a] = "foreground" /\ receipt[turnOf[a]] # NoGoal
<1> DEFINE t == turnOf[a]
<1>1. t \in Turn
  BY DEF TypeOK
<1>2. PICK v \in {"work", "final", "denied"} :
        Observe(t, v) /\ p = Permission(role[a], v)
  BY DEF Validate
<1>3. revoked' = [revoked EXCEPT ![t] = @ \/ v = "denied"]
  BY <1>2 DEF Observe
<1>4. (revoked[t] \/ v = "denied") \in BOOLEAN
  OBVIOUS
<1>5. p = "final" => v = "final" /\ role[a] = "foreground"
  BY <1>2 DEF Permission, TypeOK, Role
<1>6. v = "final" => receipt[t] # NoGoal
  BY <1>2 DEF Observe, Verdict
<1>7. revoked \in [Turn -> BOOLEAN]
  BY DEF TypeOK
<1>8. QED
  BY <1>1, <1>3, <1>4, <1>5, <1>6, <1>7

(* The part of an agent's invariant that concerns its role and position.   *)
NearFinal == {"granted", "reserving", "final", "finished"}

(* The inductive invariant holds initially and is preserved.               *)
LEMMA IInvInit == Init => IInv
BY DEF Init, StoreInit, IInv, TypeOK, StoreTypeOK, TurnInv, AgentInv,
       OneReservation, Holding, Role, PC

(* Every step keeps the inductive invariant, one action after the other.   *)
LEMMA IInvStep ==
  ASSUME IInv, [Next]_vars
  PROVE  IInv'
<1> USE DEF IInv
<1>0. TypeOK /\ TypeOK'
  BY TypeStep
<1>1. CASE Elsewhere \/ UNCHANGED vars
  BY <1>0, <1>1 DEF Elsewhere, vars, turnVars, agentVars,
                    TurnInv, AgentInv, OneReservation, Holding
<1>2. ASSUME NEW a \in Agent, NEW p,
             pc[a] \in {"boundary", "working", "granted"}, Validate(a, p),
             CrossBoundary(a) \/ RequireWork(a) \/ ReserveValidate(a),
             pc'[a] \in NearFinal => p = "final"
      PROVE  IInv'
  <2>1. /\ UNCHANGED <<captured, receipt, inFlight, answers, turnOf, role, background>>
        /\ \A b \in Agent : b # a => pc'[b] = pc[b]
        /\ pc'[a] \notin {"final", "finished"}
    BY <1>0, <1>2 DEF CrossBoundary, RequireWork, ReserveValidate, Goto, TypeOK
  <2>2. /\ turnOf[a] \in Turn
        /\ \A t \in Turn : t # turnOf[a] => revoked'[t] = revoked[t]
        /\ \A t \in Turn : revoked[t] => revoked'[t]
        /\ p = "final" => role[a] = "foreground" /\ receipt[turnOf[a]] # NoGoal
    BY <1>0, <1>2, ValidateEffect
  <2>3. captured[turnOf[a]] # NoGoal
    BY <1>2 DEF AgentInv
  <2>4. ASSUME NEW t \in Turn PROVE TurnInv(t)'
    BY <2>1, <2>2, <2>3 DEF TurnInv
  <2>5. ASSUME NEW b \in Agent PROVE AgentInv(b)'
    BY <1>2, <2>1, <2>2, <2>3 DEF AgentInv, NearFinal
  <2>6. OneReservation'
    BY <2>1 DEF OneReservation, Holding
  <2>7. QED
    BY <1>0, <2>4, <2>5, <2>6
<1>3. ASSUME NEW a \in Agent, CrossBoundary(a) \/ RequireWork(a) \/ ReserveValidate(a)
      PROVE  IInv'
  <2>1. CASE CrossBoundary(a)
    <3>1. PICK p \in {"work", "final", "return", "denied"} :
            /\ Validate(a, p)
            /\ Goto(a, CASE p = "work" -> "working"
                         [] p = "final" -> "granted"
                         [] OTHER -> "boundary")
      BY <2>1 DEF CrossBoundary
    <3>2. pc[a] = "boundary" /\ (pc'[a] \in NearFinal => p = "final")
      BY <1>0, <2>1, <3>1 DEF CrossBoundary, Goto, NearFinal, TypeOK
    <3>3. QED
      BY <1>2, <2>1, <3>1, <3>2
  <2>2. CASE RequireWork(a)
    <3>1. PICK p \in {"work", "final", "return", "denied"} :
            Validate(a, p) /\ Goto(a, IF p = "work" THEN "completing" ELSE "boundary")
      BY <2>2 DEF RequireWork
    <3>2. pc[a] = "working" /\ pc'[a] \notin NearFinal
      BY <1>0, <2>2, <3>1 DEF RequireWork, Goto, NearFinal, TypeOK
    <3>3. QED
      BY <1>2, <2>2, <3>1, <3>2
  <2>3. CASE ReserveValidate(a)
    <3>1. PICK p \in {"work", "final", "return", "denied"} :
            Validate(a, p) /\ Goto(a, IF p = "final" THEN "reserving" ELSE "boundary")
      BY <2>3 DEF ReserveValidate
    <3>2. pc[a] = "granted" /\ (pc'[a] \in NearFinal => p = "final")
      BY <1>0, <2>3, <3>1 DEF ReserveValidate, Goto, NearFinal, TypeOK
    <3>3. QED
      BY <1>2, <2>3, <3>1, <3>2
  <2>4. QED
    BY <1>3, <2>1, <2>2, <2>3
<1>4. ASSUME NEW a \in Agent, FinishWork(a) \/ Release(a) PROVE IInv'
  <2>1. UNCHANGED turnVars
    BY <1>4 DEF FinishWork, Release
  <2>2. \A t \in Turn : TurnInv(t)'
    BY <2>1 DEF turnVars, TurnInv
  <2>3. \A b \in Agent : AgentInv(b)'
    BY <1>0, <1>4, <2>1 DEF FinishWork, Release, Goto, turnVars, TypeOK, AgentInv
  <2>4. OneReservation'
    BY <1>0, <1>4, <2>1
       DEF FinishWork, Release, Goto, turnVars, TypeOK, OneReservation, Holding
  <2>5. QED
    BY <1>0, <2>2, <2>3, <2>4
<1>5. ASSUME NEW a \in Agent, CompleteGoalTurn(a) PROVE IInv'
  <2> DEFINE t == turnOf[a]
  <2>1. /\ t \in Turn /\ captured[t] # NoGoal
        /\ UNCHANGED <<captured, inFlight, answers, turnOf, role, background>>
        /\ \A b \in Agent : pc'[b] = pc[b] \/ (b = a /\ pc'[b] = "boundary")
    BY <1>0, <1>5 DEF CompleteGoalTurn, Goto, AgentInv, TypeOK
  <2>2. OneReservation'
    BY <2>1 DEF OneReservation, Holding
  <2>3. CASE Refused(a)
    BY <1>0, <2>1, <2>2, <2>3 DEF Refused, TurnInv, AgentInv
  <2>4. CASE Succeeded(t)
    <3>1. goal' \in Goal /\ goal'.id = captured[t] /\ goal'.status = "complete"
      BY <1>0, <2>1, <2>4, CompletionTyped DEF Succeeded, TypeOK
    <3>2. /\ receipt[t] = NoGoal /\ UNCHANGED revoked /\ goal' # NoGoal
          /\ receipt'[t] = goal' /\ \A u \in Turn : u # t => receipt'[u] = receipt[u]
      BY <1>0, <2>1, <2>4, <3>1 DEF Succeeded, TypeOK
    <3>3. \A u \in Turn : TurnInv(u)'
      BY <2>1, <3>1, <3>2 DEF TurnInv
    <3>4. \A u \in Turn : receipt[u] # NoGoal => receipt'[u] # NoGoal
      BY <3>2
    <3>5. \A b \in Agent : AgentInv(b)'
      BY <1>0, <2>1, <3>4 DEF AgentInv, TypeOK
    <3>6. QED
      BY <1>0, <2>2, <3>3, <3>5
  <2>5. CASE Failed(t)
    <3>1. UNCHANGED receipt /\ \A u \in Turn : revoked'[u] <=> revoked[u] \/ u = t
      BY <1>0, <2>1, <2>5 DEF Failed, TypeOK
    <3>2. QED
      BY <1>0, <2>1, <2>2, <3>1 DEF TurnInv, AgentInv
  <2>6. QED
    BY <1>5, <2>3, <2>4, <2>5 DEF CompleteGoalTurn
<1>6. ASSUME NEW a \in Agent, Reserve(a) PROVE IInv'
  <2> DEFINE t == turnOf[a]
  <2>1. /\ t \in Turn /\ captured[t] # NoGoal /\ receipt[t] # NoGoal
        /\ role[a] = "foreground"
        /\ UNCHANGED <<captured, receipt, revoked, answers, turnOf, role, background>>
        /\ \A b \in Agent : b # a => pc'[b] = pc[b]
    BY <1>0, <1>6 DEF Reserve, Goto, AgentInv, TypeOK
  <2>2. \A u \in Turn : TurnInv(u)'
    BY <2>1 DEF TurnInv
  <2>3. CASE Reservable(t)
    <3>1. pc'[a] = "final" /\ ~inFlight[t] /\ ~revoked[t] /\ inFlight'[t]
      BY <1>0, <1>6, <2>1, <2>3 DEF Reserve, Reservable, Goto, TypeOK
    <3>2. \A u \in Turn : inFlight[u] => inFlight'[u]
      BY <1>0, <1>6 DEF Reserve, TypeOK
    <3>3. answers[t] = 0
      BY <2>1, <3>1 DEF TurnInv
    <3>4. \A b \in Agent : AgentInv(b)'
      BY <2>1, <3>1, <3>3 DEF AgentInv
    <3>5. OneReservation'
      <4>1. ASSUME NEW b \in Agent, Holding(b), turnOf[b] = t PROVE FALSE
        BY <3>1, <4>1 DEF OneReservation
      <4>2. \A b \in Agent : b # a => (Holding(b)' <=> Holding(b))
        BY <2>1 DEF Holding
      <4>3. \A b \in Agent : Holding(b)' => inFlight'[turnOf'[b]]
        BY <1>0, <2>1, <3>1, <3>2, <4>2 DEF OneReservation, TypeOK, Holding
      <4>4. ASSUME NEW b \in Agent, NEW c \in Agent,
                   Holding(b)', Holding(c)', turnOf'[b] = turnOf'[c]
            PROVE  b = c
        BY <2>1, <4>1, <4>2, <4>4 DEF OneReservation
      <4>5. QED
        BY <4>3, <4>4 DEF OneReservation
    <3>6. QED
      BY <1>0, <2>2, <3>4, <3>5
  <2>4. CASE ~Reservable(t)
    <3>1. pc'[a] = "boundary" /\ UNCHANGED inFlight
      BY <1>0, <1>6, <2>1, <2>4 DEF Reserve, Goto, TypeOK
    <3>2. QED
      BY <1>0, <2>1, <2>2, <3>1 DEF AgentInv, OneReservation, Holding
  <2>5. QED
    BY <2>3, <2>4
<1>7. ASSUME NEW a \in Agent, Finish(a) PROVE IInv'
  <2> DEFINE t == turnOf[a]
  <2>1. /\ t \in Turn /\ pc[a] = "final" /\ pc'[a] = "finished"
        /\ UNCHANGED <<captured, receipt, inFlight, turnOf, role, background>>
        /\ \A b \in Agent : b # a => pc'[b] = pc[b]
        /\ revoked'[t] /\ answers'[t] = answers[t] + 1
        /\ \A u \in Turn : u # t => revoked'[u] = revoked[u] /\ answers'[u] = answers[u]
    BY <1>0, <1>7 DEF Finish, Goto, TypeOK
  <2>2. answers[t] = 0 /\ receipt[t] # NoGoal /\ captured[t] # NoGoal
    BY <2>1 DEF AgentInv
  <2>3. \A u \in Turn : TurnInv(u)'
    BY <2>1, <2>2 DEF TurnInv
  <2>4. \A b \in Agent : pc[b] = "final" /\ turnOf[b] = t => b = a
    BY <2>1 DEF OneReservation, Holding
  <2>5. \A b \in Agent : AgentInv(b)'
    BY <1>0, <2>1, <2>4 DEF AgentInv, TypeOK
  <2>6. OneReservation'
    BY <2>1 DEF OneReservation, Holding
  <2>7. QED
    BY <1>0, <2>3, <2>5, <2>6
<1>8. ASSUME NEW a \in Agent, DropReservation(a) PROVE IInv'
  <2> DEFINE t == turnOf[a]
  <2>1. /\ t \in Turn /\ Holding(a) /\ pc'[a] = "boundary"
        /\ UNCHANGED <<captured, receipt, revoked, answers, turnOf, role, background>>
        /\ \A b \in Agent : b # a => pc'[b] = pc[b]
        /\ \A u \in Turn : u # t => inFlight'[u] = inFlight[u]
    BY <1>0, <1>8 DEF DropReservation, Holding, Goto, TypeOK
  <2>2. \A u \in Turn : TurnInv(u)'
    BY <2>1 DEF TurnInv
  <2>3. \A b \in Agent : AgentInv(b)'
    BY <2>1 DEF AgentInv, Holding
  <2>4. \A b \in Agent : Holding(b)' => Holding(b) /\ b # a /\ turnOf[b] # t
    BY <2>1 DEF OneReservation, Holding
  <2>5. OneReservation'
    BY <1>0, <2>1, <2>4 DEF OneReservation, Holding, TypeOK
  <2>6. QED
    BY <1>0, <2>2, <2>3, <2>5
<1>9. ASSUME NEW a \in Agent, NEW t \in Turn, CaptureActiveGoal(a, t) \/ Dispatch(a, t)
      PROVE  IInv'
  <2>1. /\ UNCHANGED <<receipt, revoked, inFlight, answers>>
        /\ captured'[t] # NoGoal /\ (captured[t] # NoGoal => captured'[t] = captured[t])
        /\ \A u \in Turn : u # t => captured'[u] = captured[u]
    <3>1. CASE CaptureActiveGoal(a, t)
      <4>1. goal.id \in GoalId /\ captured[t] = NoGoal
        BY <1>0, <3>1 DEF CaptureActiveGoal, TypeOK, StoreTypeOK, Goal
      <4>2. /\ captured' = [captured EXCEPT ![t] = goal.id]
            /\ UNCHANGED <<receipt, revoked, inFlight, answers>>
        BY <3>1 DEF CaptureActiveGoal
      <4>3. QED
        BY <1>0, <4>1, <4>2 DEF TypeOK
    <3>2. CASE Dispatch(a, t)
      BY <3>2 DEF Dispatch, turnVars
    <3>3. QED
      BY <1>9, <3>1, <3>2
  <2>2. /\ turnOf'[a] = t /\ pc'[a] = "boundary" /\ ~background'[a]
        /\ \A b \in Agent : b # a => /\ turnOf'[b] = turnOf[b] /\ pc'[b] = pc[b]
                                     /\ role'[b] = role[b] /\ background'[b] = background[b]
    <3>1. Attach(a, t, "foreground", FALSE)
      BY <1>9 DEF CaptureActiveGoal, Dispatch
    <3>2. background'[a] = FALSE
      BY <1>0, <3>1 DEF Attach, TypeOK
    <3>3. QED
      BY <1>0, <3>1, <3>2 DEF Attach, Goto, TypeOK
  <2>3. \A u \in Turn : TurnInv(u)'
    BY <2>1 DEF TurnInv
  <2>4. \A b \in Agent : AgentInv(b)'
    BY <1>0, <2>1, <2>2 DEF AgentInv, TypeOK
  <2>5. OneReservation'
    BY <2>1, <2>2 DEF OneReservation, Holding
  <2>6. QED
    BY <1>0, <2>3, <2>4, <2>5
<1>10. ASSUME NEW a \in Agent, NEW b \in Agent, NEW r \in Role,
              role[a] = "housekeeping" => r = "housekeeping", Share(a, b, r)
       PROVE  IInv'
  <2>1. /\ UNCHANGED turnVars /\ pc[a] # "free"
        /\ turnOf'[b] = turnOf[a] /\ pc'[b] = "boundary" /\ role'[b] = r
        /\ \A c \in Agent : c # b => /\ turnOf'[c] = turnOf[c] /\ pc'[c] = pc[c]
                                     /\ role'[c] = role[c]
    BY <1>0, <1>10 DEF Share, Attach, Goto, TypeOK
  <2>2. /\ background'[b] <=> (background[a] \/ r = "housekeeping")
        /\ \A c \in Agent : c # b => background'[c] = background[c]
    <3>1. background' = [background EXCEPT ![b] = background[a] \/ r = "housekeeping"]
      BY <1>10 DEF Share, Attach
    <3>2. background \in [Agent -> BOOLEAN]
      BY <1>0 DEF TypeOK
    <3>3. QED
      BY <3>1, <3>2
  <2>3. background'[b] => r = "housekeeping"
    BY <1>10, <2>2 DEF AgentInv
  <2>4. \A u \in Turn : TurnInv(u)'
    BY <2>1 DEF TurnInv, turnVars
  <2>5. \A c \in Agent : AgentInv(c)'
    BY <2>1, <2>2, <2>3 DEF AgentInv, turnVars
  <2>6. OneReservation'
    BY <2>1 DEF OneReservation, Holding, turnVars
  <2>7. QED
    BY <1>0, <2>4, <2>5, <2>6
<1>11. ASSUME NEW a \in Agent, Acquire(a) PROVE IInv'
  <2>1. role[a] \in Role
    BY <1>0 DEF TypeOK
  <2>2. ASSUME NEW b \in Agent, ShareWithTool(a, b) \/ SpawnChild(a, b) \/ SpawnHousekeeping(a, b)
        PROVE IInv'
    BY <2>1, <2>2, <1>10 DEF ShareWithTool, SpawnChild, SpawnHousekeeping,
                             ForChildWork, ForBackgroundWork, Role
  <2>3. QED
    BY <1>9, <1>11, <2>2 DEF Acquire
<1>12. QED
  BY <1>1, <1>3, <1>4, <1>5, <1>6, <1>7, <1>8, <1>11 DEF Next, AgentStep

-----------------------------------------------------------------------------
(* The strengthened invariant holds in every reachable state.              *)
THEOREM InductiveInvariant == Spec => []IInv
BY IInvInit, IInvStep, PTL DEF Spec

(* At most one final response per captured turn, and only of a turn that   *)
(* completed its goal, however many clones race and however often the      *)
(* request is retried.                                                     *)
THEOREM AtMostOneFinalResponse == Spec => []OneFinalResponse
<1>1. IInv => OneFinalResponse
  BY DEF IInv, TurnInv, OneFinalResponse
<1>2. QED
  BY <1>1, InductiveInvariant, PTL

(* Mutual exclusion on the reservation of the final response.              *)
THEOREM ReservationExclusive == Spec => []OneReservation
<1>1. IInv => OneReservation
  BY DEF IInv
<1>2. QED
  BY <1>1, InductiveInvariant, PTL

(* Neither a child agent nor anything descended from housekeeping reaches  *)
(* the final response.                                                     *)
THEOREM OnlyForegroundAnswers == Spec => []ForegroundAnswers
<1>1. IInv => ForegroundAnswers
  BY DEF IInv, AgentInv, ForegroundAnswers
<1>2. QED
  BY <1>1, InductiveInvariant, PTL

(* The receipt of a turn is the row it captured, complete.                 *)
THEOREM OwnReceipts == Spec => []ReceiptsAreOwn
<1>1. IInv => ReceiptsAreOwn
  BY DEF IInv, TurnInv, ReceiptsAreOwn
<1>2. QED
  BY <1>1, InductiveInvariant, PTL

-----------------------------------------------------------------------------
(* The refinement: what each kind of step is to the abstract authority.    *)
Live == {t \in Turn : captured[t] # NoGoal /\ ~revoked[t]}
Completed == {t \in Turn : receipt[t] # NoGoal}
Answered == {t \in Turn : answers[t] # 0}

(* A step that at most revokes one captured turn is Revoke or a stutter.   *)
LEMMA RevokesAtMost ==
  ASSUME NEW t \in Turn, captured[t] # NoGoal,
         UNCHANGED <<captured, receipt, answers>>,
         \A u \in Turn : u # t => revoked'[u] = revoked[u],
         revoked[t] => revoked'[t]
  PROVE  [Authority!Next]_Authority!vars
<1>1. UNCHANGED <<Completed, Answered>>
  BY DEF Completed, Answered
<1>2. CASE revoked[t] \/ ~revoked'[t]
  <2>1. \A u \in Turn : u \in Live' <=> u \in Live
    BY <1>2 DEF Live
  <2>2. UNCHANGED Live
    BY <2>1 DEF Live
  <2>3. QED
    BY <1>1, <2>2 DEF Live, Completed, Answered, Authority!vars
<1>3. CASE ~revoked[t] /\ revoked'[t]
  <2>1. t \in Live /\ Live' = Live \ {t}
    BY <1>3 DEF Live
  <2>2. Authority!Revoke(t)
    BY <1>1, <2>1 DEF Live, Completed, Answered, Authority!Revoke
  <2>3. QED
    BY <2>2 DEF Authority!Next
<1>4. QED
  BY <1>2, <1>3

(* A step that leaves every turn's state alone is a stutter.               *)
LEMMA TurnsUnchanged ==
  ASSUME UNCHANGED <<captured, receipt, revoked, answers>>
  PROVE  [Authority!Next]_Authority!vars
BY DEF Authority!vars

(* Every step is a step or a stutter of the abstract authority.            *)
LEMMA AuthorityStep ==
  ASSUME IInv, [Next]_vars
  PROVE  [Authority!Next]_Authority!vars
<1>0. TypeOK
  BY DEF IInv
<1>1. ASSUME NEW t \in Turn,
             Authority!Begin(t) \/ Authority!Complete(t) \/ Authority!Answer(t)
      PROVE  [Authority!Next]_Authority!vars
  BY <1>1 DEF Authority!Next
<1>2. CASE Elsewhere \/ UNCHANGED vars
  BY <1>2, TurnsUnchanged DEF Elsewhere, vars, turnVars
<1>3. ASSUME NEW a \in Agent, NEW p, pc[a] # "free", Validate(a, p),
             UNCHANGED <<captured, receipt, answers>>
      PROVE  [Authority!Next]_Authority!vars
  <2>1. captured[turnOf[a]] # NoGoal
    BY <1>3 DEF IInv, AgentInv
  <2>2. QED
    BY <1>0, <1>3, <2>1, ValidateEffect, RevokesAtMost
<1>4. ASSUME NEW a \in Agent, CompleteGoalTurn(a)
      PROVE  [Authority!Next]_Authority!vars
  <2> DEFINE t == turnOf[a]
  <2>1. t \in Turn /\ captured[t] # NoGoal /\ UNCHANGED <<captured, answers>>
    BY <1>0, <1>4 DEF CompleteGoalTurn, IInv, AgentInv, TypeOK
  <2>2. CASE Refused(a)
    BY <2>1, <2>2, TurnsUnchanged DEF Refused
  <2>3. CASE Succeeded(t)
    <3>1. goal' \in Goal
      BY <1>0, <2>1, <2>3, CompletionTyped DEF Succeeded, TypeOK
    <3>2. /\ ~revoked[t] /\ receipt[t] = NoGoal /\ UNCHANGED revoked
          /\ receipt'[t] # NoGoal /\ \A u \in Turn : u # t => receipt'[u] = receipt[u]
      BY <1>0, <2>1, <2>3, <3>1 DEF Succeeded, TypeOK
    <3>3. /\ t \in Live \ Completed /\ Completed' = Completed \cup {t}
          /\ UNCHANGED <<Live, Answered>>
      BY <2>1, <3>2 DEF Live, Completed, Answered
    <3>4. PICK u \in Turn : u = t
      BY <2>1
    <3>5. Authority!Complete(u)
      BY <3>3, <3>4 DEF Live, Completed, Answered, Authority!Complete
    <3>6. QED
      BY <1>1, <3>5
  <2>4. CASE Failed(t)
    BY <1>0, <2>1, <2>4, RevokesAtMost DEF Failed, TypeOK
  <2>5. QED
    BY <1>4, <2>2, <2>3, <2>4 DEF CompleteGoalTurn
<1>5. ASSUME NEW a \in Agent, Finish(a)
      PROVE  [Authority!Next]_Authority!vars
  <2> DEFINE t == turnOf[a]
  <2>1. /\ t \in Turn /\ receipt[t] # NoGoal /\ answers[t] = 0
        /\ UNCHANGED <<captured, receipt>> /\ revoked'[t] /\ answers'[t] = 1
        /\ \A u \in Turn : u # t => revoked'[u] = revoked[u] /\ answers'[u] = answers[u]
    BY <1>0, <1>5 DEF Finish, IInv, AgentInv, TypeOK
  <2>2. /\ t \in Completed \ Answered /\ Answered' = Answered \cup {t}
        /\ Live' = Live \ {t} /\ UNCHANGED Completed
    BY <2>1 DEF Live, Completed, Answered
  <2>3. PICK u \in Turn : u = t
    BY <2>1
  <2>4. Authority!Answer(u)
    BY <2>2, <2>3 DEF Live, Completed, Answered, Authority!Answer
  <2>5. QED
    BY <1>1, <2>4
<1>6. ASSUME NEW a \in Agent, NEW t \in Turn, CaptureActiveGoal(a, t)
      PROVE  [Authority!Next]_Authority!vars
  <2>1. /\ captured[t] = NoGoal /\ captured'[t] # NoGoal
        /\ \A u \in Turn : u # t => captured'[u] = captured[u]
        /\ UNCHANGED <<receipt, revoked, answers>>
    <3>1. goal.id \in GoalId
      BY <1>0, <1>6 DEF CaptureActiveGoal, TypeOK, StoreTypeOK, Goal
    <3>2. captured[t] = NoGoal /\ captured' = [captured EXCEPT ![t] = goal.id]
      BY <1>6 DEF CaptureActiveGoal
    <3>3. QED
      BY <1>0, <1>6, <3>1, <3>2 DEF CaptureActiveGoal, TypeOK
  <2>2. ~revoked[t] /\ receipt[t] = NoGoal
    BY <2>1 DEF IInv, TurnInv
  <2>3. /\ t \notin Live \cup Completed /\ Live' = Live \cup {t}
        /\ UNCHANGED <<Completed, Answered>>
    BY <2>1, <2>2 DEF Live, Completed, Answered
  <2>4. Authority!Begin(t)
    BY <2>3 DEF Live, Completed, Answered, Authority!Begin
  <2>5. QED
    BY <1>1, <2>4
<1>7. ASSUME NEW a \in Agent, AgentStep(a)
      PROVE  [Authority!Next]_Authority!vars
  <2>1. CASE CrossBoundary(a) \/ RequireWork(a) \/ ReserveValidate(a)
    <3>1. pc[a] # "free" /\ UNCHANGED <<captured, receipt, answers>>
      BY <2>1 DEF CrossBoundary, RequireWork, ReserveValidate
    <3>2. PICK p : Validate(a, p)
      BY <2>1 DEF CrossBoundary, RequireWork, ReserveValidate
    <3>3. QED
      BY <1>3, <3>1, <3>2
  <2>2. CASE FinishWork(a) \/ Release(a) \/ Reserve(a) \/ DropReservation(a)
    BY <2>2, TurnsUnchanged DEF FinishWork, Release, Reserve, DropReservation, turnVars
  <2>3. QED
    BY <1>4, <1>5, <1>7, <2>1, <2>2 DEF AgentStep
<1>8. ASSUME NEW a \in Agent, Acquire(a)
      PROVE  [Authority!Next]_Authority!vars
  <2>1. ASSUME NEW t \in Turn, Dispatch(a, t)
        PROVE  [Authority!Next]_Authority!vars
    BY <2>1, TurnsUnchanged DEF Dispatch, turnVars
  <2>2. ASSUME NEW b \in Agent,
               ShareWithTool(a, b) \/ SpawnChild(a, b) \/ SpawnHousekeeping(a, b)
        PROVE  [Authority!Next]_Authority!vars
    BY <2>2, TurnsUnchanged
       DEF ShareWithTool, SpawnChild, SpawnHousekeeping, Share, turnVars
  <2>3. QED
    BY <1>6, <1>8, <2>1, <2>2 DEF Acquire
<1>9. QED
  BY <1>2, <1>7, <1>8 DEF Next

(* GoalTurn implements GoalAuthority: shared clones, races on the row and  *)
(* store failures never show as anything but one turn that works, completes*)
(* at most once, and answers at most once.                                 *)
THEOREM Implementation == Spec => ImplementsAuthority
<1>1. Init => Authority!Init
  BY DEF Init, Authority!Init
<1>2. QED
  BY <1>1, AuthorityStep, InductiveInvariant, PTL
     DEF Spec, ImplementsAuthority, Authority!Spec

-----------------------------------------------------------------------------
(* What a single step may do: the action properties.                       *)

(* Acquiring a turn leaves an agent at a boundary, and nothing else moves. *)
LEMMA AcquireMoves ==
  ASSUME TypeOK, NEW a \in Agent, Acquire(a)
  PROVE  /\ \A b \in Agent : pc'[b] # pc[b] => pc'[b] = "boundary"
         /\ UNCHANGED <<goal, receipt, revoked, answers>>
<1>1. ASSUME NEW b \in Agent, NEW t, NEW r, NEW bg, Attach(b, t, r, bg)
      PROVE  \A c \in Agent : pc'[c] # pc[c] => pc'[c] = "boundary"
  BY <1>1 DEF Attach, Goto, TypeOK
<1>2. ASSUME NEW t \in Turn, CaptureActiveGoal(a, t) \/ Dispatch(a, t)
      PROVE  /\ \A b \in Agent : pc'[b] # pc[b] => pc'[b] = "boundary"
             /\ UNCHANGED <<goal, receipt, revoked, answers>>
  BY <1>1, <1>2 DEF CaptureActiveGoal, Dispatch, storeVars, turnVars
<1>3. ASSUME NEW b \in Agent,
             ShareWithTool(a, b) \/ SpawnChild(a, b) \/ SpawnHousekeeping(a, b)
      PROVE  /\ \A c \in Agent : pc'[c] # pc[c] => pc'[c] = "boundary"
             /\ UNCHANGED <<goal, receipt, revoked, answers>>
  BY <1>1, <1>3 DEF ShareWithTool, SpawnChild, SpawnHousekeeping, Share,
                    storeVars, turnVars
<1>4. QED
  BY <1>2, <1>3 DEF Acquire

(* A step of an agent moves that agent only.                               *)
LEMMA StepMoves ==
  ASSUME TypeOK, NEW a \in Agent, AgentStep(a)
  PROVE  \A b \in Agent : b # a => pc'[b] = pc[b]
BY DEF AgentStep, CrossBoundary, FinishWork, RequireWork, CompleteGoalTurn,
       ReserveValidate, Reserve, Finish, DropReservation, Release, Goto, TypeOK

(* What one agent's move to "working" or to "final" says of its turn.      *)
Fenced(a) ==
  /\ pc'[a] = "working" =>
       /\ ~revoked[turnOf[a]] /\ receipt[turnOf[a]] = NoGoal
       /\ Workable(goal) /\ goal.id = captured[turnOf[a]]
  /\ pc'[a] = "final" =>
       ~revoked[turnOf[a]] /\ receipt[turnOf[a]] # NoGoal

(* Permission to work is given on the row as it is.                        *)
LEMMA WorkIsFenced ==
  ASSUME NEW a \in Agent, Validate(a, "work")
  PROVE  /\ ~revoked[turnOf[a]] /\ receipt[turnOf[a]] = NoGoal
         /\ Workable(goal) /\ goal.id = captured[turnOf[a]]
<1>1. Verdict(turnOf[a]) = "work"
  BY DEF Validate, Observe, Permission
<1>2. QED
  BY <1>1 DEF Verdict, Owned

(* Whoever moves was let through the fence, if the move needs it.          *)
LEMMA FenceStep ==
  ASSUME IInv, [Next]_vars, NEW b \in Agent, pc'[b] # pc[b]
  PROVE  Fenced(b)
<1>0. TypeOK
  BY DEF IInv
<1>1. CASE UNCHANGED vars \/ Elsewhere
  BY <1>1 DEF Elsewhere, vars, agentVars
<1>2. ASSUME NEW a \in Agent, Acquire(a) PROVE Fenced(b)
  BY <1>0, <1>2, AcquireMoves DEF Fenced
<1>3. ASSUME NEW a \in Agent, AgentStep(a) PROVE Fenced(b)
  <2>1. a = b
    BY <1>0, <1>3, StepMoves
  <2>2. CASE CrossBoundary(b)
    <3>1. PICK p \in {"work", "final", "return", "denied"} :
            /\ Validate(b, p)
            /\ Goto(b, CASE p = "work" -> "working"
                         [] p = "final" -> "granted"
                         [] OTHER -> "boundary")
      BY <2>2 DEF CrossBoundary
    <3>2. pc'[b] # "final" /\ (pc'[b] = "working" => p = "work")
      BY <1>0, <3>1 DEF Goto, TypeOK
    <3>3. QED
      BY <3>1, <3>2, WorkIsFenced DEF Fenced
  <2>3. CASE Reserve(b)
    <3>1. pc[b] = "reserving" /\ pc'[b] = IF Reservable(turnOf[b]) THEN "final" ELSE "boundary"
      BY <1>0, <2>3 DEF Reserve, Goto, TypeOK
    <3>2. QED
      BY <3>1 DEF Fenced, Reservable, IInv, AgentInv
  <2>4. CASE FinishWork(b) \/ RequireWork(b) \/ CompleteGoalTurn(b) \/ ReserveValidate(b)
             \/ Finish(b) \/ DropReservation(b) \/ Release(b)
    <3>1. pc'[b] # "working" /\ pc'[b] # "final"
      BY <1>0, <2>4 DEF FinishWork, RequireWork, CompleteGoalTurn, ReserveValidate,
                        Finish, DropReservation, Release, Goto, TypeOK
    <3>2. QED
      BY <3>1 DEF Fenced
  <2>5. QED
    BY <1>3, <2>1, <2>2, <2>3, <2>4 DEF AgentStep
<1>4. QED
  BY <1>1, <1>2, <1>3 DEF Next

(* An agent starts working, or earns the final response, only in a step in  *)
(* which the row says so and the turn is not revoked (validate,             *)
(* reserve_final_response).                                                 *)
THEOREM FenceIsKept == Spec => FenceHolds
<1>1. IInv /\ [Next]_vars =>
        [\A a \in Agent : pc'[a] # pc[a] => Fenced(a)]_vars
  BY FenceStep
<1>2. QED
  BY <1>1, InductiveInvariant, PTL DEF Spec, FenceHolds, Fenced

(* No transaction but the completing one makes a row complete.             *)
LEMMA StoreNeverCompletes ==
  ASSUME StoreTypeOK, StoreAction
  PROVE  ~BecameComplete
<1>1. ASSUME NEW b, SetGoal(b) PROVE ~BecameComplete
  BY <1>1 DEF SetGoal, BecameComplete
<1>2. ASSUME NEW s, s # "complete", goal \in Goal, WriteStatus(s) PROVE ~BecameComplete
  BY <1>2 DEF WriteStatus, BecameComplete, Goal
<1>3. ASSUME NEW total, goal \in Goal, RecordCompletedTurn(goal.id, total)
      PROVE  ~BecameComplete
  BY <1>3 DEF RecordCompletedTurn, OwnedActive, Owned, BecameComplete, Goal
<1>4. CASE ClearGoal
  BY <1>4 DEF ClearGoal, BecameComplete
<1>5. goal # NoGoal => goal \in Goal
  BY DEF StoreTypeOK
<1>6. QED
  BY <1>1, <1>2, <1>3, <1>4, <1>5
     DEF StoreAction, SetStatus, PauseActiveGoal, BudgetLimitGoal

(* An agent's step that makes the row complete is the completion of the    *)
(* turn that captured it.                                                  *)
LEMMA CompletionStep ==
  ASSUME IInv, [Next]_vars, BecameComplete
  PROVE  \E a \in Agent :
           /\ pc[a] = "completing" /\ pc'[a] # "completing"
           /\ ~background[a]
           /\ captured[turnOf[a]] = goal.id
           /\ receipt'[turnOf[a]] = goal'
<1>0. TypeOK
  BY DEF IInv
<1>1. CASE UNCHANGED vars
  BY <1>1 DEF vars, storeVars, BecameComplete
<1>2. CASE Elsewhere
  BY <1>0, <1>2, StoreNeverCompletes DEF Elsewhere, TypeOK
<1>3. ASSUME NEW a \in Agent, Acquire(a) PROVE FALSE
  BY <1>0, <1>3, AcquireMoves DEF BecameComplete
<1>4. ASSUME NEW a \in Agent, AgentStep(a)
      PROVE  CompleteGoalTurn(a) /\ ~UNCHANGED goal
  <2>1. ~UNCHANGED goal
    BY DEF BecameComplete
  <2>2. QED
    BY <1>4, <2>1 DEF AgentStep, CrossBoundary, FinishWork, RequireWork,
       ReserveValidate, Reserve, Finish, DropReservation, Release, storeVars
<1>5. ASSUME NEW a \in Agent, CompleteGoalTurn(a), ~UNCHANGED goal
      PROVE  /\ pc[a] = "completing" /\ pc'[a] # "completing"
             /\ ~background[a]
             /\ captured[turnOf[a]] = goal.id
             /\ receipt'[turnOf[a]] = goal'
  <2>1. pc[a] = "completing" /\ pc'[a] = "boundary" /\ turnOf[a] \in Turn
    BY <1>0, <1>5 DEF CompleteGoalTurn, Goto, TypeOK
  <2>2. role[a] # "housekeeping" /\ Succeeded(turnOf[a])
    BY <1>5 DEF CompleteGoalTurn, Refused, Failed, storeVars
  <2>3. ~background[a]
    BY <2>2 DEF IInv, AgentInv
  <2>4. captured[turnOf[a]] = goal.id
    BY <2>2 DEF Succeeded, CompleteGoal, OwnedActive, Owned
  <2>5. receipt'[turnOf[a]] = goal'
    BY <1>0, <2>1, <2>2 DEF Succeeded, TypeOK
  <2>6. QED
    BY <2>1, <2>3, <2>4, <2>5
<1>6. QED
  BY <1>1, <1>2, <1>3, <1>4, <1>5 DEF Next

(* A row becomes complete only by the completion of the turn that captured *)
(* it, outside housekeeping, which takes that row as its receipt           *)
(* (complete_goal_turn).                                                   *)
THEOREM CompletionIsOwn == Spec => CompletedByItsTurn
<1>1. IInv /\ [Next]_vars =>
        [BecameComplete =>
           \E a \in Agent :
             /\ pc[a] = "completing" /\ pc'[a] # "completing"
             /\ ~background[a]
             /\ captured[turnOf[a]] = goal.id
             /\ receipt'[turnOf[a]] = goal']_vars
  BY CompletionStep
<1>2. QED
  BY <1>1, InductiveInvariant, PTL DEF Spec, CompletedByItsTurn

(* What may revoke turn t in a step.                                       *)
Cause(t) ==
  \/ Verdict(t) = "denied"
  \/ answers'[t] > answers[t]
  \/ /\ receipt[t] = NoGoal
     /\ OwnedActive(goal, captured[t]) # "ok"
  \/ ByStoreFault(t)

(* A validation revokes its own turn, on what it read or because it could  *)
(* not read.                                                               *)
LEMMA ValidationRevokes ==
  ASSUME TypeOK, NEW a \in Agent, NEW p, Validate(a, p),
         pc[a] \in {"boundary", "working", "granted"},
         \A b \in Agent \ {a} : pc'[b] = pc[b],
         NEW t \in Turn, revoked'[t], ~revoked[t]
  PROVE  Cause(t)
<1>1. PICK verdict \in {"work", "final", "denied"} : Observe(turnOf[a], verdict)
  BY DEF Validate
<1>2. t = turnOf[a] /\ verdict = "denied"
  BY <1>1 DEF Observe, TypeOK
<1>3. QED
  BY <1>1, <1>2 DEF Observe, Cause, AtTheStore, ByStoreFault

(* A turn is revoked only in a step that has a cause for it.               *)
LEMMA CauseStep ==
  ASSUME IInv, [Next]_vars, NEW t \in Turn, revoked'[t], ~revoked[t]
  PROVE  Cause(t)
<1>0. TypeOK
  BY DEF IInv
<1>1. CASE UNCHANGED vars \/ Elsewhere
  BY <1>1 DEF Elsewhere, vars, turnVars
<1>2. ASSUME NEW a \in Agent, Acquire(a) PROVE Cause(t)
  BY <1>0, <1>2, AcquireMoves
<1>3. ASSUME NEW a \in Agent, AgentStep(a) PROVE Cause(t)
  <2>1. CASE CrossBoundary(a) \/ RequireWork(a) \/ ReserveValidate(a)
    <3>1. /\ pc[a] \in {"boundary", "working", "granted"} /\ \E p : Validate(a, p)
          /\ \A b \in Agent \ {a} : pc'[b] = pc[b]
      BY <1>0, <2>1 DEF CrossBoundary, RequireWork, ReserveValidate, Goto, TypeOK
    <3>2. QED
      BY <1>0, <3>1, ValidationRevokes
  <2>2. CASE CompleteGoalTurn(a)
    <3>1. pc[a] = "completing" /\ role[a] # "housekeeping" /\ Failed(turnOf[a])
      BY <2>2 DEF CompleteGoalTurn, Refused, Succeeded
    <3>2. t = turnOf[a]
      BY <1>0, <3>1 DEF Failed, TypeOK
    <3>3. \A b \in Agent \ {a} : pc'[b] = pc[b]
      BY <1>0, <2>2 DEF CompleteGoalTurn, Goto, TypeOK
    <3>4. QED
      BY <3>1, <3>2, <3>3 DEF Failed, Cause, AtTheStore, ByStoreFault
  <2>3. CASE Finish(a)
    <3>1. turnOf[a] \in Turn /\ t = turnOf[a] /\ answers[t] \in Nat
      BY <1>0, <2>3 DEF Finish, TypeOK
    <3>2. answers'[t] = answers[t] + 1
      BY <1>0, <2>3, <3>1 DEF Finish, TypeOK
    <3>3. QED
      BY <3>1, <3>2 DEF Cause
  <2>4. CASE FinishWork(a) \/ Reserve(a) \/ DropReservation(a) \/ Release(a)
    BY <2>4 DEF FinishWork, Reserve, DropReservation, Release, turnVars
  <2>5. QED
    BY <1>3, <2>1, <2>2, <2>3, <2>4 DEF AgentStep
<1>4. QED
  BY <1>1, <1>2, <1>3 DEF Next

(* A turn is revoked only on a stale row, by its final response, or by a   *)
(* store that fails under one of its holders (validate, complete_goal_turn,*)
(* finish).                                                                *)
THEOREM RevocationHasCause == Spec => RevokedForCause
<1>1. IInv /\ [Next]_vars =>
        [\A t \in Turn : revoked'[t] /\ ~revoked[t] => Cause(t)]_vars
  BY CauseStep
<1>2. QED
  BY <1>1, InductiveInvariant, PTL DEF Spec, RevokedForCause, Cause
=============================================================================

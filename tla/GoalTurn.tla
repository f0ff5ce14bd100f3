------------------------------ MODULE GoalTurn -------------------------------
(***************************************************************************)
(* The authority of a captured goal turn (GoalTurn, GoalTurnState and      *)
(* GoalTurnContext of core/src/goal.rs) under the most general use of it:  *)
(* any number of holders - the foreground query loop, its concurrent tool  *)
(* calls, child agents, housekeeping - share one turn's state through a    *)
(* mutex, while other processes change the row they all observe.           *)
(*                                                                         *)
(* The mutex makes one validate, one finish, one completion atomic with    *)
(* respect to the same turn, and the read inside validate is one SQLite    *)
(* read.  What the code does under two acquisitions is two actions here:   *)
(* reserve_final_response (validate, then reserve), and the GoalComplete   *)
(* tool (require_work, then the completing transaction).                   *)
(*                                                                         *)
(* Simplifications: request_attempted belongs to the dispatcher and is not *)
(* here; every holder uses the store the turn was captured from, so        *)
(* StoreMismatch cannot arise; the error a turn is revoked with is reduced *)
(* to the fact of its revocation.                                          *)
(***************************************************************************)
EXTENDS GoalStore, FiniteSets

CONSTANTS
  Turn,          \* captured turns, one per GoalTurnState
  Agent,         \* holders of a clone of a turn
  NoTurn,        \* an agent that holds none
  MaxTokens,     \* bound: the token totals other processes record
  MaxTurnCount,  \* bound: how often other processes record a turn
  StoreFaults    \* BOOLEAN: the store may be busy or unreadable

ASSUME TurnAssumption == NoTurn \notin Turn /\ NoGoal \notin GoalId
ASSUME BoundAssumption == MaxTokens \in Nat /\ MaxTurnCount \in Nat
ASSUME FaultAssumption == StoreFaults \in BOOLEAN

Role == {"foreground", "child", "housekeeping"}

(* boundary: between requests; granted: validate returned FinalResponse;   *)
(* completing: GoalComplete passed require_work; reserving: between the    *)
(* two halves of reserve_final_response; final: the reserved request is in *)
(* flight; finished: finish() ran and the reservation is not dropped yet.  *)
PC == {"free", "boundary", "working", "completing", "granted",
       "reserving", "final", "finished"}

VARIABLES
  captured,      \* captured[t]: id of the goal the turn was captured for, or NoGoal
  receipt,       \* receipt[t]: the row this turn completed, or NoGoal
  revoked,       \* revoked[t]: some holder observed a revocation
  inFlight,      \* inFlight[t]: final_in_flight
  turnOf, role, pc,  \* per agent
  answers,       \* history: answers[t], final responses finished
  background     \* history: agents descended from a housekeeping projection

turnVars == <<captured, receipt, revoked, inFlight, answers>>
agentVars == <<turnOf, role, pc, background>>
vars == <<storeVars, turnVars, agentVars>>

TypeOK ==
  /\ StoreTypeOK
  /\ captured \in [Turn -> GoalId \cup {NoGoal}]
  /\ receipt \in [Turn -> Goal \cup {NoGoal}]
  /\ revoked \in [Turn -> BOOLEAN]
  /\ inFlight \in [Turn -> BOOLEAN]
  /\ answers \in [Turn -> Nat]
  /\ turnOf \in [Agent -> Turn \cup {NoTurn}]
  /\ role \in [Agent -> Role]
  /\ pc \in [Agent -> PC]
  /\ background \in [Agent -> BOOLEAN]
  /\ \A a \in Agent : pc[a] # "free" => turnOf[a] # NoTurn

Init ==
  /\ StoreInit
  /\ captured = [t \in Turn |-> NoGoal]
  /\ receipt = [t \in Turn |-> NoGoal]
  /\ revoked = [t \in Turn |-> FALSE]
  /\ inFlight = [t \in Turn |-> FALSE]
  /\ answers = [t \in Turn |-> 0]
  /\ turnOf = [a \in Agent |-> NoTurn]
  /\ role = [a \in Agent |-> "foreground"]
  /\ pc = [a \in Agent |-> "free"]
  /\ background = [a \in Agent |-> FALSE]

-----------------------------------------------------------------------------
(* Validation: the observation fence. *)

(* Mutant of Verdict: a revocation is not remembered. *)
VerdictForgetful(t) ==
  IF Owned(goal, captured[t]) # "ok" THEN "denied"
  ELSE IF receipt[t] # NoGoal
       THEN IF goal = receipt[t] THEN "final" ELSE "denied"
       ELSE IF Workable(goal) THEN "work" ELSE "denied"

(* What one read of the row says of turn t, before any role is considered. *)
Verdict(t) ==
  IF revoked[t] \/ Owned(goal, captured[t]) # "ok" THEN "denied"
  ELSE IF receipt[t] # NoGoal
       THEN IF goal = receipt[t] THEN "final" ELSE "denied"
       ELSE IF Workable(goal) THEN "work" ELSE "denied"

(* A read that fails revokes like one that shows a stale row. *)
Observe(t, verdict) ==
  /\ verdict \in {Verdict(t)} \cup (IF StoreFaults THEN {"denied"} ELSE {})
  /\ revoked' = [revoked EXCEPT ![t] = @ \/ verdict = "denied"]

(* Mutant of Permission: a child is treated like the foreground. *)
PermissionOfChildToo(r, verdict) ==
  IF verdict = "final" /\ r = "housekeeping" THEN "denied" ELSE verdict

(* Only the foreground may give the final response; telling that to the    *)
(* other holders does not revoke the turn.                                 *)
Permission(r, verdict) ==
  IF verdict = "final" /\ r = "housekeeping" THEN "denied"
  ELSE IF verdict = "final" /\ r = "child" THEN "return"
  ELSE verdict

Validate(a, permission) ==
  \E verdict \in {"work", "final", "denied"} :
    /\ Observe(turnOf[a], verdict)
    /\ permission = Permission(role[a], verdict)

Goto(a, to) == pc' = [pc EXCEPT ![a] = to]

-----------------------------------------------------------------------------
(* Acquiring and sharing a turn. *)

Attach(a, t, r, bg) ==
  /\ pc[a] = "free"
  /\ turnOf' = [turnOf EXCEPT ![a] = t]
  /\ role' = [role EXCEPT ![a] = r]
  /\ background' = [background EXCEPT ![a] = bg]
  /\ Goto(a, "boundary")

(* The active row is captured into a fresh state, with no other check. *)
CaptureActiveGoal(a, t) ==
  /\ captured[t] = NoGoal
  /\ goal # NoGoal /\ goal.status = "active"
  /\ captured' = [captured EXCEPT ![t] = goal.id]
  /\ Attach(a, t, "foreground", FALSE)
  /\ UNCHANGED <<storeVars, receipt, revoked, inFlight, answers>>

(* The submission that owns the turn dispatches it again: a retry after an *)
(* error, on a clone of the foreground context.                            *)
Dispatch(a, t) ==
  /\ captured[t] # NoGoal
  /\ Attach(a, t, "foreground", FALSE)
  /\ UNCHANGED <<storeVars, turnVars>>

(* Mutant of ForChildWork: the projection upgrades housekeeping. *)
ForAnyChildWork(r) == "child"

ForChildWork(r) == IF r = "foreground" THEN "child" ELSE r
ForBackgroundWork(r) == "housekeeping"

(* Agent a hands its context to b: to a tool call as it is, to a child     *)
(* agent or to housekeeping through the projection.                        *)
Share(a, b, projected) ==
  /\ pc[a] # "free"
  /\ Attach(b, turnOf[a], projected, background[a] \/ projected = "housekeeping")
  /\ UNCHANGED <<storeVars, turnVars>>

ShareWithTool(a, b) == Share(a, b, role[a])
SpawnChild(a, b) == Share(a, b, ForChildWork(role[a]))
SpawnHousekeeping(a, b) == Share(a, b, ForBackgroundWork(role[a]))

(* An agent's task ends or is dropped; a reservation it holds goes first. *)
Release(a) ==
  /\ pc[a] \notin {"free", "final", "finished"}
  /\ turnOf' = [turnOf EXCEPT ![a] = NoTurn]
  /\ role' = [role EXCEPT ![a] = "foreground"]
  /\ background' = [background EXCEPT ![a] = FALSE]
  /\ Goto(a, "free")
  /\ UNCHANGED <<storeVars, turnVars>>

-----------------------------------------------------------------------------
(* Working under a turn. *)

(* The check before a request, a hook or a tool. *)
CrossBoundary(a) ==
  /\ pc[a] = "boundary"
  /\ \E p \in {"work", "final", "return", "denied"} :
       /\ Validate(a, p)
       /\ Goto(a, CASE p = "work" -> "working"
                    [] p = "final" -> "granted"
                    [] OTHER -> "boundary")
  /\ UNCHANGED <<storeVars, captured, receipt, inFlight, answers,
                 turnOf, role, background>>

FinishWork(a) ==
  /\ pc[a] = "working" /\ Goto(a, "boundary")
  /\ UNCHANGED <<storeVars, turnVars, turnOf, role, background>>

(* GoalComplete, first half. *)
RequireWork(a) ==
  /\ pc[a] = "working"
  /\ \E p \in {"work", "final", "return", "denied"} :
       /\ Validate(a, p)
       /\ Goto(a, IF p = "work" THEN "completing" ELSE "boundary")
  /\ UNCHANGED <<storeVars, captured, receipt, inFlight, answers,
                 turnOf, role, background>>

(* Mutant of Refused: a refused completion also revokes the turn. *)
RefusedWithRevocation(a) ==
  /\ role[a] = "housekeeping" \/ revoked[turnOf[a]] \/ receipt[turnOf[a]] # NoGoal
  /\ revoked' = [revoked EXCEPT ![turnOf[a]] = TRUE]
  /\ UNCHANGED <<storeVars, receipt>>

(* Mutant of Succeeded: the revocation is not looked at again. *)
SucceededThoughRevoked(t) ==
  /\ receipt[t] = NoGoal
  /\ CompleteGoal(captured[t])
  /\ receipt' = [receipt EXCEPT ![t] = goal']
  /\ UNCHANGED revoked

(* GoalComplete, second half: complete_goal_turn.  Housekeeping is refused *)
(* first.  Then a store without its path revokes the turn, whatever it has *)
(* been through; else a revoked turn and a second completion are refused   *)
(* without effect, and the transaction leaves the turn its receipt, or     *)
(* revokes it by failing.                                                  *)
Refused(a) ==
  /\ role[a] = "housekeeping" \/ revoked[turnOf[a]] \/ receipt[turnOf[a]] # NoGoal
  /\ UNCHANGED <<storeVars, receipt, revoked>>

Succeeded(t) ==
  /\ ~revoked[t] /\ receipt[t] = NoGoal
  /\ CompleteGoal(captured[t])
  /\ receipt' = [receipt EXCEPT ![t] = goal']
  /\ UNCHANGED revoked

Failed(t) ==
  /\ \/ StoreFaults
     \/ /\ ~revoked[t] /\ receipt[t] = NoGoal
        /\ OwnedActive(goal, captured[t]) # "ok"
  /\ revoked' = [revoked EXCEPT ![t] = TRUE]
  /\ UNCHANGED <<storeVars, receipt>>

CompleteGoalTurn(a) ==
  /\ pc[a] = "completing" /\ Goto(a, "boundary")
  /\ \/ Refused(a)
     \/ role[a] # "housekeeping" /\ (Succeeded(turnOf[a]) \/ Failed(turnOf[a]))
  /\ UNCHANGED <<captured, inFlight, answers, turnOf, role, background>>

-----------------------------------------------------------------------------
(* The one final response. *)

ReserveValidate(a) ==
  /\ pc[a] = "granted"
  /\ \E p \in {"work", "final", "return", "denied"} :
       /\ Validate(a, p)
       /\ Goto(a, IF p = "final" THEN "reserving" ELSE "boundary")
  /\ UNCHANGED <<storeVars, captured, receipt, inFlight, answers,
                 turnOf, role, background>>

(* Mutant of Reservable: a revocation is not looked at again. *)
ReservableUnchecked(t) == ~inFlight[t]

Reservable(t) == ~revoked[t] /\ ~inFlight[t]

Reserve(a) ==
  LET t == turnOf[a] IN
  /\ pc[a] = "reserving"
  /\ Goto(a, IF Reservable(t) THEN "final" ELSE "boundary")
  /\ inFlight' = [inFlight EXCEPT ![t] = @ \/ Reservable(t)]
  /\ UNCHANGED <<storeVars, captured, receipt, revoked, answers,
                 turnOf, role, background>>

(* finish(): a coherent final message arrived, and spends the turn. *)
Finish(a) ==
  LET t == turnOf[a] IN
  /\ pc[a] = "final" /\ Goto(a, "finished")
  /\ revoked' = [revoked EXCEPT ![t] = TRUE]
  /\ answers' = [answers EXCEPT ![t] = @ + 1]
  /\ UNCHANGED <<storeVars, captured, receipt, inFlight,
                 turnOf, role, background>>

(* Drop of the reservation, after finish() or after a failed attempt. *)
DropReservation(a) ==
  /\ pc[a] \in {"final", "finished"}
  /\ Goto(a, "boundary")
  /\ inFlight' = [inFlight EXCEPT ![turnOf[a]] = FALSE]
  /\ UNCHANGED <<storeVars, captured, receipt, revoked, answers,
                 turnOf, role, background>>

-----------------------------------------------------------------------------
(* The row as other processes and the user change it, in one step each. *)

StoreAction ==
  \/ \E b \in Budget \cup {NoBudget} : SetGoal(b)
  \/ \E s \in {"active", "paused"} : SetStatus(s)
  \/ ClearGoal /\ goal # NoGoal
  \/ /\ goal # NoGoal /\ goal.turns < MaxTurnCount
     /\ \E total \in 0..MaxTokens : RecordCompletedTurn(goal.id, total)
  \/ goal # NoGoal /\ PauseActiveGoal(goal.id)
  \/ goal # NoGoal /\ BudgetLimitGoal(goal.id)

Elsewhere == StoreAction /\ UNCHANGED <<turnVars, agentVars>>

AgentStep(a) ==
  \/ CrossBoundary(a) \/ FinishWork(a)
  \/ RequireWork(a) \/ CompleteGoalTurn(a)
  \/ ReserveValidate(a) \/ Reserve(a) \/ Finish(a) \/ DropReservation(a)
  \/ Release(a)

Acquire(a) ==
  \/ \E t \in Turn : CaptureActiveGoal(a, t) \/ Dispatch(a, t)
  \/ \E b \in Agent : ShareWithTool(a, b) \/ SpawnChild(a, b) \/ SpawnHousekeeping(a, b)

Next == Elsewhere \/ \E a \in Agent : AgentStep(a) \/ Acquire(a)

Spec == Init /\ [][Next]_vars

-----------------------------------------------------------------------------
(* Properties. *)

Holding(a) == pc[a] \in {"final", "finished"}

(* reserve_final_response, finish and Drop: of all holders of a turn, on   *)
(* whatever interleaving, one has the reservation, and it is marked.       *)
OneReservation ==
  \A a, b \in Agent :
    /\ Holding(a) => inFlight[turnOf[a]]
    /\ Holding(a) /\ Holding(b) /\ turnOf[a] = turnOf[b] => a = b

(* The user sees at most one final response per turn, whatever was retried *)
(* or dropped, and only of a turn that completed its goal.                 *)
OneFinalResponse ==
  \A t \in Turn : answers[t] <= 1 /\ (answers[t] = 1 => receipt[t] # NoGoal)

(* Only a foreground clone comes near the final response, and no agent     *)
(* that descends from a housekeeping projection ever does.                 *)
ForegroundAnswers ==
  \A a \in Agent :
    pc[a] \in {"granted", "reserving", "final", "finished"}
      => role[a] = "foreground" /\ ~background[a]

(* A receipt is the turn's own goal, complete. *)
ReceiptsAreOwn ==
  \A t \in Turn : receipt[t] # NoGoal =>
    receipt[t].id = captured[t] /\ receipt[t].status = "complete"

(* The induction behind the properties above: what they rest on are the    *)
(* facts that a reservation in flight belongs to a turn not answered yet,  *)
(* and that whoever nears the final response does so under a receipt.      *)
TurnInv(t) ==
  /\ revoked[t] \/ receipt[t] # NoGoal => captured[t] # NoGoal
  /\ receipt[t] # NoGoal =>
       receipt[t].id = captured[t] /\ receipt[t].status = "complete"
  /\ answers[t] <= 1
  /\ answers[t] # 0 => revoked[t] /\ receipt[t] # NoGoal

AgentInv(a) ==
  /\ background[a] => role[a] = "housekeeping"
  /\ pc[a] # "free" => captured[turnOf[a]] # NoGoal
  /\ pc[a] \in {"granted", "reserving", "final", "finished"} =>
       role[a] = "foreground" /\ receipt[turnOf[a]] # NoGoal
  /\ pc[a] = "final" => answers[turnOf[a]] = 0

IInv == /\ TypeOK
        /\ \A t \in Turn : TurnInv(t)
        /\ \A a \in Agent : AgentInv(a)
        /\ OneReservation

(* A row becomes complete only in a step of the turn that captured it, by  *)
(* an agent with no housekeeping ancestor, which leaves the turn that very *)
(* row as its receipt; a replacement installed meanwhile is never touched. *)
BecameComplete == /\ goal' # NoGoal /\ goal'.status = "complete"
                  /\ goal # NoGoal => goal.status # "complete"
CompletedByItsTurn ==
  [][BecameComplete =>
       \E a \in Agent :
         /\ pc[a] = "completing" /\ pc'[a] # "completing"
         /\ ~background[a]
         /\ captured[turnOf[a]] = goal.id
         /\ receipt'[turnOf[a]] = goal']_vars

(* The fence: an agent starts working, or earns the final response, only   *)
(* in a step in which the row says so, and never once any other holder saw *)
(* the turn revoked.                                                       *)
FenceHolds ==
  [][\A a \in Agent : pc'[a] # pc[a] =>
       /\ pc'[a] = "working" =>
            /\ ~revoked[turnOf[a]] /\ receipt[turnOf[a]] = NoGoal
            /\ Workable(goal) /\ goal.id = captured[turnOf[a]]
       /\ pc'[a] = "final" =>
            ~revoked[turnOf[a]] /\ receipt[turnOf[a]] # NoGoal]_vars

(* Agent a is about to read the store, or to write to it.                  *)
AtTheStore(a) ==
  \/ pc[a] \in {"boundary", "working", "granted"}
  \/ pc[a] = "completing" /\ role[a] # "housekeeping"

(* The step is that of a holder of turn t which finds the store failing.   *)
ByStoreFault(t) ==
  /\ StoreFaults
  /\ \E a \in Agent : /\ turnOf[a] = t /\ AtTheStore(a)
                      /\ \A b \in Agent \ {a} : pc'[b] = pc[b]

(* A turn is revoked only for cause: a stale row at the moment of a read,  *)
(* the end of its final response, or a store that fails under the holder   *)
(* whose step it is.  In particular a child or housekeeping holder that is *)
(* told no, and where the store works a second completion, do not take the *)
(* final response away from the foreground.                                *)
RevokedForCause ==
  [][\A t \in Turn : revoked'[t] /\ ~revoked[t] =>
       \/ Verdict(t) = "denied"
       \/ answers'[t] > answers[t]
       \/ /\ receipt[t] = NoGoal
          /\ OwnedActive(goal, captured[t]) # "ok"
       \/ ByStoreFault(t)]_vars

(* What this module implements. *)
Authority == INSTANCE GoalAuthority WITH
  live <- {t \in Turn : captured[t] # NoGoal /\ ~revoked[t]},
  completed <- {t \in Turn : receipt[t] # NoGoal},
  answered <- {t \in Turn : answers[t] # 0}

ImplementsAuthority == Authority!Spec
=============================================================================

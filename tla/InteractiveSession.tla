-------------------------- MODULE InteractiveSession --------------------------
(***************************************************************************)
(* The event loop of the interactive program ('main in cli/src/main.rs):   *)
(* one thread that draws frames, and at most one query task beside it.     *)
(* A frame is a fixed sequence of steps; the task, the remote control and  *)
(* the user act between any two of them.  What the task says arrives       *)
(* through a channel that the frame drains in one place, what it returns   *)
(* is looked at in another, so the two can be a frame apart.               *)
(*                                                                         *)
(* Texts stand for what is typed or sent, never for slash commands.  The   *)
(* transcript, the file dialog, switching sessions and what a goal decides *)
(* (GoalLoop) are not modelled: whether a goal continues is a choice.      *)
(***************************************************************************)
EXTENDS Naturals, Sequences, SequencesExt

CONSTANTS
  Message,         \* texts the local user may submit
  Remote,          \* texts the remote control may send
  Empty,           \* the empty prompt
  MaxAutoRetries,  \* MAX_AUTO_RETRIES
  Renderer,        \* "Classic" or "Next"
  Features         \* bound: which of the features below the environment has

Text == Message \cup Remote

ASSUME TextAssumption == Message \cap Remote = {} /\ Empty \notin Text
ASSUME RetryAssumption == MaxAutoRetries \in Nat
ASSUME RendererAssumption == Renderer \in {"Classic", "Next"}
ASSUME FeatureAssumption ==
  Features \subseteq {"goal", "limits", "fails", "interrupts", "compacts", "disconnects"}

Phase == {"input", "drain", "settle", "bridge", "hangup", "tick", "retry", "cancel", "finish"}
Outcome == {"EndTurn", "RateLimit", "Error", "Cancelled"}
Kind == {"none", "turn", "compact"}
Origin == {"none", "key", "timer", "synthetic"}

VARIABLES
  phase,           \* where in the frame the loop is
  prompt,          \* prompt_input.text
  queue,           \* queued_messages
  autoSubmit,      \* pending_auto_submit
  isStreaming,
  query,           \* current_query: its kind, and "running" or its outcome
  cancelled,       \* the query's token is cancelled
  undrained,       \* what the events not drained yet leave is_streaming at
  displaced,       \* history: a query was spawned in the place of another
  owner,           \* goal_turn: "none", "held" or "abandoned"
  cancellation,    \* TurnCancellation
  recovery,        \* RateLimitRecoveryState
  remote,          \* pending_remote_prompts and the channel behind it
  connected,       \* bridge_runtime: there is a remote control
  full,            \* the context meter is over the compaction threshold
  autoCompact,     \* auto_compact_enabled
  entered,         \* history: local texts on which Enter was pressed
  sent,            \* history: texts the remote control sent
  ran              \* history: how often each text was dispatched, up to 2

inputVars == <<prompt, queue, autoSubmit>>
taskVars == <<query, cancelled, undrained, displaced>>
remoteVars == <<remote, connected>>
historyVars == <<entered, sent, ran>>
vars == <<phase, inputVars, isStreaming, taskVars, owner, cancellation, recovery,
          remoteVars, full, autoCompact, historyVars>>

Recovery == [visible : BOOLEAN, armed : BOOLEAN, used : 0..MaxAutoRetries,
             pending : Origin, abandoned : BOOLEAN]

TypeOK ==
  /\ phase \in Phase
  /\ prompt \in Text \cup {Empty}
  /\ queue \in Seq(Text)
  /\ autoSubmit \in BOOLEAN
  /\ isStreaming \in BOOLEAN
  /\ query \in [kind : Kind, status : {"running"} \cup Outcome]
  /\ cancelled \in BOOLEAN
  /\ undrained \in {"nothing", "streaming", "stopped"}
  /\ displaced \in BOOLEAN
  /\ owner \in {"none", "held", "abandoned"}
  /\ cancellation \in {"Idle", "Requested", "AwaitingRuntime"}
  /\ recovery \in Recovery
  /\ remote \in Seq(Remote) /\ connected \in BOOLEAN
  /\ full \in BOOLEAN /\ autoCompact \in BOOLEAN
  /\ entered \subseteq Text /\ sent \subseteq Remote
  /\ ran \in [Text -> 0..2]

NoQuery == [kind |-> "none", status |-> "running"]
Idle == query.kind = "none"
Running == query.kind # "none" /\ query.status = "running"

Init ==
  /\ phase = "input" /\ prompt = Empty /\ queue = <<>>
  /\ autoSubmit = FALSE /\ isStreaming = FALSE
  /\ query = NoQuery /\ cancelled = FALSE /\ undrained = "nothing" /\ displaced = FALSE
  /\ owner = "none" /\ cancellation = "Idle"
  /\ recovery = [visible |-> FALSE, armed |-> FALSE, used |-> 0,
                 pending |-> "none", abandoned |-> FALSE]
  /\ remote = <<>> /\ connected = TRUE /\ full = FALSE /\ autoCompact = TRUE
  /\ entered = {} /\ sent = {} /\ ran = [x \in Text |-> 0]

-----------------------------------------------------------------------------
(* RateLimitRecoveryState. *)

Dismissed(r) ==
  [r EXCEPT !.abandoned = TRUE, !.visible = FALSE, !.armed = FALSE, !.pending = "none"]

RetryRequested(r, origin) ==
  [r EXCEPT !.pending = origin, !.visible = FALSE, !.armed = FALSE]

MayArm(r) == r.used < MaxAutoRetries

(* A delay short enough to wait for was given, or not. *)
Opened(r, short) ==
  [r EXCEPT !.abandoned = FALSE, !.visible = TRUE, !.pending = "none",
            !.armed = short /\ MayArm(r)]

IsPending(r) == r.visible \/ r.pending # "none"

(* A submission clears the recovery and takes its abandonment. *)
Cleared(r) == [Dismissed(r) EXCEPT !.abandoned = FALSE]

-----------------------------------------------------------------------------
(* A query is started for the owner of the turn. *)
Start(kind) ==
  /\ query' = [kind |-> kind, status |-> "running"]
  /\ cancelled' = FALSE /\ isStreaming' = TRUE /\ UNCHANGED undrained

(* Its handle is stored in current_query, in the place of what is there. *)
Spawn(kind) == Start(kind) /\ displaced' = (displaced \/ ~Idle)

(* A text is dispatched as a turn of its own. *)
Submit(x) ==
  /\ Spawn("turn") /\ owner' = "held"
  /\ recovery' = Cleared(recovery)
  /\ ran' = [ran EXCEPT ![x] = IF @ = 2 THEN 2 ELSE @ + 1]

(* abandon_interactive_turn, but for the recovery it dismisses. *)
Abandon ==
  /\ owner' = IF owner = "none" THEN "none" ELSE "abandoned"
  /\ cancelled' = (Idle => cancelled)
  /\ UNCHANGED <<query, undrained, displaced>>

-----------------------------------------------------------------------------
(* The first part of a frame: at most one key, then most keys go on to the *)
(* rest of the frame and a few start the next one at once.                 *)

Synthesize == autoSubmit /\ ~isStreaming

(* A key that the user pressed: a synthetic Enter goes before it. *)
Key == phase = "input" /\ ~Synthesize

NoKey ==
  /\ Key /\ phase' = "drain"
  /\ UNCHANGED <<inputVars, isStreaming, taskVars, owner, cancellation, recovery,
                 remoteVars, full, autoCompact, historyVars>>

(* The user types a text; a modal would take the keys. *)
Type(m) ==
  /\ Key /\ ~recovery.visible /\ prompt = Empty
  /\ m \notin entered /\ prompt' = m /\ phase' = "drain"
  /\ UNCHANGED <<queue, autoSubmit, isStreaming, taskVars, owner, cancellation,
                 recovery, remoteVars, full, autoCompact, historyVars>>

(* Enter with the recovery modal open asks for a retry. *)
EnterModal ==
  /\ recovery.visible
  /\ recovery' = RetryRequested(recovery, IF Synthesize THEN "synthetic" ELSE "key")
  /\ phase' = "drain"
  /\ UNCHANGED <<prompt, queue, isStreaming, taskVars, owner, historyVars>>

(* Mutant of EnterBusy: between two messages of a query the text is dropped. *)
EnterBusyDrops ==
  /\ ~recovery.visible /\ (isStreaming \/ (~Idle /\ prompt # Empty))
  /\ queue' = IF prompt = Empty \/ ~isStreaming THEN queue ELSE Append(queue, prompt)
  /\ prompt' = Empty /\ phase' = "input"
  /\ entered' = IF prompt = Empty THEN entered ELSE entered \cup {prompt}
  /\ UNCHANGED <<isStreaming, taskVars, owner, recovery, sent, ran>>

(* Enter while a query streams or runs puts the prompt in the queue. *)
EnterBusy ==
  /\ ~recovery.visible /\ (isStreaming \/ (~Idle /\ prompt # Empty))
  /\ queue' = IF prompt = Empty THEN queue ELSE Append(queue, prompt)
  /\ prompt' = Empty /\ phase' = "input"
  /\ entered' = IF prompt = Empty THEN entered ELSE entered \cup {prompt}
  /\ UNCHANGED <<isStreaming, taskVars, owner, recovery, sent, ran>>

EnterIdle ==
  /\ ~recovery.visible /\ ~isStreaming /\ prompt # Empty /\ Idle
  /\ Submit(prompt) /\ prompt' = Empty /\ phase' = "input"
  /\ entered' = entered \cup {prompt}
  /\ UNCHANGED <<queue, sent>>

(* Enter on an empty prompt opens the reader of the last response. *)
EnterEmpty ==
  /\ ~recovery.visible /\ ~isStreaming /\ prompt = Empty /\ phase' = "input"
  /\ UNCHANGED <<prompt, queue, isStreaming, taskVars, owner, recovery, historyVars>>

(* Enter, pressed by the user or synthesized for a queued message. *)
Enter ==
  /\ phase = "input" /\ autoSubmit' = (autoSubmit /\ isStreaming)
  /\ EnterModal \/ EnterBusy \/ EnterIdle \/ EnterEmpty
  /\ UNCHANGED <<cancellation, remoteVars, full, autoCompact>>

(* Only the Next renderer asks the loop to cancel. *)
Requested == IF Renderer = "Next" THEN "Requested" ELSE cancellation

(* Esc dismisses the recovery modal, or stops showing the stream. *)
Escape ==
  /\ Key /\ "interrupts" \in Features /\ phase' = "drain"
  /\ \/ /\ recovery.visible /\ recovery' = Dismissed(recovery)
        /\ UNCHANGED <<isStreaming, cancellation>>
     \/ /\ ~recovery.visible /\ isStreaming /\ isStreaming' = FALSE
        /\ cancellation' = Requested /\ UNCHANGED recovery
  /\ UNCHANGED <<inputVars, taskVars, owner, remoteVars, full, autoCompact, historyVars>>

(* handle_exit_key on the interrupt key; exiting is not modelled. *)
Interrupt ==
  /\ Key /\ "interrupts" \in Features /\ phase' = "input"
  /\ \/ /\ IsPending(recovery) /\ UNCHANGED <<isStreaming, prompt>>
        /\ cancellation' = IF cancellation = "Requested" THEN "AwaitingRuntime"
                           ELSE cancellation
     \/ /\ ~IsPending(recovery) /\ isStreaming /\ isStreaming' = FALSE
        /\ cancellation' = IF Requested = "Requested" THEN "AwaitingRuntime"
                           ELSE cancellation
        /\ UNCHANGED prompt
     \/ /\ ~IsPending(recovery) /\ ~isStreaming /\ prompt' = Empty
        /\ cancellation' = IF cancellation = "Requested" THEN "AwaitingRuntime"
                           ELSE cancellation
        /\ UNCHANGED isStreaming
  /\ Abandon /\ recovery' = Dismissed(recovery)
  /\ UNCHANGED <<queue, autoSubmit, remoteVars, full, autoCompact, historyVars>>

-----------------------------------------------------------------------------
(* The rest of the frame. *)

(* Events of the query, in order: the last one decides. *)
Drain ==
  /\ phase = "drain" /\ phase' = "settle"
  /\ isStreaming' = CASE undrained = "nothing" -> isStreaming
                      [] undrained = "streaming" -> TRUE
                      [] undrained = "stopped" -> FALSE
  /\ \/ UNCHANGED full
     \/ "compacts" \in Features /\ undrained = "stopped" /\ full' = TRUE
  /\ undrained' = "nothing"
  /\ UNCHANGED <<inputVars, query, cancelled, displaced, owner, cancellation, recovery,
                 remoteVars, autoCompact, historyVars>>

(* settle_abandoned_turn: an abandoned turn keeps its authority until its  *)
(* task has drained.                                                       *)
Settled ==
  CASE ~(recovery.abandoned \/ owner = "abandoned") -> owner
    [] owner = "none" \/ Idle -> "none"
    [] OTHER -> "abandoned"

(* Then an idle session with a full context may be compacted; an error on  *)
(* display holds that back.                                                *)
Settle ==
  /\ phase = "settle" /\ phase' = "bridge"
  /\ recovery' = [recovery EXCEPT !.abandoned = FALSE]
  /\ \/ /\ full /\ autoCompact /\ Idle /\ ~isStreaming /\ ~IsPending(recovery)
        /\ Spawn("compact") /\ owner' = "none"
     \/ owner' = Settled /\ UNCHANGED <<taskVars, isStreaming>>
  /\ UNCHANGED <<inputVars, cancellation, remoteVars, full, autoCompact, historyVars>>

(* Mutant of Bridge: a remote prompt does not wait for the task. *)
BridgeEarly ==
  /\ phase = "bridge" /\ phase' = "tick"
  /\ IF remote # <<>> /\ ~isStreaming
     THEN /\ prompt' = Head(remote) /\ remote' = Tail(remote) /\ Submit(Head(remote))
     ELSE UNCHANGED <<prompt, remote, taskVars, isStreaming, owner, recovery, ran>>
  /\ UNCHANGED <<queue, autoSubmit, cancellation, connected, full, autoCompact, entered, sent>>

(* A remote prompt starts a turn when nothing runs.  Its text is also put  *)
(* in the local prompt.                                                    *)
Bridge ==
  /\ phase = "bridge" /\ phase' = "tick"
  /\ IF remote # <<>> /\ ~isStreaming /\ Idle
     THEN /\ prompt' = Head(remote) /\ remote' = Tail(remote) /\ Submit(Head(remote))
     ELSE UNCHANGED <<prompt, remote, taskVars, isStreaming, owner, recovery, ran>>
  /\ UNCHANGED <<queue, autoSubmit, cancellation, connected, full, autoCompact, entered, sent>>

(* The remote control cancels whatever runs. *)
RemoteCancel ==
  /\ phase = "bridge" /\ connected /\ Remote # {} /\ "interrupts" \in Features
  /\ Abandon /\ recovery' = Dismissed(recovery) /\ isStreaming' = FALSE
  /\ cancellation' = IF (~Idle /\ Renderer = "Next") \/ cancellation = "Requested"
                     THEN "AwaitingRuntime" ELSE cancellation
  /\ UNCHANGED <<phase, inputVars, remoteVars, full, autoCompact, historyVars>>

(* The remote control disconnects, fails or is lost: what waits is dropped, *)
(* and the tasks behind it are stopped.                                    *)
Disconnect ==
  /\ phase = "bridge" /\ connected /\ "disconnects" \in Features
  /\ phase' = "hangup" /\ remote' = <<>>
  /\ UNCHANGED <<inputVars, isStreaming, taskVars, owner, cancellation, recovery,
                 connected, full, autoCompact, historyVars>>

(* Mutant of HungUp: only what waited before is dropped. *)
HungUpUndrained ==
  /\ phase = "hangup" /\ phase' = "bridge"
  /\ connected' = FALSE /\ UNCHANGED remote
  /\ UNCHANGED <<inputVars, isStreaming, taskVars, owner, cancellation, recovery,
                 full, autoCompact, historyVars>>

(* They have ended, and what they sent until then is dropped too.  Nothing *)
(* connects again.                                                         *)
HungUp ==
  /\ phase = "hangup" /\ phase' = "bridge"
  /\ connected' = FALSE /\ remote' = <<>>
  /\ UNCHANGED <<inputVars, isStreaming, taskVars, owner, cancellation, recovery,
                 full, autoCompact, historyVars>>

(* The countdown of the recovery modal may be over. *)
Tick ==
  /\ phase = "tick" /\ phase' = "retry"
  /\ \/ UNCHANGED recovery
     \/ /\ recovery.visible /\ recovery.armed
        /\ recovery' = [RetryRequested(recovery, "timer") EXCEPT !.used = @ + 1]
  /\ UNCHANGED <<inputVars, isStreaming, taskVars, owner, cancellation, remoteVars,
                 full, autoCompact, historyVars>>

Retry ==
  /\ phase = "retry" /\ phase' = "cancel"
  /\ IF Idle /\ ~isStreaming /\ recovery.pending # "none"
     THEN /\ recovery' = [recovery EXCEPT !.pending = "none"]
          /\ IF owner = "held" THEN Spawn("turn") ELSE UNCHANGED <<taskVars, isStreaming>>
     ELSE UNCHANGED <<recovery, taskVars, isStreaming>>
  /\ UNCHANGED <<inputVars, owner, cancellation, remoteVars, full, autoCompact, historyVars>>

(* The request of a key is performed through the token of the turn. *)
Cancel ==
  /\ phase = "cancel" /\ phase' = "finish"
  /\ cancellation' = IF cancellation = "Requested" THEN "AwaitingRuntime" ELSE cancellation
  /\ IF cancellation = "Requested" /\ ~Idle
     THEN Abandon /\ recovery' = Dismissed(recovery)
     ELSE UNCHANGED <<owner, taskVars, recovery>>
  /\ UNCHANGED <<inputVars, isStreaming, remoteVars, full, autoCompact, historyVars>>

-----------------------------------------------------------------------------
(* The task has ended. *)

Finished == query.kind # "none" /\ query.status # "running"

(* How the outcome changes the recovery. *)
RecoveryAfter(r) ==
  CASE query.status = "RateLimit" /\ owner # "abandoned" ->
         {Opened(r, short) : short \in BOOLEAN}
    [] query.status = "EndTurn" -> {[r EXCEPT !.used = 0]}
    [] OTHER -> {r}

(* Mutant of NextQueued: the message stays in the queue. *)
NextQueuedKept ==
  IF queue = <<>> THEN UNCHANGED inputVars
  ELSE prompt' = Head(queue) /\ autoSubmit' = TRUE /\ UNCHANGED queue

(* Mutant of NextQueued: the Enter that submits it is not synthesized. *)
NextQueuedSilent ==
  IF queue = <<>> THEN UNCHANGED inputVars
  ELSE prompt' = Head(queue) /\ queue' = Tail(queue) /\ UNCHANGED autoSubmit

(* The next queued message takes the place of the prompt, whatever is in it. *)
NextQueued ==
  IF queue = <<>> THEN UNCHANGED inputVars
  ELSE prompt' = Head(queue) /\ queue' = Tail(queue) /\ autoSubmit' = TRUE

(* Mutant of Continues: an abandoned turn continues as well. *)
ContinuesAbandoned ==
  /\ "goal" \in Features /\ query.kind = "turn" /\ query.status = "EndTurn"
  /\ owner # "none" /\ Start("turn") /\ UNCHANGED <<owner, displaced>>

(* A turn that came to its end may be followed by one for the goal; it was  *)
(* taken out of current_query already.                                     *)
Continues ==
  /\ "goal" \in Features /\ query.kind = "turn" /\ query.status = "EndTurn"
  /\ owner = "held" /\ Start("turn") /\ UNCHANGED <<owner, displaced>>

(* An error leaves the owner for the retry; everything else releases it.   *)
Releases ==
  /\ query' = NoQuery /\ isStreaming' = FALSE /\ UNCHANGED <<cancelled, undrained, displaced>>
  /\ owner' = IF \/ query.kind = "compact" \/ owner = "abandoned"
                 \/ query.status \in {"EndTurn", "Cancelled"}
              THEN "none" ELSE owner

(* settle_cancellation, at the end of a frame without a task. *)
Confirmed == IF query'.kind = "none" THEN "Idle" ELSE cancellation

FinishTask ==
  /\ phase = "finish" /\ Finished /\ phase' = "input"
  /\ recovery' \in RecoveryAfter(recovery)
  /\ NextQueued
  /\ full' = (full /\ ~(query.kind = "compact" /\ query.status = "EndTurn"))
  /\ autoCompact' = (autoCompact /\ (query.kind = "compact" => query.status = "EndTurn"))
  /\ Continues \/ Releases
  /\ cancellation' = Confirmed
  /\ UNCHANGED <<remoteVars, historyVars>>

FrameEnds ==
  /\ phase = "finish" /\ ~Finished /\ phase' = "input"
  /\ UNCHANGED query /\ cancellation' = Confirmed
  /\ UNCHANGED <<inputVars, isStreaming, cancelled, undrained, displaced, owner, recovery,
                 remoteVars, full, autoCompact, historyVars>>

-----------------------------------------------------------------------------
(* The task: it says that it streams, that a message stopped, and it ends. *)
(* The end of a turn is announced last; other outcomes are not announced.  *)

TaskStep == UNCHANGED <<phase, inputVars, isStreaming, cancelled, displaced, owner, cancellation,
                        recovery, remoteVars, full, autoCompact, historyVars>>

Emit ==
  /\ Running /\ query.kind = "turn"
  /\ undrained' \in {"streaming", "stopped"} /\ UNCHANGED query /\ TaskStep

EndTurn ==
  /\ Running /\ query' = [query EXCEPT !.status = "EndTurn"]
  /\ undrained' = IF query.kind = "turn" THEN "stopped" ELSE undrained
  /\ TaskStep

EndEarly ==
  /\ Running /\ \E s \in Outcome \ {"EndTurn"} :
       /\ s = "RateLimit" => "limits" \in Features /\ query.kind = "turn"
       /\ s = "Error" => "fails" \in Features
       /\ s = "Cancelled" => cancelled
       /\ query' = [query EXCEPT !.status = s]
  /\ UNCHANGED undrained /\ TaskStep

(* The remote control sends a prompt. *)
Receive(x) ==
  /\ connected /\ x \notin sent /\ sent' = sent \cup {x} /\ remote' = Append(remote, x)
  /\ UNCHANGED <<phase, inputVars, isStreaming, taskVars, owner, cancellation, recovery,
                 connected, full, autoCompact, entered, ran>>

-----------------------------------------------------------------------------
Loop ==
  \/ NoKey \/ (Synthesize /\ Enter)
  \/ Drain \/ Settle \/ Bridge \/ HungUp \/ Tick \/ Retry \/ Cancel \/ FinishTask \/ FrameEnds

UserKey ==
  \/ \E m \in Message : Type(m)
  \/ (Key /\ Enter) \/ Escape \/ Interrupt

Task == Emit \/ EndTurn \/ EndEarly

Next ==
  \/ Loop \/ UserKey \/ Task \/ RemoteCancel \/ Disconnect
  \/ \E x \in Remote : Receive(x)

Spec == Init /\ [][Next]_vars

(* The loop keeps drawing frames and a query ends.  Nothing is asked of    *)
(* the users, except that they do not keep every frame busy with keys that *)
(* start the next one at once.                                             *)
FairSpec ==
  /\ Spec
  /\ SF_vars(NoKey) /\ WF_vars(Loop)
  /\ WF_vars(EndTurn \/ EndEarly)

-----------------------------------------------------------------------------
(* Properties. *)

(* At most one query at a time: whatever spawns one, a key, a queued        *)
(* message, the remote control, a retry or a compaction, finds that the    *)
(* last one has ended and was looked at, so that no handle of a task and   *)
(* no outcome is overwritten.                                              *)
SingleFlight == ~displaced

(* As long as the task of a turn works, the turn that owns it is known: a  *)
(* cancelled task keeps its authority until its outcome has been seen.     *)
AuthorityKept == query.kind = "turn" => owner # "none"

(* A turn that was abandoned is over: no retry and no continuation runs    *)
(* under it, only a new submission starts the next one.                    *)
AbandonedIsOver ==
  [][owner = "abandoned" /\ phase \in {"retry", "finish"} =>
       ~(query' # query /\ query'.kind = "turn" /\ query'.status = "running")]_vars

(* The automatic retries of an episode are bounded: after the last one the *)
(* modal waits for the user.                                               *)
RetriesBounded == recovery.armed => recovery.used < MaxAutoRetries

(* A message of the local user is dispatched once, however often it is     *)
(* queued, popped into the prompt, and queued again.                       *)
MessagesRunOnce == \A m \in Message : ran[m] <= 1

(* Once Enter was pressed on a text it is in the queue, in the prompt, or  *)
(* dispatched: it does not disappear.                                      *)
InputKept ==
  \A m \in entered : ran[m] > 0 \/ prompt = m \/ Contains(queue, m)

(* Messages typed while a query runs are submitted, and prompts of the     *)
(* remote control are run, unless it disconnects first.                    *)
QueuedRuns ==
  /\ \A x \in Text : Contains(queue, x) ~> ran[x] > 0
  /\ \A x \in Remote : Contains(remote, x) ~> ran[x] > 0 \/ ~connected

(* Once the remote control is gone none of its prompts starts a turn, not  *)
(* even one that was sent while its tasks were being stopped.              *)
DisconnectedIsSilent == [][phase = "bridge" /\ ~connected => UNCHANGED ran]_vars
===============================================================================

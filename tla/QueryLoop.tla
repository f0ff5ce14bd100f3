------------------------------ MODULE QueryLoop ------------------------------
(***************************************************************************)
(* run_query_loop of query/src/lib.rs: the turns of one query.  A turn     *)
(* sends the transcript to the model, keeps what came back, and runs tools,*)
(* asks again or ends.  What is kept goes to two places that must agree:   *)
(* messages, the working transcript that compaction rewrites, and durable, *)
(* the facts told to the session store as they become final.               *)
(*                                                                         *)
(* The goal's authority and the user's cancellation change at any time.    *)
(* The loop reads them only between the steps below, which begin and end   *)
(* where the code awaits.  Texts are classes and a response asks for one   *)
(* tool at most.  The pending-message queue, which every caller leaves     *)
(* out, the command queue and the shortening of old results are not        *)
(* modelled; reserving the final response is GoalTurn's.                   *)
(***************************************************************************)
EXTENDS Naturals, Sequences, SequencesExt

CONSTANTS
  Config,        \* configurations: path, reactive, fallback
  StallNudges,   \* stall_recovery_enabled()
  MaxTurns,      \* effective_max_turns
  StallRetries,  \* retries_left at the start
  ResumeLimit,   \* MAX_TOKENS_RECOVERY_LIMIT
  NudgeLimit,    \* STALL_RECOVERY_LIMIT
  KeepRecent,    \* KEEP_RECENT_MESSAGES
  BudgetLimit,   \* max_budget_usd, in billed attempts
  Stops,         \* bound: the stop reasons the model may give
  Hooks,         \* bound: the results PostModelTurn hooks may have
  Events         \* bound: what else may happen, see below

StopReason == {"end_turn", "tool_use", "max_tokens", "stop_sequence",
               "content_filtered", "other"}

\* path: "anthropic", or "provider" for the other providers; reactive: the
\* feature gate reactive_compact; fallback: config.fallback_model is set.
ASSUME ConfigAssumption ==
  Config \subseteq [path : {"anthropic", "provider"}, reactive : BOOLEAN, fallback : BOOLEAN]
ASSUME SwitchAssumption == StallNudges \in BOOLEAN
ASSUME LimitAssumption ==
  {MaxTurns, StallRetries, ResumeLimit, NudgeLimit, KeepRecent, BudgetLimit}
    \subseteq Nat
ASSUME BoundAssumption ==
  /\ Stops \subseteq StopReason
  /\ Hooks \subseteq {"ok", "soft", "veto"}
  /\ Events \subseteq {"cancel", "complete", "revoke", "stall", "break", "compact"}

Outcome == {"EndTurn", "MaxTokens", "Cancelled", "Error", "BudgetExceeded"}
Permission == {"work", "final", "return", "revoked"}

VARIABLES
  config,        \* the configuration of the query, which does not change
  pc,            \* where the loop awaits
  turn,
  asked,         \* goal_permission, read at the top of the turn
  retriesLeft,
  resumes,       \* max_tokens_recovery_count
  nudges,        \* stall_recovery_count
  usedFallback,
  messages,      \* the transcript
  durable,       \* QueryEvent::DurableMessage, in order
  sampled,       \* history: every response received, by attempt
  stop,          \* the stop reason of the last one, "none" in the next turn
  billed,        \* attempts added to the cost tracker
  completes,     \* QueryEvent::TurnComplete emitted
  ran,           \* history: attempts whose tool was executed
  requests,      \* history: requests started
  outcome,       \* what the query returned, "none" before
  authority,     \* what goal_turn.validate answers
  cancelled      \* the cancellation token

counterVars == <<turn, asked, retriesLeft, resumes, nudges, usedFallback>>
sampleVars == <<sampled, stop, billed>>
recordVars == <<messages, durable, sampleVars>>
historyVars == <<completes, ran, requests>>
envVars == <<authority, cancelled, config>>
vars == <<pc, counterVars, recordVars, historyVars, outcome, envVars>>

-----------------------------------------------------------------------------
(* The transcript.  An attempt is numbered by its place in sampled.         *)

UserMessage == [kind |-> "user"]
HookError(a) == [kind |-> "hook", of |-> a]
Model(a, text) == [kind |-> "model", of |-> a, text |-> text]
Results(a, executed) == [kind |-> "results", of |-> a, executed |-> executed]

IsOf(m, kind, a) == m.kind = kind /\ m.of = a
Places(s, kind, a) == {i \in DOMAIN s : IsOf(s[i], kind, a)}

attempt == Len(sampled)
response == sampled[attempt]

\* sampled_attempt_has_material
HasMaterial(r) == r.text # "none" \/ r.call

\* sync_finalized_assistant_message: the last copy is replaced, or one added
LastCopy(s, a) == SelectLastInSeq(s, LAMBDA x : IsOf(x, "model", a))
Sync(s, m) ==
  IF LastCopy(s, m.of) = 0 THEN Append(s, m) ELSE ReplaceAt(s, LastCopy(s, m.of), m)

\* insert_unexecuted_tool_result_after_assistant
NeedsRefusal(s, a, call) == call /\ Places(s, "results", a) = {}
\* Mutant: the results are put before the response.
RefusedBefore(s, a, call) ==
  IF NeedsRefusal(s, a, call)
  THEN InsertAt(s, LastCopy(s, a), Results(a, FALSE))
  ELSE s

Refused(s, a, call) ==
  IF NeedsRefusal(s, a, call)
  THEN InsertAt(s, LastCopy(s, a) + 1, Results(a, FALSE))
  ELSE s

\* finalize_terminal_assistant_with_unexecuted_tool_results: what it makes of
\* the transcript s, and the facts it emits
Finalized(s, a, r) == Refused(Sync(s, Model(a, r.text)), a, r.call)
FinalFacts(s, a, r) ==
  <<Model(a, r.text)>> \o
  IF NeedsRefusal(s, a, r.call) THEN <<Results(a, FALSE)>> ELSE <<>>

Finalize(s, a, r) ==
  /\ messages' = Finalized(s, a, r)
  /\ durable' = durable \o FinalFacts(s, a, r)

Return(o) == pc' = "done" /\ outcome' = o
GoTo(p) == pc' = p /\ UNCHANGED outcome

\* require_goal_work! without work: finalize, then the top of the loop or an error
LeaveWork(s) ==
  /\ Finalize(s, attempt, response)
  /\ IF authority = "revoked" THEN Return("Error") ELSE GoTo("top")

OverBudget(b) == b >= BudgetLimit

-----------------------------------------------------------------------------
Init ==
  /\ config \in Config
  /\ pc = "top" /\ outcome = "none"
  /\ turn = 0 /\ asked = "work" /\ retriesLeft = StallRetries
  /\ resumes = 0 /\ nudges = 0 /\ usedFallback = FALSE
  /\ messages = <<UserMessage>> /\ durable = <<>> /\ sampled = <<>>
  /\ stop = "none" /\ billed = 0
  /\ completes = 0 /\ ran = {} /\ requests = 0
  /\ authority = "work" /\ cancelled = FALSE

-----------------------------------------------------------------------------
(* The environment.                                                         *)

\* Another process, or a tool of this one, ends the goal.  Permissions only
\* ever narrow (GoalTurn).
Narrower(p) == CASE p = "work" -> {"final", "return", "revoked"}
                 [] p \in {"final", "return"} -> {"revoked"}
                 [] OTHER -> {}

AuthorityNarrows ==
  /\ pc # "done"
  /\ \E p \in Narrower(authority) :
       /\ (IF p = "revoked" THEN "revoke" ELSE "complete") \in Events
       /\ authority' = p
  /\ UNCHANGED <<pc, counterVars, recordVars, historyVars, outcome, cancelled, config>>

Cancel ==
  /\ pc # "done" /\ "cancel" \in Events /\ ~cancelled
  /\ cancelled' = TRUE
  /\ UNCHANGED <<pc, counterVars, recordVars, historyVars, outcome, authority, config>>

-----------------------------------------------------------------------------
(* A turn up to its response.                                               *)

\* The authority is gone, or what is left of it needs no further request.
TopEnds ==
  /\ pc = "top" /\ authority \in {"return", "revoked"}
  /\ Return(IF authority = "return" THEN "EndTurn" ELSE "Error")
  /\ UNCHANGED <<counterVars, recordVars, historyVars, envVars>>

\* Bound: requests beyond those that RequestsBounded allows are not told apart.
RequestLimit == MaxTurns + StallRetries + (IF config.fallback THEN 1 ELSE 0)
Saturated(n) == IF n > RequestLimit THEN RequestLimit + 1 ELSE n

Top ==
  /\ pc = "top" /\ authority \in {"work", "final"}
  /\ asked' = authority
  /\ turn' = turn + 1
  /\ IF turn + 1 > MaxTurns THEN Return("Error") /\ UNCHANGED requests
     ELSE IF cancelled THEN Return("Cancelled") /\ UNCHANGED requests
     ELSE GoTo("request") /\ requests' = Saturated(requests + 1)
  /\ stop' = "none"
  /\ UNCHANGED <<retriesLeft, resumes, nudges, usedFallback, messages, durable, sampled,
                 billed, completes, ran, envVars>>

\* await_goal_request without an answer: cancelled, or the authority changed
RequestCut ==
  /\ pc = "request"
  /\ \/ cancelled /\ Return("Cancelled")
     \/ authority = "revoked" /\ Return("Error")
     \/ asked = "work" /\ authority \in {"final", "return"} /\ GoTo("top")
  /\ UNCHANGED <<counterVars, recordVars, historyVars, envVars>>

\* Mutant: used_fallback is not looked at.
FallBackAgain(overloaded) == config.path = "anthropic" /\ overloaded /\ config.fallback

\* The server refuses.  A model that is overloaded is replaced, once.
FallBack(overloaded) ==
  config.path = "anthropic" /\ overloaded /\ config.fallback /\ ~usedFallback

RequestFails ==
  /\ pc = "request" /\ "break" \in Events /\ ~cancelled
  /\ \E overloaded \in BOOLEAN :
       IF asked = "work" /\ authority \in {"final", "return"}
       THEN GoTo("top") /\ UNCHANGED <<usedFallback, turn>>
       ELSE IF FallBack(overloaded)
       THEN GoTo("top") /\ usedFallback' = TRUE /\ turn' = turn - 1
       ELSE Return("Error") /\ UNCHANGED <<usedFallback, turn>>
  /\ UNCHANGED <<asked, retriesLeft, resumes, nudges, recordVars, historyVars, envVars>>

RequestOpens ==
  /\ pc = "request" /\ ~cancelled
  /\ GoTo("stream")
  /\ UNCHANGED <<counterVars, recordVars, historyVars, envVars>>

\* How a stream may end; the cancellation is looked at first.  A change of
\* authority cuts it, if the watcher's poll is first.
StreamEnd ==
  IF cancelled THEN {"cancelled"}
  ELSE {"completed"}
       \cup (IF "stall" \in Events THEN {"stalled"} ELSE {})
       \cup (IF "break" \in Events THEN {"broken"} ELSE {})
       \cup (IF authority # asked THEN {"revoked"} ELSE {})

Response == [text : {"none", "announce", "plain"}, call : BOOLEAN]

\* A response cut short has no stop reason, which reads as end_turn.
StopsOf(end) == IF end = "completed" THEN Stops ELSE {"end_turn"}

\* own_completion
OwnCompletion == asked = "work" /\ authority \in {"final", "return"}

\* Mutant: the final response is worked with like any other.
HandsOverWork(end) == authority = "revoked" \/ OwnCompletion

\* The response of this turn is not to be worked with.
HandsOver(end) ==
  \/ authority = "revoked"
  \/ OwnCompletion
  \/ asked = "final" /\ end = "completed"

\* The response is in: hand it over, retry it, end on it, or push it.
ReceiveHandover(end, r, a) ==
  /\ HandsOver(end)
  /\ Finalize(messages, a, r)
  /\ billed' = billed + 1
  /\ GoTo("handover")
  /\ UNCHANGED <<turn, retriesLeft>>

\* finalize_stalled_attempt_before_retry
Retry(end, r, a) ==
  /\ ~HandsOver(end) /\ end = "stalled" /\ retriesLeft > 0
  /\ IF HasMaterial(r) THEN Finalize(messages, a, r)
     ELSE UNCHANGED <<messages, durable>>
  /\ billed' = billed + 1
  /\ retriesLeft' = retriesLeft - 1 /\ turn' = turn - 1
  /\ GoTo("top")

ReceiveCut(end, r, a) ==
  /\ ~HandsOver(end) /\ end # "completed"
  /\ ~(end = "stalled" /\ retriesLeft > 0)
  /\ Finalize(messages, a, r)
  /\ billed' = billed + 1
  /\ Return(IF end = "cancelled" THEN "Cancelled" ELSE "Error")
  /\ UNCHANGED <<turn, retriesLeft>>

ReceiveWhole(end, r, a) ==
  /\ ~HandsOver(end) /\ end = "completed"
  /\ billed' = billed + 1
  /\ IF OverBudget(billed + 1)
     THEN Finalize(messages, a, r) /\ Return("BudgetExceeded")
     ELSE /\ messages' = Append(messages, Model(a, r.text))
          /\ GoTo("hooks") /\ UNCHANGED durable
  /\ UNCHANGED <<turn, retriesLeft>>

Receive ==
  /\ pc = "stream"
  /\ \E end \in StreamEnd : \E r \in Response :
       /\ stop' \in StopsOf(end)
       /\ sampled' = Append(sampled, r)
       /\ LET a == attempt + 1
          IN  \/ ReceiveHandover(end, r, a) \/ Retry(end, r, a)
              \/ ReceiveCut(end, r, a) \/ ReceiveWhole(end, r, a)
  /\ UNCHANGED <<asked, resumes, nudges, usedFallback, historyVars, envVars>>

\* Mutant: a turn that only announced work is complete.
EmitsCompleteAnyway(exhausted) == stop \in {"end_turn", "stop_sequence"}

\* should_emit_turn_complete
EmitsComplete(exhausted) == stop \in {"end_turn", "stop_sequence"} /\ ~exhausted

EndWith(o, emits) ==
  /\ Return(o)
  /\ completes' = completes + (IF emits THEN 1 ELSE 0)

\* The checks after a response that was handed over
Handover ==
  /\ pc = "handover"
  /\ IF authority = "revoked" THEN EndWith("Error", FALSE)
     ELSE IF asked = "work" /\ cancelled THEN GoTo("top") /\ UNCHANGED completes
     ELSE IF OverBudget(billed) THEN EndWith("BudgetExceeded", FALSE)
     ELSE IF asked = "work" THEN GoTo("top") /\ UNCHANGED completes
     ELSE IF response.call THEN EndWith("Error", FALSE)
     ELSE IF stop \in {"end_turn", "stop_sequence"} THEN EndWith("EndTurn", TRUE)
     ELSE IF stop = "max_tokens" THEN EndWith("MaxTokens", FALSE)
     ELSE EndWith("Error", FALSE)
  /\ UNCHANGED <<counterVars, recordVars, ran, requests, envVars>>

-----------------------------------------------------------------------------
(* A response to work with.                                                 *)

\* fire_post_sampling_hooks: a veto ends the query, soft errors join the
\* transcript; then require_goal_work!
Veto ==
  /\ pc = "hooks" /\ "veto" \in Hooks
  /\ messages' = Append(Finalized(messages, attempt, response), HookError(attempt))
  /\ durable' = durable \o FinalFacts(messages, attempt, response)
  /\ Return("Error")
  /\ UNCHANGED <<counterVars, sampleVars, historyVars, envVars>>

PostModelTurn ==
  /\ pc = "hooks"
  /\ \E h \in Hooks \ {"veto"} :
       LET hooked == IF h = "soft" THEN Append(messages, HookError(attempt)) ELSE messages
       IN  IF authority = "work"
           THEN /\ messages' = hooked /\ UNCHANGED durable
                /\ GoTo(IF config.path = "anthropic" THEN "compact" ELSE "settle")
           ELSE LeaveWork(hooked)
  /\ UNCHANGED <<counterVars, sampleVars, historyVars, envVars>>

\* summarise_head, by compact_conversation and by reactive_compact: a summary
\* in front of the most recent messages
Summarised(s) ==
  IF Len(s) <= (IF config.reactive THEN KeepRecent ELSE KeepRecent + 1) THEN s
  ELSE <<UserMessage>> \o SubSeq(s, Len(s) - KeepRecent + 1, Len(s))

\* context_collapse: a summary and the last message of the user's role
Collapsed(s) ==
  <<UserMessage, s[SelectLastInSeq(s, LAMBDA m : m.kind # "model")]>>

\* The context is looked at after every response, or with the gate off after
\* those that end a turn or ask for tools.
MayCompact == "compact" \in Events /\ (config.reactive \/ stop \in {"end_turn", "tool_use"})

StartCompact ==
  /\ pc = "compact" /\ MayCompact
  /\ GoTo("compacting")
  /\ UNCHANGED <<counterVars, recordVars, historyVars, envVars>>

Compact ==
  /\ pc = "compacting"
  /\ \E compacted \in {Summarised(messages)} \cup
                      (IF config.reactive THEN {Collapsed(messages)} ELSE {}) :
       IF authority = "work"
       THEN messages' = compacted /\ UNCHANGED durable /\ GoTo("settle")
       ELSE LeaveWork(messages)
  /\ UNCHANGED <<counterVars, sampleVars, historyVars, envVars>>

CompactFails ==
  /\ pc = "compacting"
  /\ IF authority = "work"
     THEN Finalize(messages, attempt, response) /\ Return("Error")
     ELSE LeaveWork(messages)
  /\ UNCHANGED <<counterVars, sampleVars, historyVars, envVars>>

\* Mutant: a compaction under way is not raced against the cancellation.
CompactCancelledBefore ==
  /\ cancelled
  /\ pc = "compact" /\ ~config.reactive /\ stop \in {"end_turn", "tool_use"}
  /\ Finalize(messages, attempt, response)
  /\ Return("Cancelled")
  /\ UNCHANGED <<counterVars, sampleVars, historyVars, envVars>>

\* With the gate off the cancellation is raced even if nothing is compacted.
CompactCancelled ==
  /\ cancelled
  /\ \/ pc = "compacting"
     \/ pc = "compact" /\ ~config.reactive /\ stop \in {"end_turn", "tool_use"}
  /\ Finalize(messages, attempt, response)
  /\ Return("Cancelled")
  /\ UNCHANGED <<counterVars, sampleVars, historyVars, envVars>>

NothingToCompact ==
  /\ pc = "compact"
  /\ IF authority = "work" THEN GoTo("settle") /\ UNCHANGED <<messages, durable>>
     ELSE LeaveWork(messages)
  /\ UNCHANGED <<counterVars, sampleVars, historyVars, envVars>>

-----------------------------------------------------------------------------
(* What the stop reason says.  The two paths differ in what they trust: the *)
(* Anthropic path the reason, the provider path the presence of a call.     *)

Ends == stop \in (IF config.path = "anthropic" THEN {"end_turn"}
                  ELSE {"end_turn", "stop_sequence"})
RunsTool ==
  /\ response.call
  /\ stop \in (IF config.path = "anthropic" THEN {"tool_use"}
              ELSE {"end_turn", "stop_sequence", "tool_use"})

\* is_stalled_announcement: no text, or a text that announces work
Announced ==
  StallNudges /\ Ends /\ ~response.call /\ response.text # "plain"
Exhausted == Announced /\ nudges >= NudgeLimit

\* messages.retain: without the copies of a response, of which there is at
\* most one here
Without(s, a) == IF LastCopy(s, a) = 0 THEN s ELSE RemoveAt(s, LastCopy(s, a))

\* Keep what there is of a response that is asked to go on, then ask.
KeptAndAsked(s, r) ==
  Append(IF HasMaterial(r) THEN Finalized(s, attempt, r) ELSE Without(s, attempt),
         UserMessage)

\* Mutant: the response kept is not told to the store.
KeepAndAskSilently(r) ==
  /\ messages' = KeptAndAsked(messages, r)
  /\ GoTo("top") /\ UNCHANGED durable

KeepAndAsk(r) ==
  /\ messages' = KeptAndAsked(messages, r)
  /\ durable' = durable \o
       IF HasMaterial(r) THEN FinalFacts(messages, attempt, r) ELSE <<>>
  /\ GoTo("top")

Nudge ==
  /\ pc = "settle" /\ Announced /\ nudges < NudgeLimit
  /\ nudges' = nudges + 1
  /\ KeepAndAsk(response)
  /\ UNCHANGED <<turn, asked, retriesLeft, resumes, usedFallback, sampleVars,
                 historyVars, envVars>>

Resume ==
  /\ pc = "settle" /\ config.path = "anthropic" /\ stop = "max_tokens"
  /\ resumes < ResumeLimit
  /\ resumes' = resumes + 1
  /\ KeepAndAsk(response)
  /\ UNCHANGED <<turn, asked, retriesLeft, nudges, usedFallback, sampleVars,
                 historyVars, envVars>>

MaxTokens ==
  /\ pc = "settle" /\ stop = "max_tokens"
  /\ config.path = "provider" \/ resumes >= ResumeLimit
  /\ Finalize(messages, attempt, response)
  /\ EndWith("MaxTokens", FALSE)
  /\ UNCHANGED <<counterVars, sampleVars, ran, requests, envVars>>

\* The Anthropic path runs the Stop hooks and requires work again before and
\* after them, and again before it ends the turn.
StopHook ==
  /\ pc = "settle" /\ config.path = "anthropic"
  /\ stop \in {"stop_sequence", "other"}
       \/ (stop = "end_turn" /\ ~(Announced /\ nudges < NudgeLimit))
  /\ IF authority = "work" THEN GoTo("stopped") /\ UNCHANGED <<messages, durable>>
     ELSE LeaveWork(messages)
  /\ UNCHANGED <<counterVars, sampleVars, historyVars, envVars>>

\* The provider path shows a placeholder for an answer without text, in the
\* last message of the transcript.
Placeholder(r) == config.path = "provider" /\ r.text = "none"
Shown(r) == IF Placeholder(r) THEN [r EXCEPT !.text = "placeholder"] ELSE r
WithPlaceholder(s, r) ==
  IF Placeholder(r) THEN ReplaceAt(s, Len(s), Model(attempt, "placeholder")) ELSE s

EndTurn ==
  /\ \/ pc = "stopped" /\ stop \in {"end_turn", "stop_sequence"}
     \/ /\ pc = "settle" /\ config.path = "provider"
        /\ Ends /\ ~response.call
        /\ ~(Announced /\ nudges < NudgeLimit)
  /\ IF config.path = "provider" \/ authority = "work"
     THEN /\ Finalize(WithPlaceholder(messages, response), attempt, Shown(response))
          /\ EndWith(IF Exhausted THEN "Error" ELSE "EndTurn",
                     EmitsComplete(Exhausted))
     ELSE LeaveWork(messages) /\ UNCHANGED completes
  /\ UNCHANGED <<counterVars, sampleVars, ran, requests, envVars>>

\* Stop reasons that are failures, and tool_use without a tool
Unsupported ==
  /\ \/ /\ pc = "settle"
        /\ \/ stop = "content_filtered"
           \/ config.path = "provider" /\ stop = "other"
           \/ stop = "tool_use" /\ ~response.call
     \/ pc = "stopped" /\ stop = "other"
  /\ IF pc = "stopped" /\ authority # "work" THEN LeaveWork(messages)
     ELSE Finalize(messages, attempt, response) /\ Return("Error")
  /\ UNCHANGED <<counterVars, sampleVars, historyVars, envVars>>

-----------------------------------------------------------------------------
(* A tool round.                                                            *)

StartTools ==
  /\ pc = "settle" /\ RunsTool
  /\ messages' = Sync(messages, Model(attempt, response.text))
  /\ durable' = Append(durable, Model(attempt, response.text))
  /\ nudges' = 0
  /\ resumes' = IF config.path = "anthropic" THEN 0 ELSE resumes
  /\ GoTo("tools")
  /\ UNCHANGED <<turn, asked, retriesLeft, usedFallback, sampleVars,
                 historyVars, envVars>>

\* Phase 1 of execute_tool_blocks_with_hooks: refused without work, by a
\* PreToolUse hook, or because there is no such tool
PrepareTool ==
  /\ pc = "tools"
  /\ \E blocked \in BOOLEAN :
       GoTo(IF authority = "work" /\ ~blocked THEN "execute" ELSE "refused")
  /\ UNCHANGED <<counterVars, recordVars, historyVars, envVars>>

\* execute_tool: work is required again, since the goal may have ended while
\* the hooks ran.  The tool runs until the next step, and may end the goal itself.
ExecuteTool ==
  /\ pc = "execute"
  /\ IF authority = "work" THEN GoTo("executed") /\ ran' = ran \cup {attempt}
     ELSE GoTo("refused") /\ UNCHANGED ran
  /\ UNCHANGED <<counterVars, recordVars, completes, requests, envVars>>

AddResults(executed) ==
  /\ messages' = Append(messages, Results(attempt, executed))
  /\ durable' = Append(durable, Results(attempt, executed))
  /\ GoTo("top")

\* Mutant: work is required after the tools, as after every other wait, and
\* without it the call is answered with a refusal.
FinishToolsAtWork ==
  /\ pc \in {"executed", "refused"}
  /\ AddResults(pc = "executed" /\ authority = "work")
  /\ UNCHANGED <<counterVars, sampleVars, historyVars, envVars>>

\* The results join the transcript, whatever became of the goal meanwhile.
FinishTools ==
  /\ pc \in {"executed", "refused"}
  /\ AddResults(pc = "executed")
  /\ UNCHANGED <<counterVars, sampleVars, historyVars, envVars>>

Done == pc = "done" /\ UNCHANGED vars

Answered == RequestFails \/ RequestOpens \/ Receive \/ Compact \/ CompactFails
OwnSteps ==
  \/ TopEnds \/ Top \/ RequestCut
  \/ Handover \/ Veto \/ PostModelTurn
  \/ StartCompact \/ CompactCancelled \/ NothingToCompact
  \/ Nudge \/ Resume \/ MaxTokens \/ StopHook \/ EndTurn \/ Unsupported
  \/ StartTools \/ PrepareTool \/ ExecuteTool \/ FinishTools

Next == Answered \/ OwnSteps \/ AuthorityNarrows \/ Cancel \/ Done

Spec == Init /\ [][Next]_vars

\* The loop takes its own steps; a cancelled stream ends without the server.
Fairness == WF_vars(OwnSteps) /\ WF_vars(cancelled /\ Receive)

FairSpec == Spec /\ Fairness
-----------------------------------------------------------------------------
\* The variables have their types, and the counters stay within their limits.
TypeOK ==
  /\ config \in Config
  /\ pc \in {"top", "request", "stream", "handover", "hooks", "compact", "compacting",
             "settle", "stopped", "tools", "execute", "executed", "refused", "done"}
  /\ outcome \in Outcome \cup {"none"} /\ (outcome = "none") = (pc # "done")
  /\ turn \in 0..(MaxTurns + 1) /\ asked \in {"work", "final"}
  /\ retriesLeft \in 0..StallRetries /\ resumes \in 0..ResumeLimit
  /\ nudges \in 0..NudgeLimit /\ usedFallback \in BOOLEAN
  /\ sampled \in Seq(Response) /\ stop \in StopReason \cup {"none"}
  /\ billed \in Nat /\ completes \in Nat /\ requests \in Nat
  /\ ran \subseteq 1..attempt
  /\ authority \in Permission /\ cancelled \in BOOLEAN

\* At rest: before the next turn, or after the query
AtRest == pc \in {"top", "done"}

Once(s, kind, a) == \E i \in DOMAIN s : Places(s, kind, a) = {i}

\* Whatever made a turn end, at rest every call still in the transcript has one
\* result, after it, and nothing but errors of its own hooks in between.  That
\* every result still has its call is not said: compaction may part the two.
CallsAnswered ==
  AtRest => \A a \in 1..attempt : \A i \in Places(messages, "model", a) :
    sampled[a].call =>
      \E j \in Places(messages, "results", a) :
        /\ Places(messages, "results", a) = {j}
        /\ i < j
        /\ \A k \in (i + 1)..(j - 1) : IsOf(messages[k], "hook", a)

\* At rest every response with content has been told to the store once, and
\* after it the one result of its call: what compaction removes from the
\* transcript is not lost, and nothing is told twice.
DurableOnce ==
  AtRest => \A a \in 1..attempt :
    /\ \/ Once(durable, "model", a)
       \/ ~HasMaterial(sampled[a]) /\ Places(durable, "model", a) = {}
    /\ IF sampled[a].call THEN Once(durable, "results", a)
       ELSE Places(durable, "results", a) = {}
    /\ \A i \in Places(durable, "model", a) : \A j \in Places(durable, "results", a) :
         i < j

\* Every response is billed, whatever became of it, and billed once.
BilledOnce == billed = attempt

\* What the transcript and the store are told of a tool is true, although the
\* goal may end before it, while its hooks run, or through it, and although every
\* other way out of a turn tells that its call was not executed: a tool that ran
\* has the result that says so, at rest always, and no other has it.
ResultsAreTrue ==
  /\ \A s \in {messages, durable} : \A i \in DOMAIN s :
       s[i].kind = "results" => (s[i].executed <=> s[i].of \in ran)
  /\ AtRest => \A a \in ran : Places(durable, "results", a) # {}

\* A turn is announced as complete once, for a query that ends its turn, and
\* such a query announces it unless the goal sent it back to the foreground.
CompleteIsTheEnd ==
  /\ completes \in {0, 1} /\ (completes = 1 => outcome = "EndTurn")
  /\ outcome = "EndTurn" /\ completes = 0 => authority = "return"

\* Retries and the fallback give a turn back, but not for ever.
RequestsBounded == requests <= RequestLimit

\* Once the model is asked for the final response, no tool runs and no other
\* response is taken to work with.
FinalIsFinal == [][asked = "final" => ran' = ran /\ asked' = "final" /\ pc' # "hooks"]_vars

\* What the counters rest on: a request is paid for by a turn, a retry or the
\* fallback, a response follows a request, and once the final response was
\* asked for, the query is between its request and its end.
IInv ==
  /\ TypeOK
  /\ pc # "done" => turn <= MaxTurns /\ completes = 0
  /\ pc \notin {"top", "done"} => turn > 0
  /\ pc \notin {"top", "request", "stream", "done"} => attempt > 0
  /\ usedFallback => config.fallback
  /\ requests + retriesLeft <= turn + StallRetries + (IF usedFallback THEN 1 ELSE 0)
  /\ RequestsBounded /\ BilledOnce /\ CompleteIsTheEnd
  /\ asked = "final" =>
       /\ pc \in {"top", "request", "stream", "handover", "done"}
       /\ authority \in {"final", "revoked"}

\* With a server that answers, every query ends.
Terminates == WF_vars(Answered) => <>(pc = "done")

\* A cancelled query ends even if the server never answers.
CancelEnds == cancelled ~> pc = "done"
=============================================================================

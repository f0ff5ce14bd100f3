------------------------------ MODULE AcpServer ------------------------------
(***************************************************************************)
(* The ACP server above its connection (crates/acp/src: server.rs,         *)
(* prompt.rs, permission.rs, sessions.rs, lib.rs): prompts of several      *)
(* sessions, each a task with its own drainer of permission requests, over *)
(* the store and the transcript its session shares.                        *)
(*                                                                         *)
(* Every inbound message becomes a task when it is read, so tasks start in *)
(* any order.  The connection is what RequestReply promises.  A query is   *)
(* the tools that ask for permission; a tool that asks blocks its query    *)
(* until the decision (request_permission_inner, crates/tools/src/lib.rs). *)
(* A background agent is a query of its own that a prompt has started: it  *)
(* asks through the store of the session, and outlives the prompt.         *)
(* A transcript is the set of prompts whose turns it holds.                *)
(***************************************************************************)
EXTENDS Integers

CONSTANTS Session, Prompt,
          Agent,      \* background agents
          SessionOf,  \* the session of a prompt or an agent
          MayAsk,     \* bound: the queries whose tools ask for permissions
          MaxAsks,    \* bound: permissions one query asks for
          MaxCancels, \* bound: cancellations of one session
          Nobody      \* a request no drainer has taken

\* Who has a query, and so may ask.
Asker == Prompt \cup Agent

ASSUME ServerAssumption ==
  /\ SessionOf \in [Asker -> Session] /\ MayAsk \subseteq Asker
  /\ MaxAsks \in Nat /\ MaxCancels \in Nat
  /\ Nobody \notin Prompt /\ Prompt \cap Agent = {}

\* The permission requests: the n-th of a query.
Request == Asker \X (1..MaxAsks)

VARIABLES phase,    \* how far prompt::handle of a prompt has come
          view,     \* its working copy of the transcript
          token,    \* the cancellation token it captured
          agents,   \* the background agents that were started
          asks,     \* permissions a query has asked for
          blocked,  \* one of its tools waits for a decision
          outcome,  \* how the query of a prompt ended
          history,  \* SessionState::messages
          armed,    \* number of the token in SessionState::cancel_token
          queue,    \* SessionState::pending_permissions
          cancels,  \* sessions with a session/cancel on its way
          overlapped, \* sessions prompted while one of their prompts was in flight
          owner,    \* the prompt whose drainer took a request
          verdict,  \* what the tool that asked was told
          broken,   \* the writer of the connection fails
          status, replied, closed  \* the connection (RequestReply)

C == INSTANCE RequestReply

prompts == <<phase, view, token, outcome>>
queries == <<agents, asks, blocked>>
sessions == <<history, armed, queue, cancels, overlapped>>
requests == <<owner, verdict>>
connection == <<status, replied, closed, broken>>
serverVars == <<prompts, queries, sessions, requests, connection>>

InFlight(p) == phase[p] \notin {"new", "done"}
Cancelled(p) == token[p] < armed[SessionOf[p]]
Latest(a) == <<a, asks[a]>>

ServerInit ==
  /\ phase = [p \in Prompt |-> "new"]
  /\ view = [p \in Prompt |-> {}]
  /\ token = [p \in Prompt |-> 0]
  /\ agents = {}
  /\ asks = [a \in Asker |-> 0]
  /\ blocked = [a \in Asker |-> FALSE]
  /\ outcome = [p \in Prompt |-> "none"]
  /\ history = [s \in Session |-> {}]
  /\ armed = [s \in Session |-> 0]
  /\ queue = [s \in Session |-> {}]
  /\ cancels = {} /\ overlapped = {}
  /\ owner = [r \in Request |-> Nobody]
  /\ verdict = [r \in Request |-> "none"]
  /\ broken = FALSE
  /\ C!RRInit

-----------------------------------------------------------------------------
\* The client.
SendPrompt(p) ==
  /\ ~closed /\ phase[p] = "new"
  /\ phase' = [phase EXCEPT ![p] = "sent"]
  /\ overlapped' = overlapped \cup
       {SessionOf[q] : q \in {q \in Prompt : SessionOf[q] = SessionOf[p] /\ InFlight(q)}}
  /\ UNCHANGED <<view, token, outcome, queries,
                 history, armed, queue, cancels, requests, connection>>

SendCancel(s) ==
  /\ ~closed /\ s \notin cancels /\ armed[s] < MaxCancels
  /\ cancels' = cancels \cup {s}
  /\ UNCHANGED <<prompts, queries, history, armed, queue, overlapped, requests, connection>>

ClientReplies(r) ==
  /\ C!Reply(r)
  /\ UNCHANGED <<prompts, queries, sessions, requests, broken>>

\* End of the client's messages.
EndOfInput ==
  /\ C!Close
  /\ UNCHANGED <<prompts, queries, sessions, requests, broken>>

\* The client stops reading.
EndOfOutput ==
  /\ ~broken /\ broken' = TRUE
  /\ UNCHANGED <<prompts, queries, sessions, requests, status, replied, closed>>

-----------------------------------------------------------------------------
\* session/cancel: the tokens captured so far, and a new one for later prompts.
CancelTurn(s) ==
  /\ s \in cancels
  /\ cancels' = cancels \ {s}
  /\ armed' = [armed EXCEPT ![s] = @ + 1]
  /\ UNCHANGED <<prompts, queries, history, queue, overlapped, requests, connection>>

\* prompt::handle copies the transcript, then captures the token; a prompt
\* without text or of an unknown session ends before it touches either.
CopyTranscript(p) ==
  /\ phase[p] = "sent"
  /\ \/ /\ phase' = [phase EXCEPT ![p] = "copied"]
        /\ view' = [view EXCEPT ![p] = history[SessionOf[p]] \cup {p}]
        /\ UNCHANGED outcome
     \/ /\ phase' = [phase EXCEPT ![p] = "done"]
        /\ outcome' = [outcome EXCEPT ![p] = "invalid"]
        /\ UNCHANGED view
  /\ UNCHANGED <<token, queries, sessions, requests, connection>>

CaptureToken(p) ==
  /\ phase[p] = "copied"
  /\ phase' = [phase EXCEPT ![p] = "running"]
  /\ token' = [token EXCEPT ![p] = armed[SessionOf[p]]]
  /\ UNCHANGED <<view, outcome, queries, sessions, requests, connection>>

\* The AgentTool of a query starts an agent in the background, whose context is
\* a copy of the prompt's and whose cancellation token is a new one.
StartAgent(p, g) ==
  /\ phase[p] = "running" /\ ~blocked[p]
  /\ g \in Agent \ agents /\ SessionOf[g] = SessionOf[p]
  /\ agents' = agents \cup {g}
  /\ UNCHANGED <<prompts, asks, blocked, sessions, requests, connection>>

\* A query is running: that of a prompt until it ends, that of an agent as long
\* as it asks for more.
Asking(a) == IF a \in Agent THEN a \in agents ELSE phase[a] = "running"

\* A tool of a query asks and blocks its thread on the oneshot, and with it the
\* query and the tools of the same response, but not the query of its agents.
Ask(a) ==
  /\ Asking(a) /\ ~blocked[a]
  /\ a \in MayAsk /\ asks[a] < MaxAsks
  /\ asks' = [asks EXCEPT ![a] = @ + 1]
  /\ blocked' = [blocked EXCEPT ![a] = TRUE]
  /\ queue' = [queue EXCEPT ![SessionOf[a]] = @ \cup {<<a, asks[a] + 1>>}]
  /\ UNCHANGED <<prompts, agents, history, armed, cancels, overlapped,
                 requests, connection>>

Resume(a) ==
  /\ blocked[a] /\ verdict[Latest(a)] # "none"
  /\ blocked' = [blocked EXCEPT ![a] = FALSE]
  /\ UNCHANGED <<prompts, agents, asks, sessions, requests, connection>>

\* Mutant of QueryEnds: a cancellation ends the query while a tool waits.
QueryEndsAnyway(p) ==
  /\ phase[p] = "running" /\ (blocked[p] => Cancelled(p))
  /\ phase' = [phase EXCEPT ![p] = "ended"]
  /\ outcome' = [outcome EXCEPT ![p] = IF Cancelled(p) THEN "cancelled" ELSE "over"]
  /\ UNCHANGED <<view, token, queries, sessions, requests, connection>>

\* The query loop sees its token between tools, not while one of them waits.
QueryEnds(p) ==
  /\ phase[p] = "running" /\ ~blocked[p]
  /\ phase' = [phase EXCEPT ![p] = "ended"]
  /\ \E how \in {"over"} \cup (IF Cancelled(p) THEN {"cancelled"} ELSE {}) :
       outcome' = [outcome EXCEPT ![p] = how]
  /\ UNCHANGED <<view, token, queries, sessions, requests, connection>>

-----------------------------------------------------------------------------
\* The drainer of a prompt takes whatever its session's store holds, until it
\* sees that the query is over.
Drain(p) ==
  LET mine == queue[SessionOf[p]]
  IN /\ phase[p] \in {"running", "ended"} /\ mine # {}
     /\ queue' = [queue EXCEPT ![SessionOf[p]] = {}]
     /\ owner' = [r \in Request |-> IF r \in mine THEN p ELSE owner[r]]
     /\ UNCHANGED <<prompts, queries, history, armed, cancels, overlapped, verdict, connection>>

Undecided(r) == owner[r] # Nobody /\ verdict[r] = "none"

Tell(r, what) == verdict' = [verdict EXCEPT ![r] = what]

\* forward_pending: the request goes out, or the connection is gone already.
Forward(r) ==
  /\ Undecided(r)
  /\ C!Open(r)
  /\ IF closed THEN Tell(r, "deny") ELSE UNCHANGED verdict
  /\ UNCHANGED <<prompts, queries, sessions, owner, broken>>

\* The client's choice; a reply that is no choice is a denial.
Decide(r) ==
  /\ Undecided(r)
  /\ C!Answer(r)
  /\ \E what \in {"allow", "deny"} : Tell(r, what)
  /\ UNCHANGED <<prompts, queries, sessions, owner, broken>>

\* Mutant of DenyUnanswered: an error of the connection ends the forwarding and
\* nobody tells the tool.
FailUntold(r) ==
  /\ Undecided(r) /\ (closed \/ broken)
  /\ C!Fail(r)
  /\ UNCHANGED <<prompts, queries, sessions, requests, broken>>

\* The request ends without a reply because the client is gone.
DenyUnanswered(r) ==
  /\ Undecided(r) /\ (closed \/ broken)
  /\ C!Fail(r)
  /\ Tell(r, "deny")
  /\ UNCHANGED <<prompts, queries, sessions, owner, broken>>

\* The query is over: the drainer stops and aborts what it still forwards; the
\* tool that waits loses its oneshot and is told that the user denied it.
Abort(r) ==
  /\ Undecided(r) /\ phase[owner[r]] = "ended"
  /\ Tell(r, "dropped")
  /\ \/ C!Fail(r)
     \/ status[r] = "new" /\ UNCHANGED <<status, replied, closed>>
  /\ UNCHANGED <<prompts, queries, sessions, owner, broken>>

JoinDrainer(p) ==
  /\ phase[p] = "ended"
  /\ \A r \in Request : owner[r] = p => ~Undecided(r)
  /\ phase' = [phase EXCEPT ![p] = "settled"]
  /\ UNCHANGED <<view, token, outcome, queries, sessions, requests, connection>>

\* Mutant of SaveTranscript: a cancelled turn leaves the transcript alone.
SaveUncancelled(p) ==
  /\ phase[p] = "settled"
  /\ phase' = [phase EXCEPT ![p] = "saved"]
  /\ history' = IF outcome[p] = "cancelled" THEN history
                ELSE [history EXCEPT ![SessionOf[p]] = view[p]]
  /\ UNCHANGED <<view, token, outcome, queries,
                 armed, queue, cancels, overlapped, requests, connection>>

\* The transcript is replaced by the copy, then the response goes out.
SaveTranscript(p) ==
  /\ phase[p] = "settled"
  /\ phase' = [phase EXCEPT ![p] = "saved"]
  /\ history' = [history EXCEPT ![SessionOf[p]] = view[p]]
  /\ UNCHANGED <<view, token, outcome, queries,
                 armed, queue, cancels, overlapped, requests, connection>>

Respond(p) ==
  /\ phase[p] = "saved"
  /\ phase' = [phase EXCEPT ![p] = "done"]
  /\ UNCHANGED <<view, token, outcome, queries, sessions, requests, connection>>

-----------------------------------------------------------------------------
Handle(p) ==
  \/ CopyTranscript(p) \/ CaptureToken(p)
  \/ Resume(p) \/ QueryEnds(p)
  \/ Drain(p) \/ JoinDrainer(p) \/ SaveTranscript(p) \/ Respond(p)

ForwardTask(r) == Forward(r) \/ Decide(r) \/ DenyUnanswered(r) \/ Abort(r)

ServerNext ==
  \/ \E p \in Prompt : SendPrompt(p) \/ Handle(p) \/ \E g \in Agent : StartAgent(p, g)
  \/ \E a \in Asker : Ask(a)
  \/ \E g \in Agent : Resume(g)
  \/ \E s \in Session : SendCancel(s) \/ CancelTurn(s)
  \/ \E r \in Request : ClientReplies(r) \/ ForwardTask(r)
  \/ EndOfInput \/ EndOfOutput

ServerSpec == ServerInit /\ [][ServerNext]_serverVars

\* The server's tasks are scheduled, a reply reaches the request it is for, and
\* what is written is read by the client or the write fails (JoinDrainer waits
\* for the forwarder of the events, Respond for the writer).  Nothing else is
\* assumed of the client, nor that a model asks for any tool.
FairServerSpec ==
  /\ ServerSpec
  /\ \A p \in Prompt : WF_serverVars(Handle(p))
  /\ \A g \in Agent : WF_serverVars(Resume(g))
  /\ \A s \in Session : WF_serverVars(CancelTurn(s))
  /\ \A r \in Request : WF_serverVars(ForwardTask(r))

-----------------------------------------------------------------------------
ServerTypeOK ==
  /\ phase \in [Prompt -> {"new", "sent", "copied", "running", "ended", "settled", "saved", "done"}]
  /\ view \in [Prompt -> SUBSET Prompt]
  /\ token \in [Prompt -> 0..MaxCancels]
  /\ agents \subseteq Agent
  /\ asks \in [Asker -> 0..MaxAsks]
  /\ blocked \in [Asker -> BOOLEAN]
  /\ outcome \in [Prompt -> {"none", "over", "cancelled", "invalid"}]
  /\ history \in [Session -> SUBSET Prompt]
  /\ armed \in [Session -> 0..MaxCancels]
  /\ queue \in [Session -> SUBSET Request]
  /\ cancels \subseteq Session /\ overlapped \subseteq Session
  /\ owner \in [Request -> Prompt \cup {Nobody}]
  /\ verdict \in [Request -> {"none", "allow", "deny", "dropped"}]
  /\ broken \in BOOLEAN
  /\ C!RRTypeOK

Orderly(a) == SessionOf[a] \notin overlapped

\* The forwarder of a request denies it only when the client has replied or is
\* gone, and where prompts do not overlap the tool of a prompt's own query is told
\* "denied by user" in no other way: neither a cancellation nor the end of a prompt
\* answers for it, though its request is in a store and a drainer that the queries
\* of background agents share (Abort, request_permission_inner).  Of the tools of
\* those agents the second is not true, and not said.
DeniedByClient ==
  /\ \A r \in Request : verdict[r] = "deny" => r \in replied \/ closed \/ broken
  /\ \A p \in Prompt, n \in 1..MaxAsks : Orderly(p) => verdict[<<p, n>>] # "dropped"

\* In such a session the transcript keeps the turn of every prompt that was
\* answered, cancelled ones too, though each prompt writes back the copy it
\* worked on (prompt::handle).
TurnsKept ==
  \A p \in Prompt :
    Orderly(p) /\ phase[p] = "done" /\ outcome[p] # "invalid" =>
      p \in history[SessionOf[p]]

\* A prompt's tool waits for a reply the client has still to send.
WaitsForClient(p) ==
  \E n \in 1..asks[p] :
    status[<<p, n>>] = "open" /\ <<p, n>> \notin replied /\ ~closed

\* The server never stalls: again and again a prompt is over or waits for the
\* client alone, so that all of them end once the client is gone and the server
\* can shut down (run_connection joins its dispatch tasks).
NeverStalls ==
  \A p \in Prompt : []<>(~InFlight(p) \/ WaitsForClient(p))

=============================================================================

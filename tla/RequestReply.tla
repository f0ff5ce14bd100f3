----------------------------- MODULE RequestReply -----------------------------
(***************************************************************************)
(* What a connection promises to those who send requests over it: a        *)
(* request ends once, with the peer's reply to that very request or with   *)
(* an error, and once the connection is closed every open request ends     *)
(* (Connection::send_request, crates/acp/src/connection.rs).               *)
(***************************************************************************)
CONSTANT Request   \* the requests that may be sent

VARIABLES status,  \* where each request stands
          replied, \* requests the peer has replied to
          closed   \* the way back from the peer is closed

rrVars == <<status, replied, closed>>

Status == {"new", "open", "answered", "failed"}

RRTypeOK ==
  /\ status \in [Request -> Status]
  /\ replied \subseteq Request
  /\ closed \in BOOLEAN

RRInit ==
  /\ status = [r \in Request |-> "new"]
  /\ replied = {}
  /\ closed = FALSE

\* A request is refused at once when the connection is already closed.
Open(r) ==
  /\ status[r] = "new"
  /\ status' = [status EXCEPT ![r] = IF closed THEN "failed" ELSE "open"]
  /\ UNCHANGED <<replied, closed>>

\* The peer may reply to whatever has been asked, even if nobody waits.
Reply(r) ==
  /\ status[r] # "new"
  /\ replied' = replied \cup {r}
  /\ UNCHANGED <<status, closed>>

Answer(r) ==
  /\ status[r] = "open" /\ r \in replied
  /\ status' = [status EXCEPT ![r] = "answered"]
  /\ UNCHANGED <<replied, closed>>

\* The transport fails, the connection is closed, or nobody waits any more.
Fail(r) ==
  /\ status[r] = "open"
  /\ status' = [status EXCEPT ![r] = "failed"]
  /\ UNCHANGED <<replied, closed>>

Close == ~closed /\ closed' = TRUE /\ UNCHANGED <<status, replied>>

RRNext ==
  \/ \E r \in Request : Open(r) \/ Reply(r) \/ Answer(r) \/ Fail(r)
  \/ Close

\* A closed connection ends what is open.
Ending(r) == closed /\ (Answer(r) \/ Fail(r))

RRSpec == RRInit /\ [][RRNext]_rrVars /\ \A r \in Request : WF_rrVars(Ending(r))

=============================================================================

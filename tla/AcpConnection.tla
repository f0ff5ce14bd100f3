---------------------------- MODULE AcpConnection ----------------------------
(***************************************************************************)
(* The newline-delimited JSON-RPC connection of the ACP server             *)
(* (crates/acp/src/connection.rs): many tasks send frames through one      *)
(* writer behind a mutex, a reader routes replies to the requests that     *)
(* wait for them.                                                          *)
(*                                                                         *)
(* A frame is its message and how much of it the transport has taken, in   *)
(* FrameSize pieces.  A task may be dropped at any await: it lets go of    *)
(* the mutex, but what it left in the writer stays.                        *)
(***************************************************************************)
EXTENDS Integers

CONSTANTS Outbound,   \* outbound requests, by their ids (next_outbound_id)
          Note,       \* responses and notifications: nothing comes back
          ByReader,   \* notes of the reader: errors for lines it cannot parse
          FrameSize,  \* pieces of a frame
          MaxReplies, \* bound: replies the peer sends to one request
          NoFrame     \* the writer holds no frame

ASSUME WireAssumption ==
  /\ FrameSize \in Nat \ {0}
  /\ MaxReplies \in Nat
  /\ Outbound \cap Note = {}
  /\ ByReader \subseteq Note
  /\ NoFrame \notin [msg : Outbound \cup Note, pos : 0..FrameSize]

Message == Outbound \cup Note

VARIABLES pc,       \* where the sender of a message is
          result,   \* how the call of the sender ended
          frame,    \* WriterState::pending
          onWire,   \* pieces of a message's frame the transport has taken
          waiting,  \* Connection::pending: requests whose reply has a taker
          inbox,    \* requests whose oneshot holds a reply
          coming,   \* replies on their way to the reader
          replies,  \* replies the peer has sent to a request
          readerClosed \* reader_closed

senders == <<pc, result>>
incoming == <<coming, replies>>
wireVars == <<senders, frame, onWire, waiting, inbox, incoming, readerClosed>>

\* Only one sender can be between the acquisition and the release of the mutex.
Holds(m) == pc[m] \in {"leftover", "own"}

Pending(m) == pc[m] \in {"queued", "leftover", "own", "written"}

WireInit ==
  /\ pc = [m \in Message |-> "new"]
  /\ result = [m \in Message |-> "none"]
  /\ frame = NoFrame
  /\ onWire = [m \in Message |-> 0]
  /\ waiting = {} /\ inbox = {} /\ coming = {}
  /\ replies = [r \in Outbound |-> 0]
  /\ readerClosed = FALSE

-----------------------------------------------------------------------------
\* The call of a sender returns, or its future is dropped: the mutex and the
\* place in the pending map are given back.
Ends(m, how) ==
  /\ pc' = [pc EXCEPT ![m] = "ended"]
  /\ result' = [result EXCEPT ![m] = how]
  /\ waiting' = waiting \ {m}
  /\ inbox' = inbox \ {m}

\* The reader reads on only when the error it sends itself is written.
Reading == ~readerClosed /\ \A m \in ByReader : ~Pending(m)

\* send_response, send_error_response, send_notification.
SendNote(m) ==
  /\ m \in Note /\ pc[m] = "new"
  /\ m \in ByReader => Reading
  /\ pc' = [pc EXCEPT ![m] = "queued"]
  /\ UNCHANGED <<result, frame, onWire, waiting, inbox, incoming, readerClosed>>

SendRequest(m) ==
  /\ m \in Outbound /\ pc[m] = "new"
  /\ IF readerClosed
     THEN Ends(m, "closed")
     ELSE /\ pc' = [pc EXCEPT ![m] = "queued"]
          /\ waiting' = waiting \cup {m}
          /\ UNCHANGED <<result, inbox>>
  /\ UNCHANGED <<frame, onWire, incoming, readerClosed>>

\* Mutant of Acquire: the frame found in the writer is replaced.
AcquireOver(m) ==
  /\ pc[m] = "queued"
  /\ \A n \in Message : ~Holds(n)
  /\ pc' = [pc EXCEPT ![m] = "own"]
  /\ frame' = [msg |-> m, pos |-> 0]
  /\ UNCHANGED <<result, onWire, waiting, inbox, incoming, readerClosed>>

\* Mutant of Acquire: a frame of which nothing was sent is finished too.
AcquireKeeping(m) ==
  /\ pc[m] = "queued"
  /\ \A n \in Message : ~Holds(n)
  /\ IF frame # NoFrame
     THEN /\ pc' = [pc EXCEPT ![m] = "leftover"]
          /\ UNCHANGED frame
     ELSE /\ pc' = [pc EXCEPT ![m] = "own"]
          /\ frame' = [msg |-> m, pos |-> 0]
  /\ UNCHANGED <<result, onWire, waiting, inbox, incoming, readerClosed>>

\* write_line takes the mutex: a frame of which nothing was sent is discarded,
\* the rest of any other has to be sent first.
Acquire(m) ==
  /\ pc[m] = "queued"
  /\ \A n \in Message : ~Holds(n)
  /\ IF frame # NoFrame /\ frame.pos > 0
     THEN /\ pc' = [pc EXCEPT ![m] = "leftover"]
          /\ UNCHANGED frame
     ELSE /\ pc' = [pc EXCEPT ![m] = "own"]
          /\ frame' = [msg |-> m, pos |-> 0]
  /\ UNCHANGED <<result, onWire, waiting, inbox, incoming, readerClosed>>

\* write_all_buf: the cursor advances with every piece that is taken.
Advance(m) ==
  /\ Holds(m)
  /\ frame.pos < FrameSize
  /\ frame' = [frame EXCEPT !.pos = @ + 1]
  /\ onWire' = [onWire EXCEPT ![frame.msg] = @ + 1]
  /\ UNCHANGED <<senders, waiting, inbox, incoming, readerClosed>>

\* The flush succeeds: finish_pending is done with the frame.
Flush(m) ==
  /\ Holds(m)
  /\ frame.pos = FrameSize
  /\ \/ /\ pc[m] = "leftover"
        /\ pc' = [pc EXCEPT ![m] = "own"]
        /\ frame' = [msg |-> m, pos |-> 0]
        /\ UNCHANGED <<result, waiting, inbox>>
     \/ /\ pc[m] = "own" /\ m \in Outbound
        /\ pc' = [pc EXCEPT ![m] = "written"]
        /\ frame' = NoFrame
        /\ UNCHANGED <<result, waiting, inbox>>
     \/ /\ pc[m] = "own" /\ m \in Note
        /\ Ends(m, "sent")
        /\ frame' = NoFrame
  /\ UNCHANGED <<onWire, incoming, readerClosed>>

\* A write or a flush fails: the sender leaves, the frame stays.
WriteFails(m) ==
  /\ Holds(m)
  /\ Ends(m, "error")
  /\ UNCHANGED <<frame, onWire, incoming, readerClosed>>

\* The task of a request is aborted (the drainer of the prompt is shut down).
Drop(m) ==
  /\ m \in Outbound /\ Pending(m)
  /\ Ends(m, "dropped")
  /\ UNCHANGED <<frame, onWire, incoming, readerClosed>>

\* The select! of send_request: a reply that is there, or the end of the
\* reader; both interrupt a write that is still in progress.
TakeReply(m) ==
  /\ Pending(m) /\ m \in inbox
  /\ Ends(m, "reply")
  /\ UNCHANGED <<frame, onWire, incoming, readerClosed>>

\* Mutant of GiveUp: the write is not interrupted by the end of the reader.
GiveUpWritten(m) ==
  /\ m \in Outbound /\ pc[m] = "written" /\ readerClosed
  /\ Ends(m, "closed")
  /\ UNCHANGED <<frame, onWire, incoming, readerClosed>>

GiveUp(m) ==
  /\ m \in Outbound /\ Pending(m) /\ readerClosed
  /\ Ends(m, "closed")
  /\ UNCHANGED <<frame, onWire, incoming, readerClosed>>

-----------------------------------------------------------------------------
\* The peer replies to a request it has read whole, possibly more than once.
PeerReplies(r) ==
  /\ onWire[r] = FrameSize
  /\ r \notin coming
  /\ replies[r] < MaxReplies
  /\ replies' = [replies EXCEPT ![r] = @ + 1]
  /\ coming' = coming \cup {r}
  /\ UNCHANGED <<senders, frame, onWire, waiting, inbox, readerClosed>>

\* complete_pending: a reply nobody waits for is dropped.
Deliver(r) ==
  /\ Reading /\ r \in coming
  /\ coming' = coming \ {r}
  /\ waiting' = waiting \ {r}
  /\ inbox' = IF r \in waiting THEN inbox \cup {r} ELSE inbox
  /\ UNCHANGED <<senders, frame, onWire, replies, readerClosed>>

\* End of file, a read error, or nobody dispatches any more.
CloseReader ==
  /\ Reading
  /\ readerClosed' = TRUE
  /\ UNCHANGED <<senders, frame, onWire, waiting, inbox, incoming>>

Sender(m) ==
  SendNote(m) \/ SendRequest(m) \/ Acquire(m) \/ Advance(m) \/ Flush(m)
  \/ WriteFails(m) \/ Drop(m) \/ TakeReply(m) \/ GiveUp(m)

WireNext ==
  \/ \E m \in Message : Sender(m)
  \/ \E r \in Outbound : PeerReplies(r) \/ Deliver(r)
  \/ CloseReader

\* The runtime polls a request whose reply has come or whose reader is gone;
\* that the transport takes anything is not assumed.
WireSpec ==
  /\ WireInit /\ [][WireNext]_wireVars
  /\ \A r \in Outbound : WF_wireVars(TakeReply(r) \/ GiveUp(r))

-----------------------------------------------------------------------------
WireTypeOK ==
  /\ pc \in [Message -> {"new", "queued", "leftover", "own", "written", "ended"}]
  /\ result \in [Message -> {"none", "sent", "reply", "closed", "error", "dropped"}]
  /\ frame \in {NoFrame} \cup [msg : Message, pos : 0..FrameSize]
  /\ onWire \in [Message -> 0..FrameSize]
  /\ waiting \subseteq Outbound /\ inbox \subseteq Outbound /\ coming \subseteq Outbound
  /\ replies \in [Outbound -> 0..MaxReplies]
  /\ readerClosed \in BOOLEAN

\* Frames never interleave, whoever is dropped in the middle of one: the only
\* message that is partly on the wire is the one the writer holds.
FramesWhole ==
  \A m \in Message : onWire[m] \in 1..(FrameSize - 1) => frame # NoFrame /\ frame.msg = m

\* The parts of the inductive invariant.
OneHolder == \A m, n \in Message : Holds(m) /\ Holds(n) => m = n

HolderHasFrame ==
  /\ frame # NoFrame => frame.pos = onWire[frame.msg]
  /\ \A m \in Message :
       /\ pc[m] \in {"new", "queued"} => onWire[m] = 0 /\ (frame # NoFrame => frame.msg # m)
       /\ pc[m] = "leftover" => onWire[m] = 0 /\ frame # NoFrame /\ frame.msg # m /\ frame.pos > 0
       /\ pc[m] = "own" => frame # NoFrame /\ frame.msg = m
       /\ pc[m] = "written" \/ result[m] \in {"sent", "reply"} => onWire[m] = FrameSize

\* A place in the pending map belongs to a request that is still awaited, and
\* what was delivered was sent by the peer for that request.
RegisteredAreAwaited ==
  /\ waiting \cup inbox \subseteq {r \in Outbound : Pending(r)}
  /\ waiting \cap inbox = {}
  /\ \A r \in Outbound :
       /\ r \in inbox \cup coming \/ result[r] = "reply" => replies[r] > 0
       /\ replies[r] > 0 => onWire[r] = FrameSize
       /\ result[r] # "sent"
  /\ \A m \in Message : result[m] # "none" <=> pc[m] = "ended"

WireIInv ==
  WireTypeOK /\ FramesWhole /\ OneHolder /\ HolderHasFrame /\ RegisteredAreAwaited

\* A sender that left before anything of its frame was sent is never heard of
\* again: the writer discards the frame before the next one.
LeftUnseen ==
  [][\A m \in Message : pc[m] = "ended" /\ onWire[m] = 0 => onWire'[m] = 0]_wireVars

\* What the senders of requests are promised (module RequestReply).
Promise == INSTANCE RequestReply WITH
  Request <- Outbound, closed <- readerClosed,
  status <- [r \in Outbound |->
               CASE pc[r] = "new" -> "new"
                 [] Pending(r) -> "open"
                 [] pc[r] = "ended" /\ result[r] = "reply" -> "answered"
                 [] OTHER -> "failed"],
  replied <- {r \in Outbound : replies[r] > 0}

\* The connection keeps the promise: a request ends once, with its own reply
\* or an error, and no request outlives the reader.
KeepsPromise == Promise!RRSpec

=============================================================================

------------------------------ MODULE MessagePump ------------------------------
(***************************************************************************)
(* BoundedMessagePump: one direction of a relayed connection, with the     *)
(* source and target transports and the relay's closeBoth around it.       *)
(*                                                                         *)
(* A message is its number (how many the source sent before it, plus one), *)
(* its size, and `upto`: the bytes accepted up to and including it, a      *)
(* history value in terms of which the byte count can be stated without a  *)
(* sum.  The target's own buffer is external: its bufferedAmount may be    *)
(* any amount.                                                             *)
(***************************************************************************)
EXTENDS Integers, Sequences

CONSTANTS MaxMessageBytes, \* limits.maxMessageBytes
          MaxQueuedBytes,  \* limits.maxQueuedBytes
          Size,            \* sizes of the messages the source may send
          MaxMessages,     \* bound on the messages of one behaviour
          Burst            \* frames a paused source may still emit

\* validateConfig: the queue holds at least one message of the maximal size.
ASSUME MessagePumpAssumption ==
    /\ {MaxMessageBytes, MaxQueuedBytes, MaxMessages, Burst} \subseteq Nat
    /\ Size \subseteq Nat
    /\ MaxMessageBytes <= MaxQueuedBytes

VARIABLES queue, queuedBytes, sending, closed, paused, \* fields of the pump
          link,      \* "open", or "closing" once closeBoth ran
          emitted,   \* messages the source has emitted
          doomed,    \* the send in flight was issued on a closing transport
          burst,     \* frames still to come from the paused source
          received,  \* number of the last message written to the target
          inBytes, outBytes \* history: bytes accepted, and bytes handed on

pump == <<queue, queuedBytes, sending, doomed, closed, paused>>
vars == <<pump, link, emitted, burst, received, inBytes, outBytes>>

Message == [id : Nat, bytes : Nat, upto : Nat]
None    == [id |-> 0, bytes |-> 0, upto |-> 0]

Init ==
    /\ queue = <<>>
    /\ queuedBytes = 0
    /\ sending = None
    /\ doomed = FALSE
    /\ closed = FALSE
    /\ paused = FALSE
    /\ link = "open"
    /\ emitted = 0
    /\ burst = 0
    /\ received = 0
    /\ inBytes = 0
    /\ outBytes = 0

\* #drain with queue q, when no send is in flight and pause flag p: hands over
\* the first message, or resumes the source.  A send on a closing transport
\* can only fail.
Drain(q, p) ==
    IF q = <<>>
    THEN queue' = q /\ sending' = None /\ doomed' = FALSE /\ paused' = FALSE
    ELSE queue' = Tail(q) /\ sending' = Head(q) /\ doomed' = (link # "open") /\ paused' = p

Fits(n) == queuedBytes + n <= MaxQueuedBytes

\* Mutant: an oversized message is dropped and the relay goes on.
RejectSilently == UNCHANGED link

\* onFailure: the relay's failStream closes both transports.
Reject == link' = "closing"

Accept(n) ==
    LET m == [id |-> emitted + 1, bytes |-> n, upto |-> inBytes + n]
        q == Append(queue, m)
        p == paused \/ sending # None \/ Len(q) > 1
    IN  /\ queuedBytes' = queuedBytes + n
        /\ inBytes' = inBytes + n
        /\ IF sending # None
           THEN queue' = q /\ paused' = p /\ UNCHANGED <<sending, doomed>>
           ELSE Drain(q, p)
        /\ UNCHANGED <<closed, link, received, outBytes>>

\* A message event of the source.  A paused source emits only what it had read
\* already.
Enqueue ==
    /\ emitted < MaxMessages
    /\ paused => burst > 0
    /\ emitted' = emitted + 1
    /\ burst' = IF paused THEN burst - 1 ELSE Burst
    /\ \E n \in Size :
         \/ /\ closed
            /\ UNCHANGED <<pump, link, received, inBytes, outBytes>>
         \/ /\ ~closed
            /\ Reject
            /\ UNCHANGED <<pump, received, inBytes, outBytes>>
         \/ /\ ~closed
            /\ n <= MaxMessageBytes
            /\ Fits(n)
            /\ Accept(n)

\* Mutant: close() leaves the source paused.
CloseStaysPaused ==
    /\ closed' = TRUE
    /\ queue' = <<>>
    /\ queuedBytes' = 0
    /\ UNCHANGED paused

Close ==
    /\ closed' = TRUE
    /\ queue' = <<>>
    /\ queuedBytes' = 0
    /\ paused' = FALSE

\* Mutant: the callback goes on subtracting after close().
RemainingAlways == queuedBytes - sending.bytes

\* The byte count after a callback: close() has zeroed it already.
Remaining == IF closed THEN queuedBytes ELSE queuedBytes - sending.bytes

\* The callback of a send that was written.  A transport that is closing still
\* flushes what it was given before.
Delivered ==
    /\ sending # None
    /\ ~doomed
    /\ received' = sending.id
    /\ queuedBytes' = Remaining
    /\ outBytes' = sending.upto
    /\ IF closed
       THEN sending' = None /\ UNCHANGED <<queue, doomed, paused>>
       ELSE Drain(queue, paused)
    /\ UNCHANGED <<closed, link, emitted, burst, inBytes>>

\* The callback of a send that failed.
SendFailed ==
    /\ sending # None
    /\ sending' = None
    /\ doomed' = FALSE
    /\ outBytes' = sending.upto
    /\ Close
    /\ Reject
    /\ UNCHANGED <<emitted, burst, received, inBytes>>

\* closeBoth for any other reason: a peer, a timer, the other direction.
LinkCloses ==
    /\ link = "open"
    /\ link' = "closing"
    /\ UNCHANGED <<pump, emitted, burst, received, inBytes, outBytes>>

\* finalizeIfClosed, when both transports are closed.
Finalized ==
    /\ link = "closing"
    /\ ~closed
    /\ Close
    /\ UNCHANGED <<sending, doomed, link, emitted, burst, received, inBytes, outBytes>>

Next == Enqueue \/ Delivered \/ SendFailed \/ LinkCloses \/ Finalized

Spec == Init /\ [][Next]_vars
\* The target transport calls back for every send.
FairSpec == Spec /\ WF_vars(Delivered \/ SendFailed)

-------------------------------------------------------------------------------
(* Properties                                                                *)

\* The variables keep their types.
TypeOK ==
    /\ queue \in Seq(Message)
    /\ queuedBytes \in Int
    /\ sending \in Message
    /\ {doomed, closed, paused} \subseteq BOOLEAN
    /\ link \in {"open", "closing"}
    /\ {emitted, received, inBytes, outBytes} \subseteq Nat
    /\ burst \in Int

\* The byte count of enqueue and the send callback stays within its limit and
\* never runs below zero, also when close() comes while a send is in flight.
BytesBounded == queuedBytes \in 0..MaxQueuedBytes

\* What the byte count counts: the bytes accepted and not yet handed on.
BytesExact == IF closed THEN queuedBytes = 0 ELSE queuedBytes = inBytes - outBytes

Channel == INSTANCE BoundedChannel
             WITH Limit <- MaxQueuedBytes, sent <- emitted, waiting <- queuedBytes

\* The pump implements the channel: whatever is refused, dropped or fails, the
\* target receives the source's messages from the first one on without a gap,
\* a repetition or a change of order.
ChannelKept == Channel!ChSpec

\* A source that was paused is resumed, by #drain on an empty queue or by
\* close(): no message or close frame of the peer is left unread for ever.
SourceResumes == paused ~> ~paused

\* The messages that are in the pump, in order, are the ones that follow the
\* last one received; their `upto` values partition the bytes counted.
InOrder ==
    /\ sending # None /\ ~doomed => sending.id = received + 1
    /\ sending # None => sending.id <= emitted
    /\ ~closed /\ link = "open" =>
         /\ ~doomed
         /\ \A i \in 1..Len(queue) : queue[i].id = received + i + 1
         /\ emitted = received + Len(queue) + (IF sending = None THEN 0 ELSE 1)
    /\ \A i \in 1..Len(queue) : queue[i].id \in 1..emitted

Stamped ==
    ~closed =>
      /\ sending = None => queue = <<>> /\ inBytes = outBytes
      /\ sending # None => sending.upto = outBytes + sending.bytes /\ sending.upto <= inBytes
      /\ \A i \in 1..Len(queue) :
           /\ queue[i].upto <= inBytes
           /\ queue[i].upto = queue[i].bytes + (IF i = 1 THEN sending.upto ELSE queue[i - 1].upto)
      /\ sending # None =>
           inBytes = (IF queue = <<>> THEN sending.upto ELSE queue[Len(queue)].upto)

AfterClose == closed => queue = <<>> /\ ~paused /\ link = "closing"

\* The inductive invariant behind BytesBounded and ChannelKept.
PumpInv == TypeOK /\ BytesBounded /\ BytesExact /\ InOrder /\ Stamped /\ AfterClose
=============================================================================

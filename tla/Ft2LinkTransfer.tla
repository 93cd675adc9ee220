---------------------------- MODULE Ft2LinkTransfer ----------------------------
(***************************************************************************)
(* The two ends of one FT2-Link message transfer                           *)
(* (src/lib/ft2link/FT2LinkSession.cpp) as operators on records: what the  *)
(* sender puts on the air, what an ACK does to it, what the receiver       *)
(* stores and what it acknowledges.  Every message of a session numbers    *)
(* its frames from 0, and no frame carries the number of its message: the  *)
(* model keeps the message a payload came from so that properties can tell,*)
(* and no operator here looks at it.                                       *)
(***************************************************************************)
EXTENDS Integers, FiniteSets

CONSTANTS
    Messages,       \* the messages the operator hands to one session
    NoMessage,      \* no transfer / no payload stored
    Length,         \* frames in each message
    Frames,         \* the longest of them
    Window,         \* setWindowSize, 4 in the adapter
    BitmapWidth,    \* bits of an ACK's bitmap, 16 in the code
    MaxAttempts     \* setMaxAttempts, 6 in the code

ASSUME TransferAssumption ==
    /\ NoMessage \notin Messages
    /\ Frames \in Nat \ {0}
    /\ Length \in [Messages -> 1 .. Frames]
    /\ Window \in Nat \ {0}
    /\ BitmapWidth \in Nat
    /\ MaxAttempts \in Nat \ {0}
    /\ Frames + BitmapWidth <= 65536     \* sequences stay clear of the uint16 wrap

Sequences == 0 .. Frames - 1

FramesOf(m) == 0 .. Length[m] - 1

EndOfMessage(frame) == frame.seq = Length[frame.msg] - 1

Below(S, s) == Cardinality({t \in S : t < s})

-----------------------------------------------------------------------------
(* OutboundTransfer *)

Outbounds == [msg : Messages \cup {NoMessage}, attempts : [Sequences -> Nat],
              acked : SUBSET Sequences, failed : BOOLEAN]

NewOutbound(m) == [msg |-> m, attempts |-> [s \in Sequences |-> 0],
                   acked |-> {}, failed |-> FALSE]

Open(o) == FramesOf(o.msg) \ o.acked

InFlight(o) == {s \in Open(o) : o.attempts[s] > 0}

\* Mutant: new frames are admitted whether or not the window has room.
AdmittedBeyondWindow(o, due) ==
    due \cup {s \in Open(o) : o.attempts[s] = 0}

(* The frames the scan of framesToSend does not skip: the sent ones whose   *)
(* retry time is over, and new ones while the window has room.              *)
Admitted(o, due) ==
    LET fresh == {s \in Open(o) : o.attempts[s] = 0}
    IN  due \cup {s \in fresh : Below(fresh, s) + Cardinality(InFlight(o)) < Window}

Exhausted(o, due) == {s \in due : o.attempts[s] >= MaxAttempts}

\* Mutant: the attempts of a frame are not limited.
FramesToSendUntiring(o, due) ==
    {s \in Admitted(o, due) : Below(Admitted(o, due), s) < Window}

(* One burst holds a window of admitted frames in order, and stops at the   *)
(* first that has no attempt left.                                          *)
FramesToSend(o, due) ==
    IF o.failed THEN {}
    ELSE {s \in Admitted(o, due) : /\ Below(Admitted(o, due), s) < Window
                                   /\ \A e \in Exhausted(o, due) : s < e}

AfterSending(o, due) ==
    [o EXCEPT !.attempts = [s \in Sequences |->
                 IF s \in FramesToSend(o, due) THEN o.attempts[s] + 1 ELSE o.attempts[s]],
              !.failed = \/ o.failed
                         \/ \E e \in Exhausted(o, due) : Below(Admitted(o, due), e) < Window]

\* Mutant: the base of an ACK counts as received.
AcknowledgesThrough(ack, s) == s <= ack.base \/ s - ack.base \in ack.bits

Acknowledges(ack, s) == s < ack.base \/ s - ack.base \in ack.bits

HandleAck(o, ack) ==
    [o EXCEPT !.acked = o.acked \cup {s \in FramesOf(o.msg) : Acknowledges(ack, s)}]

OutboundComplete(o) == FramesOf(o.msg) \subseteq o.acked

-----------------------------------------------------------------------------
(* InboundTransfer: held is m_received, last is m_lastSequence once known. *)

Inbounds == [held : [Sequences -> Messages \cup {NoMessage}], last : Sequences \cup {-1}]

NewInbound == [held |-> [s \in Sequences |-> NoMessage], last |-> -1]

Held(i) == {s \in Sequences : i.held[s] # NoMessage}

Receive(i, frame) ==
    [held |-> [i.held EXCEPT ![frame.seq] = frame.msg],
     last |-> IF EndOfMessage(frame) THEN frame.seq ELSE i.last]

FirstMissing(i) ==
    CHOOSE b \in 0 .. Frames : b \notin Held(i) /\ \A s \in 0 .. Frames : s < b => s \in Held(i)

AckFor(i) == [base |-> FirstMissing(i),
              bits |-> {b \in 0 .. BitmapWidth - 1 : FirstMissing(i) + b \in Held(i)}]

\* Mutant: the end of the message is enough.
InboundEnded(i) == i.last # -1

InboundComplete(i) == i.last # -1 /\ 0 .. i.last \subseteq Held(i)

(* message(): the payloads from 0 to the last, each with its origin. *)
Content(i) == [s \in 0 .. i.last |-> i.held[s]]

Whole(m) == [s \in FramesOf(m) |-> m]
=============================================================================

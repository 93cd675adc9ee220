------------------------------ MODULE Ft2LinkArq ------------------------------
(***************************************************************************)
(* One connected FT2-Link session, from one station's transmit side to     *)
(* the other's receive side, as FT2LinkQmlAdapter drives it                *)
(* (src/controllers/FT2LinkQmlAdapter.cpp): application messages one after *)
(* another, selective-repeat bursts, the ACK that refills the window, the  *)
(* retry timer, the delayed window ACK, and the duplicate test before a    *)
(* message reaches the application.                                        *)
(*                                                                         *)
(* air and back are what is queued for transmission or under way in each   *)
(* direction: in order, and any element may be lost.  The clock is left    *)
(* out: a retry may find any of the frames in flight due again.            *)
(***************************************************************************)
EXTENDS Ft2LinkTransfer, Sequences

CONSTANTS
    MaxRetries,     \* bursts before the adapter gives up (3, or 5 with deep rate)
    MaxAir          \* bound: DATA frames under way when a burst may be added

ASSUME ArqAssumption == MaxRetries \in Nat \ {0} /\ MaxAir \in Nat

VARIABLES
    out,        \* m_liveOutbound of the session
    burst,      \* the frames of m_liveOutboundRetries' stored samples
    tries,      \* its attempts
    status,     \* what the sender's chat log shows for each message
    air, back,  \* DATA and ACK frames under way
    inbound,    \* m_liveInbound of the session
    delivered,  \* m_liveInboundDelivered
    hash,       \* m_liveInboundDeliveredHash: the content last delivered
    ackDue,     \* an entry of m_pendingInboundAckDueMs
    handed      \* every content handed to the receiving application

sender == <<out, burst, tries, status>>
receiver == <<inbound, delivered, hash, ackDue, handed>>
vars == <<sender, air, back, receiver>>

Init == /\ out = NewOutbound(NoMessage)
        /\ burst = {}
        /\ tries = 0
        /\ status = [m \in Messages |-> "Idle"]
        /\ air = <<>> /\ back = <<>>
        /\ inbound = NewInbound
        /\ delivered = FALSE
        /\ hash = <<>>
        /\ ackDue = FALSE
        /\ handed = <<>>

Sending == out.msg # NoMessage

(* A burst goes out lowest sequence first. *)
InOrder(S) == {f \in [1 .. Cardinality(S) -> S] : \A i, j \in DOMAIN f : i < j => f[i] < f[j]}

Transmit(m, S) == \E f \in InOrder(S) :
    air' = air \o [i \in DOMAIN f |-> [msg |-> m, seq |-> f[i]]]

Room == Len(air) + Window <= MaxAir

(* transmitApplicationPayloadRadio *)
Start(m) ==
    /\ ~Sending /\ status[m] = "Idle" /\ Room
    /\ out' = AfterSending(NewOutbound(m), {})
    /\ burst' = FramesToSend(NewOutbound(m), {})
    /\ tries' = 1
    /\ status' = [status EXCEPT ![m] = "Pending"]
    /\ Transmit(m, FramesToSend(NewOutbound(m), {}))
    /\ UNCHANGED <<back, receiver>>

(* The transfer is over.  An ACK that ends it, or refills its window, also  *)
(* purges what is still queued of it: here the losses of the channel do.    *)
Finish(verdict) ==
    /\ status' = [status EXCEPT ![out.msg] = verdict]
    /\ out' = NewOutbound(NoMessage)
    /\ burst' = {}
    /\ tries' = 0
    /\ UNCHANGED air

(* runLiveOutboundRetryCheck, with attempts left: what is due again, or the *)
(* stored burst when the transfer offers nothing.                           *)
Retry ==
    /\ Sending /\ tries < MaxRetries /\ Room
    /\ \E due \in SUBSET InFlight(out) :
         LET again == FramesToSend(out, due)
         IN  /\ out' = AfterSending(out, due)
             /\ Transmit(out.msg, IF again = {} THEN burst ELSE again)
    /\ tries' = tries + 1
    /\ UNCHANGED <<burst, status, back, receiver>>

\* Mutant: the message is not marked Failed.
GiveUpQuietly ==
    /\ Sending /\ tries >= MaxRetries
    /\ out' = NewOutbound(NoMessage) /\ burst' = {} /\ tries' = 0
    /\ UNCHANGED <<status, air, back, receiver>>

(* ... and with none left. *)
GiveUp ==
    /\ Sending /\ tries >= MaxRetries
    /\ Finish("Failed")
    /\ UNCHANGED <<back, receiver>>

(* queueLiveOutboundWindowAfterAck: everything in flight is due at once. *)
RefillWindow(o) ==
    LET next == FramesToSend(o, InFlight(o))
    IN  /\ out' = AfterSending(o, InFlight(o))
        /\ IF next = {} THEN UNCHANGED <<burst, tries, air>>
                        ELSE /\ burst' = next
                             /\ tries' = 1
                             /\ Transmit(o.msg, next)
        /\ UNCHANGED status

(* ingestRadioFrameBytes, an ACK. *)
HearAck ==
    /\ back # <<>>
    /\ back' = Tail(back)
    /\ LET o == HandleAck(out, Head(back))
       IN  \/ ~Sending /\ UNCHANGED <<sender, air>>
           \/ Sending /\ OutboundComplete(o) /\ Finish("Delivered")
           \/ Sending /\ o.acked = out.acked /\ ~OutboundComplete(o) /\ UNCHANGED <<sender, air>>
           \/ Sending /\ o.acked # out.acked /\ ~OutboundComplete(o) /\ RefillWindow(o)
    /\ UNCHANGED receiver

\* Mutant: any frame 0 starts a new transfer.
ResetsEagerly(frame) == frame.seq = 0

(* A frame 0 after a delivery starts a new InboundTransfer. *)
Resets(frame) == delivered /\ frame.seq = 0

(* ingestRadioFrameBytes, a DATA frame: store it, hand over a message that  *)
(* has become complete unless it repeats the last one within the duplicate  *)
(* window (recent), and acknowledge at once or after the debounce.          *)
Hear ==
    /\ air # <<>>
    /\ air' = Tail(air)
    /\ \E recent \in BOOLEAN :
         LET frame == Head(air)
             start == IF Resets(frame) THEN NewInbound ELSE inbound
             next == Receive(start, frame)
             ripe == InboundComplete(next) /\ ~(delivered /\ ~Resets(frame))
             repeated == delivered /\ recent /\ hash = Content(next)
         IN  /\ inbound' = next
             /\ delivered' = (ripe \/ (delivered /\ ~Resets(frame)))
             /\ hash' = IF ripe THEN Content(next) ELSE hash
             /\ handed' = IF ripe /\ ~repeated THEN Append(handed, Content(next)) ELSE handed
             /\ ackDue' = ~EndOfMessage(frame)
             /\ back' = IF EndOfMessage(frame) THEN Append(back, AckFor(next)) ELSE back
    /\ UNCHANGED sender

(* runPendingInboundAcks *)
SendWindowAck ==
    /\ ackDue
    /\ ackDue' = FALSE
    /\ back' = Append(back, AckFor(inbound))
    /\ UNCHANGED <<sender, air, inbound, delivered, hash, handed>>

LoseFrame == air # <<>> /\ air' = Tail(air) /\ UNCHANGED <<sender, back, receiver>>

LoseAck == back # <<>> /\ back' = Tail(back) /\ UNCHANGED <<sender, air, receiver>>

Next == \/ \E m \in Messages : Start(m)
        \/ Retry \/ GiveUp \/ HearAck
        \/ Hear \/ SendWindowAck
        \/ LoseFrame \/ LoseAck

(* The retry timer fires, and the radio gets to the end of its queue; what  *)
(* it sends may always be lost.                                             *)
Fairness == /\ WF_vars(Retry \/ GiveUp)
            /\ WF_vars(Hear \/ LoseFrame)

Spec == Init /\ [][Next]_vars /\ Fairness

-----------------------------------------------------------------------------
(* Every record keeps its shape, and no frame is sent more often than the   *)
(* attempts it is allowed.                                                  *)
TypeOK ==
    /\ out \in Outbounds
    /\ \A s \in Sequences : out.attempts[s] <= MaxAttempts
    /\ burst \subseteq Sequences
    /\ tries \in 0 .. MaxRetries
    /\ status \in [Messages -> {"Idle", "Pending", "Delivered", "Failed"}]
    /\ \A i \in DOMAIN air : air[i] \in [msg : Messages, seq : Sequences]
    /\ \A i \in DOMAIN back : /\ back[i].base \in 0 .. Frames
                              /\ back[i].bits \subseteq 0 .. BitmapWidth - 1
    /\ inbound \in Inbounds
    /\ delivered \in BOOLEAN /\ ackDue \in BOOLEAN

(* Unacknowledged frames never outnumber the window, however ACKs, refills  *)
(* and retries follow one another (framesToSend).                           *)
WindowRespected == Sending => Cardinality(InFlight(out)) <= Window

(* As long as the message has not reached the application, no frame the     *)
(* sender counts as acknowledged is missing at the receiver: the sender     *)
(* will not send it again (handleAckFrame, makeAckFrame, the reset rule).   *)
AckedIsHeld == handed = <<>> => out.acked \subseteq Held(inbound)

(* A message shown as Delivered has reached the receiving application,      *)
(* whole (the promise of markOutgoingDelivered).                            *)
DeliveredMeansHanded ==
    \A m \in Messages : status[m] = "Delivered" => \E i \in DOMAIN handed : handed[i] = Whole(m)

(* What the receiving application is given is a message somebody sent, not  *)
(* a part of it, nor frames of two of them: with one message, as a message  *)
(* sent later meets the frames of the one before at the receiver            *)
(* (InboundTransfer, the reset at frame 0).                                 *)
HandedIsWhole == \A i \in DOMAIN handed : \E m \in Messages : handed[i] = Whole(m)

(* What frames, ACKs and timers leave true, in whatever order they come.    *)
TransferInv == TypeOK /\ WindowRespected /\ HandedIsWhole

Delivery == INSTANCE Ft2LinkDelivery WITH
    arrived <- {m \in Messages : \E i \in DOMAIN handed : handed[i] = Whole(m)}

(* The session implements the delivery promise of Ft2LinkDelivery.          *)
DeliveryKept == Delivery!Spec

(* Every submitted message is settled, Delivered or Failed, even when the   *)
(* channel loses everything (runLiveOutboundRetryCheck).                    *)
Settles == \A m \in Messages :
    status[m] = "Pending" ~> status[m] \in {"Delivered", "Failed"}
=============================================================================

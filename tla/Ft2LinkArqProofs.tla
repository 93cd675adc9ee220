--------------------------- MODULE Ft2LinkArqProofs ---------------------------
(***************************************************************************)
(* What an FT2-Link session guarantees about its first message, for every  *)
(* message length, window, bitmap width and retry limit, and a channel     *)
(* that may lose anything.  The receiver starts a new InboundTransfer only *)
(* after a delivery, so until then its set of frames only grows, and an    *)
(* ACK that was true when it was sent is still true when it is heard.      *)
(***************************************************************************)
EXTENDS Ft2LinkArq, TLAPS, FiniteSetTheorems, SequenceTheorems, WellFoundedInduction

DataFrames == [msg : Messages, seq : Sequences]

Acks == [base : 0 .. Frames, bits : SUBSET (0 .. BitmapWidth - 1)]

(* The ACKs that claim nothing the receiver does not hold. *)
TrueAcks == {a \in Acks : \A s \in Sequences : Acknowledges(a, s) => s \in Held(inbound)}

Verdicts == {"Idle", "Pending", "Delivered", "Failed"}

Shape ==
    /\ out \in Outbounds
    /\ burst \in SUBSET Sequences
    /\ tries \in 0 .. MaxRetries
    /\ status \in [Messages -> Verdicts]
    /\ air \in Seq(DataFrames)
    /\ back \in Seq(Acks)
    /\ inbound \in Inbounds
    /\ delivered \in BOOLEAN
    /\ ackDue \in BOOLEAN

(* The end of the message is known exactly when its last frame has come. *)
EndKnown(m) ==
    /\ inbound.last \in {-1, Length[m] - 1}
    /\ Length[m] - 1 \in Held(inbound) => inbound.last = Length[m] - 1

Undelivered ==
    handed = <<>> =>
        /\ ~delivered
        /\ ~InboundComplete(inbound)
        /\ back \in Seq(TrueAcks)
        /\ out.acked \subseteq Held(inbound)

IInv(m) ==
    /\ Shape
    /\ EndKnown(m)
    /\ Undelivered
    /\ handed \in Seq({Whole(m)})
    /\ status[m] = "Delivered" => handed # <<>>

-----------------------------------------------------------------------------
(* Frames of a message are sequence numbers; they are finitely many. *)
LEMMA FramesAreSequences ==
    /\ \A m \in Messages : /\ Length[m] - 1 \in Sequences
                           /\ FramesOf(m) \subseteq Sequences
    /\ IsFiniteSet(Sequences)
<1>1. Frames \in Nat \ {0} /\ Length \in [Messages -> 1 .. Frames]
  BY TransferAssumption
<1>2. IsFiniteSet(0 .. Frames - 1)
  BY <1>1, FS_Interval
<1>3. ASSUME NEW m \in Messages
      PROVE  Length[m] - 1 \in Sequences /\ FramesOf(m) \subseteq Sequences
  <2>1. Length[m] \in 1 .. Frames
    BY <1>1
  <2>2. QED
    BY <1>1, <2>1 DEF Sequences, FramesOf
<1>4. QED
  BY <1>2, <1>3 DEF Sequences

(* A fresh transfer has nothing acknowledged (OutboundTransfer's constructor). *)
LEMMA NewOutboundType ==
    ASSUME NEW m \in Messages \cup {NoMessage}
    PROVE  /\ NewOutbound(m) \in Outbounds
           /\ NewOutbound(m).msg = m
           /\ NewOutbound(m).acked = {}
  BY DEF NewOutbound, Outbounds

(* framesToSend offers sequence numbers and acknowledges nothing. *)
LEMMA SendingType ==
    ASSUME NEW o \in Outbounds, o.msg \in Messages, NEW due \in SUBSET Sequences
    PROVE  /\ FramesToSend(o, due) \in SUBSET Sequences
           /\ AfterSending(o, due) \in Outbounds
           /\ AfterSending(o, due).acked = o.acked
           /\ AfterSending(o, due).msg = o.msg
<1>1. Open(o) \subseteq Sequences
  BY FramesAreSequences DEF Open
<1>2. FramesToSend(o, due) \in SUBSET Sequences
  BY <1>1 DEF FramesToSend, Admitted
<1>3. [s \in Sequences |-> IF s \in FramesToSend(o, due) THEN o.attempts[s] + 1 ELSE o.attempts[s]]
        \in [Sequences -> Nat]
  BY DEF Outbounds
<1>4. QED
  BY <1>2, <1>3 DEF AfterSending, Outbounds

(* A burst adds frames of its message to what is under way. *)
LEMMA TransmitType ==
    ASSUME NEW m \in Messages, NEW S \in SUBSET Sequences,
           air \in Seq(DataFrames), Transmit(m, S)
    PROVE  air' \in Seq(DataFrames)
<1>1. Cardinality(S) \in Nat
  BY FramesAreSequences, FS_Subset, FS_CardinalityType
<1>2. PICK f \in InOrder(S) : air' = air \o [i \in DOMAIN f |-> [msg |-> m, seq |-> f[i]]]
  BY DEF Transmit
<1>3. f \in [1 .. Cardinality(S) -> S]
  BY <1>2 DEF InOrder
<1>4. [i \in DOMAIN f |-> [msg |-> m, seq |-> f[i]]] \in [1 .. Cardinality(S) -> DataFrames]
  BY <1>3 DEF DataFrames
<1>5. [i \in DOMAIN f |-> [msg |-> m, seq |-> f[i]]] \in Seq(DataFrames)
  BY <1>1, <1>4
<1>6. QED
  BY <1>2, <1>5, ConcatProperties

(* makeAckFrame's base is well defined: some number up to Frames is missing, *)
(* and so there is a first one.                                              *)
LEMMA FirstMissingExists ==
    ASSUME NEW i \in Inbounds
    PROVE  /\ FirstMissing(i) \in 0 .. Frames
           /\ \A s \in 0 .. Frames : s < FirstMissing(i) => s \in Held(i)
<1> DEFINE Missing == {b \in 0 .. Frames : b \notin Held(i)}
<1>1. Frames \in Nat
  BY TransferAssumption
<1>2. Missing # {}
  <2>1. Frames \notin Held(i)
    BY <1>1 DEF Held, Sequences
  <2>2. QED
    BY <1>1, <2>1
<1>3. OpToRel(<, Nat) = {p \in Nat \X Nat : p[1] < p[2]}
  BY DEF OpToRel
<1>4. PICK b \in Missing : \A y \in Missing : <<y, b>> \notin {p \in Nat \X Nat : p[1] < p[2]}
  <2>1. IsWellFoundedOn({p \in Nat \X Nat : p[1] < p[2]}, Nat)
    BY <1>3, NatLessThanWellFounded
  <2>2. Missing \subseteq Nat
    OBVIOUS
  <2>3. QED
    BY <1>2, <2>1, <2>2, WFMin
<1>5. ASSUME NEW s \in 0 .. Frames, s < b, s \notin Held(i)
      PROVE  FALSE
  <2>1. s \in Missing
    BY <1>5
  <2>2. <<s, b>> \in {p \in Nat \X Nat : p[1] < p[2]}
    <3>1. s \in Nat /\ b \in Nat
      OBVIOUS
    <3>2. QED
      BY <1>5, <3>1
  <2>3. QED
    BY <1>4, <2>1, <2>2
<1>6. b \in 0 .. Frames /\ b \notin Held(i)
  OBVIOUS
<1>7. QED
  BY <1>5, <1>6 DEF FirstMissing

(* The ACK of a receiver claims only frames the receiver holds. *)
LEMMA AcksAreTrue ==
    ASSUME NEW i \in Inbounds
    PROVE  /\ AckFor(i) \in Acks
           /\ \A s \in Sequences : Acknowledges(AckFor(i), s) => s \in Held(i)
<1>1. /\ FirstMissing(i) \in 0 .. Frames
      /\ \A s \in 0 .. Frames : s < FirstMissing(i) => s \in Held(i)
  BY FirstMissingExists
<1>2. Frames \in Nat /\ BitmapWidth \in Nat
  BY TransferAssumption
<1>3. AckFor(i) \in Acks
  BY <1>1 DEF AckFor, Acks
<1>4. ASSUME NEW s \in Sequences, Acknowledges(AckFor(i), s)
      PROVE  s \in Held(i)
  <2>1. CASE s < FirstMissing(i)
    BY <1>1, <1>2, <2>1 DEF Sequences
  <2>2. CASE s - FirstMissing(i) \in AckFor(i).bits
    <3>1. FirstMissing(i) + (s - FirstMissing(i)) \in Held(i)
      BY <2>2 DEF AckFor
    <3>2. FirstMissing(i) + (s - FirstMissing(i)) = s
      BY <1>1, <1>2 DEF Sequences
    <3>3. QED
      BY <3>1, <3>2
  <2>3. QED
    BY <1>4, <2>1, <2>2 DEF Acknowledges, AckFor
<1>5. QED
  BY <1>3, <1>4

(* Storing a frame adds it to what is held and never loses another. *)
LEMMA ReceiveAdds ==
    ASSUME NEW i \in Inbounds, NEW frame \in DataFrames
    PROVE  /\ Receive(i, frame) \in Inbounds
           /\ Held(Receive(i, frame)) = Held(i) \cup {frame.seq}
           /\ Receive(i, frame).last =
                IF frame.seq = Length[frame.msg] - 1 THEN frame.seq ELSE i.last
<1>1. frame.msg \in Messages /\ frame.seq \in Sequences
  BY DEF DataFrames
<1>2. frame.msg # NoMessage
  BY <1>1, TransferAssumption
<1>3. i.held \in [Sequences -> Messages \cup {NoMessage}] /\ i.last \in Sequences \cup {-1}
  BY DEF Inbounds
<1>4. QED
  BY <1>1, <1>2, <1>3 DEF Receive, EndOfMessage, Inbounds, Held

(* A message that is complete at the receiver is the one the sender sent. *)
LEMMA CompleteIsWhole ==
    ASSUME NEW m, Messages = {m}, NEW i \in Inbounds,
           i.last \in {-1, Length[m] - 1}, InboundComplete(i)
    PROVE  Content(i) = Whole(m)
<1>1. i.last = Length[m] - 1
  BY DEF InboundComplete
<1>2. 0 .. i.last = FramesOf(m)
  BY <1>1 DEF FramesOf
<1>3. ASSUME NEW s \in FramesOf(m) PROVE i.held[s] = m
  <2>1. s \in Held(i)
    BY <1>2, <1>3 DEF InboundComplete
  <2>2. QED
    BY <2>1 DEF Held, Inbounds
<1>4. QED
  BY <1>2, <1>3 DEF Content, Whole

-----------------------------------------------------------------------------
(* Every action keeps the shape of the state, with any number of messages.  *)
LEMMA ShapeAtFirst == Init => Shape
<1> SUFFICES ASSUME Init PROVE Shape
  OBVIOUS
<1>1. out \in Outbounds
  BY NewOutboundType DEF Init
<1>2. inbound \in Inbounds
  BY DEF Init, NewInbound, Inbounds
<1>3. tries \in 0 .. MaxRetries
  BY ArqAssumption DEF Init
<1>4. QED
  BY <1>1, <1>2, <1>3, EmptySeq DEF Init, Shape, Verdicts

LEMMA FinishShape ==
    ASSUME Shape, Sending, NEW verdict \in {"Delivered", "Failed"}, Finish(verdict),
           UNCHANGED receiver, back' \in Seq(Acks)
    PROVE  Shape'
<1>1. out' \in Outbounds /\ burst' \in SUBSET Sequences /\ air' = air
  BY NewOutboundType DEF Finish
<1>2. tries' \in 0 .. MaxRetries
  BY ArqAssumption DEF Finish
<1>3. status' \in [Messages -> Verdicts]
  BY DEF Finish, Shape, Verdicts
<1>4. QED
  BY <1>1, <1>2, <1>3 DEF Shape, receiver

LEMMA ShapeKept ==
    ASSUME Shape, [Next]_vars
    PROVE  Shape'
<1>1. /\ air \in Seq(DataFrames) /\ back \in Seq(Acks)
      /\ tries \in 0 .. MaxRetries /\ MaxRetries \in Nat \ {0}
      /\ Sending => out \in Outbounds /\ out.msg \in Messages
  BY ArqAssumption DEF Shape, Sending, Outbounds
<1>2. ASSUME NEW m \in Messages, Start(m) PROVE Shape'
  <2> DEFINE o == NewOutbound(m)
  <2>1. o \in Outbounds /\ o.msg = m
    BY NewOutboundType
  <2> HIDE DEF o
  <2>2. FramesToSend(o, {}) \in SUBSET Sequences /\ AfterSending(o, {}) \in Outbounds
    BY <2>1, SendingType
  <2>3. /\ out' = AfterSending(o, {}) /\ burst' = FramesToSend(o, {}) /\ tries' = 1
        /\ status' = [status EXCEPT ![m] = "Pending"]
        /\ Transmit(m, FramesToSend(o, {}))
        /\ UNCHANGED <<back, receiver>>
    BY <1>2 DEF Start, o
  <2>4. air' \in Seq(DataFrames)
    BY <1>1, <2>2, <2>3, TransmitType
  <2>5. tries' \in 0 .. MaxRetries
    BY <1>1, <2>3
  <2>6. QED
    BY <2>2, <2>3, <2>4, <2>5 DEF Shape, receiver, Verdicts
<1>3. CASE Retry
  <2>1. PICK due \in SUBSET InFlight(out) :
          /\ out' = AfterSending(out, due)
          /\ Transmit(out.msg, IF FramesToSend(out, due) = {} THEN burst ELSE FramesToSend(out, due))
    BY <1>3 DEF Retry
  <2>2. out \in Outbounds /\ out.msg \in Messages
    BY <1>1, <1>3 DEF Retry
  <2>3. due \in SUBSET Sequences
    BY <2>2, FramesAreSequences DEF InFlight, Open
  <2>4. FramesToSend(out, due) \in SUBSET Sequences /\ out' \in Outbounds
    BY <2>1, <2>2, <2>3, SendingType
  <2>5. (IF FramesToSend(out, due) = {} THEN burst ELSE FramesToSend(out, due)) \in SUBSET Sequences
    BY <2>4 DEF Shape
  <2>6. air' \in Seq(DataFrames)
    BY <1>1, <2>1, <2>2, <2>5, TransmitType
  <2>7. UNCHANGED <<burst, status, back, receiver>> /\ tries' \in 0 .. MaxRetries
    BY <1>1, <1>3 DEF Retry
  <2>8. QED
    BY <2>4, <2>6, <2>7 DEF Shape, receiver
<1>4. CASE GiveUp
  BY <1>1, <1>4, FinishShape DEF GiveUp, Shape
<1>5. CASE HearAck
  <2> DEFINE o == HandleAck(out, Head(back))
  <2>1. back' \in Seq(Acks) /\ UNCHANGED receiver
    BY <1>1, <1>5, HeadTailProperties DEF HearAck
  <2>2. CASE UNCHANGED <<sender, air>>
    BY <2>1, <2>2 DEF Shape, sender, receiver
  <2>3. CASE Sending /\ Finish("Delivered")
    BY <2>1, <2>3, FinishShape
  <2>4. CASE Sending /\ RefillWindow(o)
    <3>1. o \in Outbounds /\ o.msg \in Messages /\ o.msg = out.msg
      BY <1>1, <2>4, FramesAreSequences DEF HandleAck, Outbounds
    <3> HIDE DEF o
    <3> DEFINE next == FramesToSend(o, InFlight(o))
    <3>2. InFlight(o) \in SUBSET Sequences
      BY <3>1, FramesAreSequences DEF InFlight, Open
    <3>3. next \in SUBSET Sequences /\ AfterSending(o, InFlight(o)) \in Outbounds
      BY <3>1, <3>2, SendingType
    <3>4. out' = AfterSending(o, InFlight(o)) /\ UNCHANGED status
      BY <2>4 DEF RefillWindow
    <3>5. air' \in Seq(DataFrames) /\ burst' \in SUBSET Sequences /\ tries' \in 0 .. MaxRetries
      <4>1. CASE next = {}
        BY <1>1, <2>4, <4>1 DEF RefillWindow, Shape
      <4>2. CASE next # {}
        <5>1. burst' = next /\ tries' = 1 /\ Transmit(o.msg, next)
          BY <2>4, <4>2 DEF RefillWindow
        <5>2. QED
          BY <1>1, <3>1, <3>3, <5>1, TransmitType
      <4>3. QED
        BY <4>1, <4>2
    <3>6. QED
      BY <2>1, <3>3, <3>4, <3>5 DEF Shape, receiver
  <2>5. QED
    BY <1>5, <2>2, <2>3, <2>4 DEF HearAck
<1>6. CASE Hear
  <2>1. air # <<>> /\ air' = Tail(air) /\ UNCHANGED sender
    BY <1>6 DEF Hear
  <2>2. Head(air) \in DataFrames /\ air' \in Seq(DataFrames)
    BY <1>1, <2>1, HeadTailProperties
  <2>3. \A i \in Inbounds : Receive(i, Head(air)) \in Inbounds
    BY <2>2, ReceiveAdds
  <2>4. NewInbound \in Inbounds
    BY DEF NewInbound, Inbounds
  <2>5. inbound' \in Inbounds /\ back' \in {back, Append(back, AckFor(inbound'))}
    BY <1>6, <2>3, <2>4 DEF Hear, Shape
  <2>6. AckFor(inbound') \in Acks
    BY <2>5, AcksAreTrue
  <2>7. back' \in Seq(Acks)
    BY <1>1, <2>5, <2>6
  <2>8. delivered' \in BOOLEAN /\ ackDue' \in BOOLEAN
    BY <1>6 DEF Hear
  <2>9. QED
    BY <2>1, <2>2, <2>5, <2>7, <2>8 DEF Shape, sender
<1>7. CASE SendWindowAck
  <2>1. AckFor(inbound) \in Acks
    BY AcksAreTrue DEF Shape
  <2>2. back' \in Seq(Acks) /\ ackDue' = FALSE
    BY <1>1, <1>7, <2>1 DEF SendWindowAck
  <2>3. QED
    BY <1>7, <2>2 DEF SendWindowAck, Shape, sender
<1>8. CASE LoseFrame
  BY <1>1, <1>8, HeadTailProperties DEF LoseFrame, Shape, sender, receiver
<1>9. CASE LoseAck
  BY <1>1, <1>9, HeadTailProperties DEF LoseAck, Shape, sender, receiver
<1>10. CASE UNCHANGED vars
  BY <1>10 DEF vars, sender, receiver, Shape
<1>11. QED
  BY <1>2, <1>3, <1>4, <1>5, <1>6, <1>7, <1>8, <1>9, <1>10 DEF Next

-----------------------------------------------------------------------------
LEMMA InitHolds ==
    ASSUME NEW m, Messages = {m}, Init
    PROVE  IInv(m)
<1>1. Shape
  BY ShapeAtFirst
<1>2. Held(inbound) = {} /\ inbound.last = -1
  BY DEF Init, NewInbound, Held
<1>3. Undelivered
  <2>1. out.acked = {}
    BY NewOutboundType DEF Init
  <2>2. QED
    BY <1>2, <2>1 DEF Init, Undelivered, InboundComplete
<1>4. QED
  BY <1>1, <1>2, <1>3 DEF Init, IInv, EndKnown

(* The invariant survives a step that leaves what the receiver holds alone, *)
(* puts only true ACKs on the way and acknowledges only what is held.       *)
LEMMA ReceiverKept ==
    ASSUME NEW m, Messages = {m}, IInv(m), [Next]_vars,
           UNCHANGED <<inbound, delivered, handed>>,
           handed = <<>> => /\ back' \in Seq(TrueAcks)
                            /\ out'.acked \subseteq Held(inbound),
           status'[m] = "Delivered" => handed # <<>>
    PROVE  IInv(m)'
<1>1. /\ Held(inbound)' = Held(inbound)
      /\ TrueAcks' = TrueAcks
      /\ InboundComplete(inbound)' = InboundComplete(inbound)
  BY DEF Held, TrueAcks, InboundComplete
<1>2. Undelivered'
  BY <1>1 DEF IInv, Undelivered
<1>3. EndKnown(m)'
  BY <1>1 DEF IInv, EndKnown
<1>4. QED
  BY <1>2, <1>3, ShapeKept DEF IInv

LEMMA StartKeeps ==
    ASSUME NEW m, Messages = {m}, IInv(m), Start(m)
    PROVE  IInv(m)'
<1> DEFINE o == NewOutbound(m)
<1>1. o \in Outbounds /\ o.msg = m /\ o.acked = {} /\ m \in Messages
  BY NewOutboundType
<1> HIDE DEF o
<1>2. AfterSending(o, {}).acked = {}
  BY <1>1, SendingType
<1>3. /\ out' = AfterSending(o, {})
      /\ status' = [status EXCEPT ![m] = "Pending"]
      /\ UNCHANGED <<back, receiver>>
  BY DEF Start, o
<1>4. status'[m] # "Delivered"
  BY <1>1, <1>3 DEF IInv, Shape
<1>5. QED
  BY <1>2, <1>3, <1>4, ReceiverKept DEF IInv, Undelivered, receiver, Next

LEMMA RetryKeeps ==
    ASSUME NEW m, Messages = {m}, IInv(m), Retry
    PROVE  IInv(m)'
<1>1. out \in Outbounds /\ out.msg \in Messages
  BY DEF IInv, Shape, Retry, Sending, Outbounds
<1>2. PICK due \in SUBSET InFlight(out) : out' = AfterSending(out, due)
  BY DEF Retry
<1>3. due \in SUBSET Sequences
  BY <1>1, FramesAreSequences DEF InFlight, Open
<1>4. out'.acked = out.acked
  BY <1>1, <1>2, <1>3, SendingType
<1>5. UNCHANGED <<status, back, receiver>>
  BY DEF Retry
<1>6. QED
  BY <1>4, <1>5, ReceiverKept DEF IInv, Undelivered, receiver, Next

LEMMA GiveUpKeeps ==
    ASSUME NEW m, Messages = {m}, IInv(m), GiveUp
    PROVE  IInv(m)'
<1>1. /\ out' = NewOutbound(NoMessage)
      /\ status' = [status EXCEPT ![out.msg] = "Failed"]
      /\ UNCHANGED <<back, receiver>>
  BY DEF GiveUp, Finish
<1>2. out'.acked = {}
  BY <1>1, NewOutboundType
<1>3. out.msg = m
  BY DEF GiveUp, Sending, IInv, Shape, Outbounds
<1>4. status'[m] # "Delivered"
  BY <1>1, <1>3 DEF IInv, Shape, Verdicts
<1>5. QED
  BY <1>1, <1>2, <1>4, ReceiverKept DEF IInv, Undelivered, receiver, Next

LEMMA HearAckKeeps ==
    ASSUME NEW m, Messages = {m}, IInv(m), HearAck
    PROVE  IInv(m)'
<1> DEFINE ack == Head(back)
           o == HandleAck(out, ack)
<1>1. back # <<>> /\ back' = Tail(back) /\ UNCHANGED receiver
  BY DEF HearAck
<1>2. [Next]_vars
  BY DEF Next
<1>3. handed = <<>> => ack \in TrueAcks /\ Tail(back) \in Seq(TrueAcks)
  BY <1>1, HeadTailProperties DEF IInv, Undelivered
<1>4. UNCHANGED <<inbound, delivered, handed>>
  BY <1>1 DEF receiver
<1>5. CASE UNCHANGED <<sender, air>>
  BY <1>1, <1>2, <1>3, <1>4, <1>5, ReceiverKept DEF IInv, Undelivered, sender
<1>7. ASSUME Sending
      PROVE  /\ out.msg = m /\ m \in Messages
             /\ o \in Outbounds /\ o.msg = m
             /\ handed = <<>> => o.acked \subseteq Held(inbound)
  <2>1. out.msg = m /\ m \in Messages /\ out \in Outbounds
    BY <1>7 DEF Sending, IInv, Shape, Outbounds
  <2>2. FramesOf(m) \subseteq Sequences
    BY <2>1, FramesAreSequences
  <2>3. o.acked = out.acked \cup {s \in FramesOf(m) : Acknowledges(ack, s)}
    BY <2>1 DEF HandleAck, Outbounds
  <2>4. o \in Outbounds /\ o.msg = m
    BY <2>1, <2>2 DEF HandleAck, Outbounds
  <2>5. ASSUME handed = <<>> PROVE o.acked \subseteq Held(inbound)
    BY <1>3, <2>2, <2>3, <2>5 DEF TrueAcks, IInv, Undelivered
  <2>6. QED
    BY <2>1, <2>4, <2>5
<1>8. CASE Sending /\ OutboundComplete(o) /\ Finish("Delivered")
  <2>1. handed # <<>>
    <3>1. SUFFICES ASSUME handed = <<>> PROVE FALSE
      OBVIOUS
    <3>2. FramesOf(m) \subseteq Held(inbound)
      BY <1>7, <1>8, <3>1 DEF OutboundComplete
    <3>3. Length[m] - 1 \in FramesOf(m)
      BY <1>7, <1>8, TransferAssumption DEF FramesOf
    <3>4. inbound.last = Length[m] - 1
      BY <3>2, <3>3 DEF IInv, EndKnown
    <3>5. InboundComplete(inbound)
      BY <1>7, <1>8, <3>2, <3>4, TransferAssumption DEF InboundComplete, FramesOf
    <3>6. QED
      BY <3>1, <3>5 DEF IInv, Undelivered
  <2>2. QED
    BY <1>2, <1>4, <2>1, ReceiverKept
<1>9. CASE Sending /\ RefillWindow(o)
  <2> HIDE DEF o
  <2>1. InFlight(o) \in SUBSET Sequences
    BY <1>7, <1>9, FramesAreSequences DEF InFlight, Open
  <2>2. AfterSending(o, InFlight(o)).acked = o.acked
    BY <1>7, <1>9, <2>1, SendingType
  <2>3. out' = AfterSending(o, InFlight(o)) /\ UNCHANGED status
    BY <1>9 DEF RefillWindow
  <2>4. QED
    BY <1>1, <1>2, <1>3, <1>4, <1>7, <1>9, <2>2, <2>3, ReceiverKept DEF IInv
<1>10. QED
  BY <1>5, <1>8, <1>9 DEF HearAck

LEMMA SendWindowAckKeeps ==
    ASSUME NEW m, Messages = {m}, IInv(m), SendWindowAck
    PROVE  IInv(m)'
<1>1. /\ back' = Append(back, AckFor(inbound))
      /\ UNCHANGED <<sender, inbound, delivered, hash, handed>>
  BY DEF SendWindowAck
<1>2. AckFor(inbound) \in TrueAcks
  BY AcksAreTrue DEF IInv, Shape, TrueAcks
<1>3. handed = <<>> => back' \in Seq(TrueAcks)
  BY <1>1, <1>2 DEF IInv, Undelivered
<1>4. QED
  BY <1>1, <1>3, ReceiverKept DEF IInv, Undelivered, sender, Next

LEMMA LossKeeps ==
    ASSUME NEW m, Messages = {m}, IInv(m), LoseFrame \/ LoseAck
    PROVE  IInv(m)'
<1>1. UNCHANGED <<sender, receiver>>
  BY DEF LoseFrame, LoseAck
<1>2. handed = <<>> => back' \in Seq(TrueAcks)
  <2>1. SUFFICES ASSUME handed = <<>> PROVE back' \in Seq(TrueAcks)
    OBVIOUS
  <2>2. back \in Seq(TrueAcks)
    BY <2>1 DEF IInv, Undelivered
  <2>3. QED
    BY <2>2, HeadTailProperties DEF LoseFrame, LoseAck
<1>3. QED
  BY <1>1, <1>2, ReceiverKept DEF IInv, Undelivered, sender, receiver, Next

(* A DATA frame: until the first delivery it only adds to what is held, and *)
(* the frame that completes the message delivers it.                        *)
LEMMA HearKeeps ==
    ASSUME NEW m, Messages = {m}, IInv(m), Hear
    PROVE  IInv(m)'
<1> DEFINE frame == Head(air)
           start == IF Resets(frame) THEN NewInbound ELSE inbound
           next == Receive(start, frame)
           ripe == InboundComplete(next) /\ ~(delivered /\ ~Resets(frame))
<1>1. air # <<>> /\ air' = Tail(air) /\ UNCHANGED sender
  BY DEF Hear
<1>2. PICK recent \in BOOLEAN :
        LET repeated == delivered /\ recent /\ hash = Content(next)
        IN  /\ inbound' = next
            /\ delivered' = (ripe \/ (delivered /\ ~Resets(frame)))
            /\ handed' = IF ripe /\ ~repeated THEN Append(handed, Content(next)) ELSE handed
            /\ back' = IF EndOfMessage(frame) THEN Append(back, AckFor(next)) ELSE back
  BY DEF Hear
<1>3. frame \in DataFrames /\ m \in Messages
  BY <1>1, HeadTailProperties DEF IInv, Shape
<1>4. frame.msg = m /\ frame.seq \in Sequences /\ Length[m] - 1 \in Sequences
  BY <1>3, FramesAreSequences DEF DataFrames
<1>5. /\ start \in Inbounds
      /\ start.last \in {-1, Length[m] - 1}
      /\ Length[m] - 1 \in Held(start) => start.last = Length[m] - 1
  <2>1. /\ NewInbound \in Inbounds /\ NewInbound.last = -1
        /\ Held(NewInbound) = {}
    BY DEF NewInbound, Inbounds, Held
  <2>2. QED
    BY <2>1 DEF IInv, Shape, EndKnown
<1> HIDE DEF start, frame
<1>6. /\ next \in Inbounds
      /\ Held(next) = Held(start) \cup {frame.seq}
      /\ next.last = IF frame.seq = Length[m] - 1 THEN frame.seq ELSE start.last
  BY <1>3, <1>4, <1>5, ReceiveAdds
<1>7. /\ next.last \in {-1, Length[m] - 1}
      /\ Length[m] - 1 \in Held(next) => next.last = Length[m] - 1
  BY <1>5, <1>6
<1> HIDE DEF next
<1>8. AckFor(next) \in Acks
      /\ \A s \in Sequences : Acknowledges(AckFor(next), s) => s \in Held(next)
  BY <1>6, AcksAreTrue
<1>9. Shape'
  BY ShapeKept DEF IInv, Next
<1>10. EndKnown(m)'
  <2>1. Held(inbound)' = Held(next)
    BY <1>2 DEF Held
  <2>2. QED
    BY <1>2, <1>7, <2>1 DEF EndKnown
<1>11. handed' \in Seq({Whole(m)}) /\ (handed # <<>> => handed' # <<>>)
  <2>1. CASE handed' = handed
    BY <2>1 DEF IInv
  <2>2. CASE ripe /\ handed' = Append(handed, Content(next))
    <3>1. Content(next) = Whole(m)
      BY <1>6, <1>7, <2>2, CompleteIsWhole
    <3>2. QED
      BY <2>2, <3>1 DEF IInv
  <2>3. QED
    BY <1>2, <2>1, <2>2
<1>12. Undelivered'
  <2>1. SUFFICES ASSUME handed' = <<>>
                 PROVE  /\ ~delivered'
                        /\ ~InboundComplete(next)
                        /\ back' \in Seq(TrueAcks')
                        /\ out.acked \subseteq Held(next)
    <3>1. Held(inbound)' = Held(next) /\ InboundComplete(inbound)' = InboundComplete(next)
      BY <1>2 DEF Held, InboundComplete
    <3>2. QED
      BY <1>1, <3>1 DEF Undelivered, sender
  <2>2. handed = <<>>
    BY <1>11, <2>1
  <2>3. /\ ~delivered /\ ~InboundComplete(inbound)
        /\ back \in Seq(TrueAcks) /\ out.acked \subseteq Held(inbound)
    BY <2>2 DEF IInv, Undelivered
  <2>4. start = inbound
    BY <2>3 DEF start, Resets
  <2>5. Held(inbound) \subseteq Held(next)
    BY <1>6, <2>4
  <2>6. ~ripe
    <3>1. SUFFICES ASSUME ripe PROVE FALSE
      OBVIOUS
    <3>2. handed' = Append(handed, Content(next))
      BY <1>2, <2>3, <3>1
    <3>3. Append(handed, Content(next)) # <<>>
      BY <2>2
    <3>4. QED
      BY <2>1, <3>2, <3>3
  <2>7. ~InboundComplete(next) /\ ~delivered'
    BY <1>2, <2>3, <2>6
  <2>8. TrueAcks \subseteq TrueAcks' /\ AckFor(next) \in TrueAcks'
    <3>1. TrueAcks' = {a \in Acks : \A s \in Sequences : Acknowledges(a, s) => s \in Held(next)}
      BY <1>2 DEF TrueAcks, Held
    <3>2. QED
      BY <1>8, <2>5, <3>1 DEF TrueAcks
  <2>9. back \in Seq(TrueAcks')
    BY <2>3, <2>8, SeqMonotonic
  <2>10. back' \in Seq(TrueAcks')
    BY <1>2, <2>8, <2>9
  <2>11. QED
    BY <2>3, <2>5, <2>7, <2>10
<1>13. QED
  BY <1>1, <1>9, <1>10, <1>11, <1>12 DEF IInv, sender

(* The invariant holds in every reachable state of a one-message session. *)
LEMMA Invariance ==
    ASSUME NEW m, Messages = {m}
    PROVE  Spec => []IInv(m)
<1>1. Init => IInv(m)
  BY InitHolds
<1>2. IInv(m) /\ [Next]_vars => IInv(m)'
  <2> SUFFICES ASSUME IInv(m), [Next]_vars PROVE IInv(m)'
    OBVIOUS
  <2>1. CASE Start(m)
    BY <2>1, StartKeeps
  <2>2. CASE Retry
    BY <2>2, RetryKeeps
  <2>3. CASE GiveUp
    BY <2>3, GiveUpKeeps
  <2>4. CASE HearAck
    BY <2>4, HearAckKeeps
  <2>5. CASE Hear
    BY <2>5, HearKeeps
  <2>6. CASE SendWindowAck
    BY <2>6, SendWindowAckKeeps
  <2>7. CASE LoseFrame \/ LoseAck
    BY <2>7, LossKeeps
  <2>8. CASE UNCHANGED vars
    <3>1. UNCHANGED <<inbound, delivered, handed, back, out, status>>
      BY <2>8 DEF vars, sender, receiver
    <3>2. QED
      BY <3>1, ReceiverKept DEF IInv, Undelivered
  <2>9. QED
    BY <2>1, <2>2, <2>3, <2>4, <2>5, <2>6, <2>7, <2>8 DEF Next
<1>3. QED
  BY <1>1, <1>2, PTL DEF Spec

(* The first message of a session, whatever its length and however often    *)
(* the channel loses a frame or an ACK, is shown as Delivered only after    *)
(* the receiving application has been given all of it.                      *)
THEOREM FirstMessageDelivered ==
    ASSUME NEW m, Messages = {m}
    PROVE  Spec => []DeliveredMeansHanded
<1>1. IInv(m) => DeliveredMeansHanded
  <2> SUFFICES ASSUME IInv(m), status[m] = "Delivered"
               PROVE  \E i \in DOMAIN handed : handed[i] = Whole(m)
    BY DEF DeliveredMeansHanded
  <2>1. handed \in Seq({Whole(m)}) /\ handed # <<>>
    BY DEF IInv
  <2>2. Len(handed) \in Nat \ {0} /\ DOMAIN handed = 1 .. Len(handed)
    BY <2>1, EmptySeq, LenProperties
  <2>3. 1 \in DOMAIN handed /\ handed[1] = Whole(m)
    BY <2>1, <2>2, ElementOfSeq
  <2>4. QED
    BY <2>3
<1>2. QED
  BY <1>1, Invariance, PTL

(* A frame counts as acknowledged only while the receiver holds it, until   *)
(* the message is delivered.                                                *)
THEOREM AcknowledgedIsHeld ==
    ASSUME NEW m, Messages = {m}
    PROVE  Spec => []AckedIsHeld
<1>1. IInv(m) => AckedIsHeld
  BY DEF IInv, Undelivered, AckedIsHeld
<1>2. QED
  BY <1>1, Invariance, PTL

-----------------------------------------------------------------------------
(* The sender's record and its chat log agree, and nothing is on the air    *)
(* before the message is submitted.                                         *)
LogAgrees(m) ==
    /\ Sending <=> status[m] = "Pending"
    /\ status[m] = "Idle" => air = <<>>

LEMMA LogAgreesAlways ==
    ASSUME NEW m, Messages = {m}
    PROVE  Spec => []LogAgrees(m)
<1>1. Init => LogAgrees(m)
  <2>1. Init => out.msg = NoMessage
    BY NewOutboundType DEF Init
  <2>2. QED
    BY <2>1 DEF Init, LogAgrees, Sending
<1>2. IInv(m) /\ LogAgrees(m) /\ [Next]_vars => LogAgrees(m)'
  <2> SUFFICES ASSUME IInv(m), LogAgrees(m), [Next]_vars PROVE LogAgrees(m)'
    OBVIOUS
  <2>1. /\ m \in Messages /\ m # NoMessage
        /\ status \in [Messages -> Verdicts] /\ out \in Outbounds
        /\ Sending => out.msg = m
    BY TransferAssumption DEF IInv, Shape, Sending, Outbounds
  <2>2. CASE Start(m)
    <3>1. out'.msg = m /\ status'[m] = "Pending"
      <4>1. AfterSending(NewOutbound(m), {}).msg = m
        BY <2>1, NewOutboundType, SendingType
      <4>2. QED
        BY <2>1, <2>2, <4>1 DEF Start
    <3>2. QED
      BY <2>1, <3>1 DEF LogAgrees, Sending
  <2>3. CASE Retry
    <3>1. out'.msg = out.msg
      BY <2>1, <2>3 DEF Retry, AfterSending, Outbounds
    <3>2. QED
      BY <2>3, <3>1 DEF Retry, LogAgrees, Sending
  <2>4. ASSUME NEW verdict \in {"Delivered", "Failed"}, Sending, Finish(verdict)
        PROVE  LogAgrees(m)'
    <3>1. out'.msg = NoMessage /\ status'[m] = verdict
      BY <2>1, <2>4, NewOutboundType DEF Finish
    <3>2. QED
      BY <3>1 DEF LogAgrees, Sending
  <2>5. CASE GiveUp
    BY <2>4, <2>5 DEF GiveUp
  <2>6. CASE HearAck
    <3> DEFINE o == HandleAck(out, Head(back))
    <3>1. CASE UNCHANGED <<sender, air>>
      BY <3>1 DEF LogAgrees, Sending, sender
    <3>2. CASE Sending /\ Finish("Delivered")
      BY <2>4, <3>2
    <3>3. CASE Sending /\ RefillWindow(o)
      <4>1. out'.msg = out.msg /\ status' = status
        BY <2>1, <3>3 DEF RefillWindow, AfterSending, HandleAck, Outbounds
      <4>2. QED
        BY <3>3, <4>1 DEF LogAgrees, Sending
    <3>4. QED
      BY <2>6, <3>1, <3>2, <3>3 DEF HearAck
  <2>7. CASE Hear \/ LoseFrame
    BY <2>7 DEF Hear, LoseFrame, LogAgrees, Sending, sender
  <2>8. CASE SendWindowAck \/ LoseAck \/ UNCHANGED vars
    BY <2>8 DEF SendWindowAck, LoseAck, LogAgrees, Sending, sender, vars
  <2>9. QED
    BY <2>2, <2>3, <2>5, <2>6, <2>7, <2>8 DEF Next
<1>3. QED
  BY <1>1, <1>2, Invariance, PTL DEF Spec

(* A one-message session implements the delivery promise: its chat log      *)
(* moves only as Ft2LinkDelivery allows, whatever the channel does.         *)
THEOREM DeliveryRefined ==
    ASSUME NEW m, Messages = {m}
    PROVE  Spec => DeliveryKept
<1> DEFINE arrived == {k \in Messages : \E i \in DOMAIN handed : handed[i] = Whole(k)}
<1>1. Init => Delivery!Init
  BY DEF Init, Delivery!Init
<1>2. IInv(m) /\ IInv(m)' /\ LogAgrees(m) /\ [Next]_vars => [Delivery!Next]_(Delivery!vars)
  <2> SUFFICES ASSUME IInv(m), IInv(m)', LogAgrees(m), [Next]_vars
               PROVE  Delivery!Next \/ UNCHANGED <<status, arrived>>
    BY DEF Delivery!vars
  <2>1. /\ m \in Messages
        /\ status \in [Messages -> Verdicts]
        /\ Sending => out.msg = m
    BY DEF IInv, Shape, Sending, Outbounds
  <2>2. ASSUME handed # <<>> PROVE arrived = {m}
    <3>1. Len(handed) \in Nat \ {0} /\ DOMAIN handed = 1 .. Len(handed)
      BY <2>2, EmptySeq, LenProperties DEF IInv
    <3>2. 1 \in DOMAIN handed /\ handed[1] = Whole(m)
      BY <3>1, ElementOfSeq DEF IInv
    <3>3. QED
      BY <2>1, <3>2
  <2>3. ASSUME handed' # <<>> PROVE arrived' = {m}
    <3>1. Len(handed') \in Nat \ {0} /\ DOMAIN handed' = 1 .. Len(handed')
      BY <2>3, EmptySeq, LenProperties DEF IInv
    <3>2. 1 \in DOMAIN handed' /\ handed'[1] = Whole(m)
      BY <3>1, ElementOfSeq DEF IInv
    <3>3. QED
      BY <2>1, <3>2
  <2>4. CASE Start(m)
    <3>1. Delivery!Submit(m)
      BY <2>1, <2>4 DEF Start, Delivery!Submit, receiver
    <3>2. QED
      BY <2>1, <3>1 DEF Delivery!Next
  <2>5. CASE GiveUp
    <3>1. Delivery!GiveUp(m)
      BY <2>1, <2>5 DEF GiveUp, Finish, Delivery!GiveUp, LogAgrees, receiver
    <3>2. QED
      BY <2>1, <3>1 DEF Delivery!Next
  <2>6. CASE Sending /\ Finish("Delivered") /\ UNCHANGED receiver
    <3>1. status' = [status EXCEPT ![m] = "Delivered"] /\ status[m] = "Pending"
      BY <2>1, <2>6 DEF Finish, LogAgrees
    <3>2. handed' # <<>> /\ handed' = handed
      BY <2>1, <2>6, <3>1 DEF IInv, receiver
    <3>3. Delivery!Confirm(m)
      BY <2>2, <3>1, <3>2 DEF Delivery!Confirm
    <3>4. QED
      BY <2>1, <3>3 DEF Delivery!Next
  <2>7. CASE UNCHANGED <<status, handed>>
    BY <2>7
  <2>8. CASE HearAck
    BY <2>6, <2>7, <2>8 DEF HearAck, RefillWindow, sender, receiver
  <2>9. CASE Hear
    <3>1. status' = status /\ status[m] # "Idle"
      BY <2>9 DEF Hear, LogAgrees, sender
    <3>2. CASE handed' = handed
      BY <2>7, <3>1, <3>2
    <3>3. CASE handed' # handed
      <4>1. handed' # <<>>
        <5>1. PICK c : handed' = Append(handed, c)
          BY <2>9, <3>3 DEF Hear
        <5>2. QED
          BY <5>1 DEF IInv
      <4>2. arrived' = arrived \cup {m}
        BY <2>1, <2>3, <4>1
      <4>3. Delivery!Arrive(m)
        BY <3>1, <4>2 DEF Delivery!Arrive
      <4>4. QED
        BY <2>1, <4>3 DEF Delivery!Next
    <3>4. QED
      BY <3>2, <3>3
  <2>10. CASE Retry \/ SendWindowAck \/ LoseFrame \/ LoseAck \/ UNCHANGED vars
    BY <2>7, <2>10 DEF Retry, SendWindowAck, LoseFrame, LoseAck, vars, sender, receiver
  <2>11. QED
    BY <2>4, <2>5, <2>8, <2>9, <2>10 DEF Next
<1>3. QED
  BY <1>1, <1>2, Invariance, LogAgreesAlways, PTL DEF Spec, DeliveryKept, Delivery!Spec
-----------------------------------------------------------------------------
(* In a finite set of numbers, at most k have fewer than k others below     *)
(* them: the greatest of those has all the rest of them below it.           *)
LEMMA FewAreLow ==
    ASSUME NEW n \in Nat, NEW S \in SUBSET (0 .. n), NEW k \in Nat
    PROVE  Cardinality({s \in S : Below(S, s) < k}) <= k
<1> DEFINE Low == {s \in S : Below(S, s) < k}
           After == {n - s : s \in Low}
<1>1. IsFiniteSet(S) /\ IsFiniteSet(Low)
  <2>1. IsFiniteSet(0 .. n)
    BY FS_Interval
  <2>2. IsFiniteSet(S)
    BY <2>1, FS_Subset
  <2>3. QED
    BY <2>2, FS_Subset
<1>2. CASE Low = {}
  BY <1>2, FS_EmptySet
<1>3. CASE Low # {}
  <2>1. PICK x \in Low : \A s \in Low : s <= x
    <3>1. OpToRel(<, Nat) = {p \in Nat \X Nat : p[1] < p[2]}
      BY DEF OpToRel
    <3>2. IsWellFoundedOn({p \in Nat \X Nat : p[1] < p[2]}, Nat)
      BY <3>1, NatLessThanWellFounded
    <3>3. After \subseteq Nat /\ After # {}
      <4>1. \A s \in Low : s \in 0 .. n
        OBVIOUS
      <4>2. \A s \in 0 .. n : n - s \in Nat
        OBVIOUS
      <4>3. QED
        BY <1>3, <4>1, <4>2
    <3>4. PICK a \in After : \A b \in After : <<b, a>> \notin {p \in Nat \X Nat : p[1] < p[2]}
      BY <3>2, <3>3, WFMin
    <3>5. PICK x \in Low : a = n - x
      OBVIOUS
    <3>6. ASSUME NEW s \in Low, ~(s <= x) PROVE FALSE
      <4>1. n - s \in After /\ n - s < a /\ n - s \in Nat /\ a \in Nat
        BY <3>3, <3>5, <3>6
      <4>2. QED
        BY <3>4, <4>1
    <3>7. QED
      BY <3>6
  <2> DEFINE Under == {t \in S : t < x}
  <2>2. Cardinality(Under) < k /\ Cardinality(Under) \in Nat /\ IsFiniteSet(Under)
    BY <1>1, FS_Subset, FS_CardinalityType DEF Below
  <2>3. /\ Cardinality(Under \cup {x}) <= Cardinality(Under) + 1
        /\ IsFiniteSet(Under \cup {x})
    BY <2>2, FS_AddElement
  <2>4. Low \subseteq Under \cup {x}
    <3>1. \A s \in 0 .. n : s <= x => s < x \/ s = x
      OBVIOUS
    <3>2. \A s \in Low : s \in S /\ s \in 0 .. n
      OBVIOUS
    <3>3. QED
      BY <2>1, <3>1, <3>2
  <2>5. /\ Cardinality(Low) <= Cardinality(Under \cup {x})
        /\ Cardinality(Low) \in Nat /\ Cardinality(Under \cup {x}) \in Nat
    BY <1>1, <2>3, <2>4, FS_Subset, FS_CardinalityType
  <2>6. QED
    BY <2>2, <2>3, <2>5
<1>4. QED
  BY <1>2, <1>3

(* No frame of a transfer has been sent more often than it may, and the     *)
(* frames in flight fit the window.                                         *)
Fits(o) ==
    /\ \A s \in Sequences : o.attempts[s] <= MaxAttempts
    /\ o.msg # NoMessage => Cardinality(InFlight(o)) <= Window

LEMMA NewOutboundFits ==
    ASSUME NEW m \in Messages \cup {NoMessage}
    PROVE  Fits(NewOutbound(m))
<1>1. MaxAttempts \in Nat /\ Window \in Nat
  BY TransferAssumption
<1>2. m # NoMessage => InFlight(NewOutbound(m)) = {}
  BY FramesAreSequences DEF NewOutbound, InFlight, Open
<1>3. /\ NewOutbound(m).msg = m
      /\ \A s \in Sequences : NewOutbound(m).attempts[s] = 0
  BY DEF NewOutbound
<1>4. m # NoMessage => Cardinality(InFlight(NewOutbound(m))) = 0
  BY <1>2, FS_EmptySet
<1>5. QED
  BY <1>1, <1>3, <1>4 DEF Fits

(* framesToSend takes a frame with no attempt left for the end of the burst *)
(* and admits new frames only to the window's room.                         *)
LEMMA SendingFits ==
    ASSUME NEW o \in Outbounds, o.msg \in Messages, Fits(o),
           NEW due \in SUBSET InFlight(o)
    PROVE  Fits(AfterSending(o, due))
<1> DEFINE after == AfterSending(o, due)
           fresh == {s \in Open(o) : o.attempts[s] = 0}
           new == {s \in fresh : Below(fresh, s) + Cardinality(InFlight(o)) < Window}
<1>1. /\ MaxAttempts \in Nat \ {0} /\ Window \in Nat \ {0} /\ Frames \in Nat \ {0}
      /\ NoMessage \notin Messages
  BY TransferAssumption
<1>2. /\ Open(o) \subseteq Sequences /\ IsFiniteSet(Sequences)
      /\ o.attempts \in [Sequences -> Nat]
  BY FramesAreSequences DEF Open, Outbounds
<1>3. InFlight(o) \subseteq Sequences /\ due \in SUBSET Sequences
  BY <1>2 DEF InFlight
<1>4. FramesToSend(o, due) \subseteq due \cup new
  BY DEF FramesToSend, Admitted
<1>5. /\ after.msg = o.msg /\ after.acked = o.acked
      /\ after.attempts = [s \in Sequences |->
           IF s \in FramesToSend(o, due) THEN o.attempts[s] + 1 ELSE o.attempts[s]]
  BY DEF AfterSending, Outbounds
<1>6. ASSUME NEW s \in Sequences
      PROVE  after.attempts[s] <= MaxAttempts
  <2>1. o.attempts[s] \in Nat /\ o.attempts[s] <= MaxAttempts
    BY <1>2 DEF Fits
  <2>2. CASE s \notin FramesToSend(o, due)
    BY <1>5, <2>1, <2>2
  <2>3. CASE s \in FramesToSend(o, due)
    <3>1. o.attempts[s] < MaxAttempts
      <4>1. CASE s \in due
        <5>1. s \notin Exhausted(o, due)
          <6>1. ~ (s < s)
            BY DEF Sequences
          <6>2. QED
            BY <2>3, <6>1 DEF FramesToSend
        <5>2. QED
          BY <1>1, <2>1, <4>1, <5>1 DEF Exhausted
      <4>2. CASE s \in new
        BY <1>1, <4>2
      <4>3. QED
        BY <1>4, <2>3, <4>1, <4>2
    <3>2. QED
      BY <1>1, <1>5, <2>1, <2>3, <3>1
  <2>4. QED
    BY <2>2, <2>3
<1>7. InFlight(after) \subseteq InFlight(o) \cup new
  <2>1. Open(after) = Open(o)
    BY <1>5 DEF Open
  <2>2. ASSUME NEW s \in InFlight(after), s \notin InFlight(o)
        PROVE  s \in new
    <3>1. s \in Open(o) /\ s \in Sequences /\ after.attempts[s] > 0
      BY <1>2, <2>1 DEF InFlight
    <3>2. o.attempts[s] = 0
      BY <1>2, <2>2, <3>1 DEF InFlight
    <3>3. s \in FramesToSend(o, due)
      BY <1>5, <3>1, <3>2
    <3>4. s \notin due
      BY <2>2
    <3>5. QED
      BY <1>4, <3>3, <3>4
  <2>3. QED
    BY <2>2
<1>8. Cardinality(InFlight(after)) <= Window
  <2> DEFINE c == Cardinality(InFlight(o))
  <2>1. c \in Nat /\ IsFiniteSet(InFlight(o)) /\ c <= Window
    BY <1>1, <1>2, <1>3, FS_Subset, FS_CardinalityType DEF Fits
  <2>2. fresh \in SUBSET (0 .. Frames - 1) /\ Frames - 1 \in Nat /\ Window - c \in Nat
    BY <1>1, <1>2, <2>1 DEF Sequences
  <2> HIDE DEF fresh, c
  <2>3. Cardinality({s \in fresh : Below(fresh, s) < Window - c}) <= Window - c
    BY <2>2, FewAreLow
  <2>4. \A s \in fresh : Below(fresh, s) \in Nat
    <3>1. IsFiniteSet(fresh)
      BY <1>2, <2>2, FS_Subset DEF Sequences
    <3>2. ASSUME NEW s \in fresh PROVE Cardinality({t \in fresh : t < s}) \in Nat
      BY <3>1, FS_Subset, FS_CardinalityType
    <3>3. QED
      BY <3>2 DEF Below
  <2>5. new = {s \in fresh : Below(fresh, s) < Window - c}
    BY <1>1, <2>1, <2>4 DEF c
  <2>6. IsFiniteSet(new) /\ Cardinality(new) \in Nat /\ Cardinality(new) <= Window - c
    <3>1. new \in SUBSET Sequences
      BY <2>2 DEF Sequences
    <3>2. QED
      BY <1>2, <2>3, <2>5, <3>1, FS_Subset, FS_CardinalityType
  <2> HIDE DEF new
  <2>7. /\ IsFiniteSet(InFlight(o) \cup new)
        /\ Cardinality(InFlight(o) \cup new) =
             Cardinality(InFlight(o)) + Cardinality(new) - Cardinality(InFlight(o) \cap new)
    BY <2>1, <2>6, FS_Union
  <2>8. Cardinality(InFlight(o) \cap new) \in Nat
    BY <2>1, FS_Intersection, FS_CardinalityType
  <2>9. Cardinality(InFlight(after)) <= Cardinality(InFlight(o) \cup new)
        /\ Cardinality(InFlight(after)) \in Nat
    BY <1>7, <2>7, FS_Subset, FS_CardinalityType
  <2>10. QED
    BY <1>1, <2>1, <2>6, <2>7, <2>8, <2>9 DEF c
<1>9. QED
  BY <1>6, <1>8 DEF Fits

(* An ACK takes frames out of flight and sends none. *)
LEMMA AckFits ==
    ASSUME NEW o \in Outbounds, o.msg \in Messages, Fits(o), NEW ack \in Acks
    PROVE  Fits(HandleAck(o, ack))
<1>1. /\ HandleAck(o, ack).msg = o.msg /\ HandleAck(o, ack).attempts = o.attempts
      /\ o.acked \subseteq HandleAck(o, ack).acked
  BY DEF HandleAck, Outbounds
<1>2. InFlight(HandleAck(o, ack)) \subseteq InFlight(o)
  BY <1>1 DEF InFlight, Open
<1>3. IsFiniteSet(InFlight(o))
  BY FramesAreSequences, FS_Subset DEF InFlight, Open
<1>4. /\ Cardinality(InFlight(HandleAck(o, ack))) <= Cardinality(InFlight(o))
      /\ Cardinality(InFlight(o)) \in Nat
      /\ Cardinality(InFlight(HandleAck(o, ack))) \in Nat
  BY <1>2, <1>3, FS_Subset, FS_CardinalityType
<1>5. o.msg # NoMessage /\ Window \in Nat
  BY TransferAssumption
<1>6. QED
  BY <1>1, <1>4, <1>5 DEF Fits

LEMMA AlwaysFits == Spec => [](Shape /\ Fits(out))
<1>1. Init => Shape /\ Fits(out)
  BY ShapeAtFirst, NewOutboundFits DEF Init
<1>2. Shape /\ Fits(out) /\ [Next]_vars => Shape' /\ Fits(out)'
  <2> SUFFICES ASSUME Shape, Fits(out), [Next]_vars PROVE Fits(out')
    <3>1. Fits(out)' = Fits(out')
      BY DEF Fits, InFlight, Open
    <3>2. QED
      BY <3>1, ShapeKept
  <2>1. Sending => out \in Outbounds /\ out.msg \in Messages
    BY DEF Shape, Sending, Outbounds
  <2>2. ASSUME NEW m \in Messages, Start(m) PROVE Fits(out')
    <3>1. /\ NewOutbound(m) \in Outbounds /\ NewOutbound(m).msg = m
          /\ Fits(NewOutbound(m))
      BY NewOutboundType, NewOutboundFits
    <3>2. QED
      BY <2>2, <3>1, SendingFits DEF Start
  <2>3. CASE Retry
    BY <2>1, <2>3, SendingFits DEF Retry
  <2>4. CASE out' = NewOutbound(NoMessage)
    BY <2>4, NewOutboundFits
  <2>5. CASE out' = out
    BY <2>5
  <2>6. ASSUME Sending, RefillWindow(HandleAck(out, Head(back))), back # <<>>
        PROVE  Fits(out')
    <3> DEFINE o == HandleAck(out, Head(back))
    <3>1. Head(back) \in Acks
      BY <2>6, HeadTailProperties DEF Shape
    <3>2. o \in Outbounds /\ o.msg \in Messages
      BY <2>1, <2>6, FramesAreSequences DEF HandleAck, Outbounds
    <3>3. Fits(o)
      BY <2>1, <2>6, <3>1, AckFits
    <3>4. out' = AfterSending(o, InFlight(o))
      BY <2>6 DEF RefillWindow
    <3> HIDE DEF o
    <3>5. QED
      BY <3>2, <3>3, <3>4, SendingFits
  <2>7. CASE GiveUp \/ HearAck
    BY <2>4, <2>5, <2>6, <2>7 DEF GiveUp, HearAck, Finish, sender
  <2>8. CASE Hear \/ SendWindowAck \/ LoseFrame \/ LoseAck \/ UNCHANGED vars
    BY <2>5, <2>8 DEF Hear, SendWindowAck, LoseFrame, LoseAck, vars, sender
  <2>9. QED
    BY <2>2, <2>3, <2>7, <2>8 DEF Next
<1>3. QED
  BY <1>1, <1>2, PTL DEF Spec

LEMMA ShapeIsTyped == Shape /\ Fits(out) => TypeOK
<1> SUFFICES ASSUME Shape, Fits(out) PROVE TypeOK
  OBVIOUS
<1>1. \A i \in DOMAIN air : air[i] \in DataFrames
  BY ElementOfSeq DEF Shape
<1>2. \A i \in DOMAIN back : back[i] \in Acks
  BY ElementOfSeq DEF Shape
<1>3. QED
  BY <1>1, <1>2 DEF Shape, Fits, TypeOK, DataFrames, Acks, Verdicts

(* Every record of a session keeps its shape, no frame is sent more often   *)
(* than its attempts, and the frames in flight fit the window: whatever the *)
(* messages, in whatever order ACKs, refills, retries and losses come.      *)
THEOREM WindowAlwaysRespected == Spec => [](TypeOK /\ WindowRespected)
<1>1. Shape /\ Fits(out) => TypeOK /\ WindowRespected
  BY ShapeIsTyped DEF Fits, WindowRespected, Sending
<1>2. QED
  BY <1>1, AlwaysFits, PTL

(* With one message, what the receiving application is given is in every    *)
(* case the whole of it.                                                    *)
THEOREM TransferIsSound ==
    ASSUME NEW m, Messages = {m}
    PROVE  Spec => []TransferInv
<1>1. IInv(m) => HandedIsWhole
  BY ElementOfSeq DEF IInv, HandedIsWhole
<1>2. QED
  BY <1>1, Invariance, WindowAlwaysRespected, PTL DEF TransferInv
=============================================================================

------------------------- MODULE Ft2LinkHandshakeProofs -------------------------
(***************************************************************************)
(* What opening and closing FT2-Link sessions guarantees.  With any number *)
(* of stations the tables are well formed, no call is sent more often than *)
(* it may, and a call without an answer is always one the retry timer will *)
(* come back to.  With two stations alone on the frequency, and whatever   *)
(* ids they use, nobody is connected without having been accepted; and     *)
(* unless a block list is edited while an id is in use, nobody is          *)
(* connected whose call was refused, and no transfer outlives its          *)
(* connection.                                                             *)
(***************************************************************************)
EXTENDS Ft2LinkHandshake, TLAPS, SequenceTheorems

Records == [state : States, remote : Stations \cup {NoStation}, messages : Seq(Messages)]

Answers == [id : Ids, accepted : BOOLEAN]

Transfers == [text : Texts, index : Nat]

-----------------------------------------------------------------------------
(* The first log of a session, and a text put at its end. *)
LEMMA MessageTypes ==
    /\ \A text \in Texts : Pending(text) \in Messages /\ Incoming(text) \in Messages
    /\ <<>> \in Seq(Messages)
    /\ \A log \in Seq(Messages), message \in Messages : Append(log, message) \in Seq(Messages)
    /\ 0 \in Texts
  BY HandshakeAssumption, EmptySeq, AppendProperties DEF Pending, Incoming, Messages, Texts

LEMMA RecordTypes ==
    /\ NoSession \in Records
    /\ NoTransfer \in Transfers
    /\ \A r, s \in Stations : AnsweredSession(r, s) \in Records
    /\ \A r, s \in Stations : AnsweredSession(r, s).state # "Calling"
<1>1. NoSession \in Records
  BY MessageTypes DEF NoSession, Records, States
<1>2. NoTransfer \in Transfers
  BY MessageTypes DEF NoTransfer, Transfers
<1>3. ASSUME NEW r \in Stations, NEW s \in Stations
      PROVE  AnsweredSession(r, s) \in Records /\ AnsweredSession(r, s).state # "Calling"
  <2>1. <<Pending(0)>> \in Seq(Messages)
    BY MessageTypes
  <2>2. (IF Accepts(r, s) /\ r \in Greets THEN <<Pending(0)>> ELSE <<>>) \in Seq(Messages)
    BY <2>1, MessageTypes
  <2>3. QED
    BY <2>2 DEF AnsweredSession, Records, States
<1>4. QED
  BY <1>1, <1>2, <1>3

(* A record of one session is changed; the others keep theirs. *)
LEMMA OneRecord ==
    ASSUME NEW table \in [Stations -> [Ids -> Records]],
           NEW s \in Stations, NEW id \in Ids, NEW record \in Records
    PROVE  /\ [table EXCEPT ![s][id] = record] \in [Stations -> [Ids -> Records]]
           /\ \A r \in Stations, other \in Ids :
                [table EXCEPT ![s][id] = record][r][other] =
                   IF r = s /\ other = id THEN record ELSE table[r][other]
  OBVIOUS

LEMMA RecordParts ==
    ASSUME NEW record \in Records
    PROVE  /\ \A state \in States :
                /\ [record EXCEPT !.state = state] \in Records
                /\ [record EXCEPT !.state = state].state = state
                /\ [record EXCEPT !.state = state].remote = record.remote
           /\ \A log \in Seq(Messages) :
                /\ [record EXCEPT !.messages = log] \in Records
                /\ [record EXCEPT !.messages = log].state = record.state
                /\ [record EXCEPT !.messages = log].remote = record.remote
  BY DEF Records

(* markOutgoingDelivered and markOutgoingFailed touch one message of one    *)
(* log, an outgoing one.                                                    *)
LEMMA MarkType ==
    ASSUME sessions \in [Stations -> [Ids -> Records]],
           NEW s \in Stations, NEW id \in Ids, Markable(s, id),
           NEW verdict \in {"Delivered", "Failed"}
    PROVE  /\ Mark(s, id, verdict) \in [Stations -> [Ids -> Records]]
           /\ \A r \in Stations, other \in Ids :
                /\ Mark(s, id, verdict)[r][other].state = sessions[r][other].state
                /\ Mark(s, id, verdict)[r][other].remote = sessions[r][other].remote
<1> DEFINE record == sessions[s][id]
           index == outbound[s][id].index
           marked == [record.messages EXCEPT ![index].delivery = verdict]
           after == [record EXCEPT !.messages = marked]
<1>1. record \in Records /\ record.messages \in Seq(Messages)
  BY DEF Records
<1>2. index \in DOMAIN record.messages /\ record.messages[index].direction = "Outgoing"
  BY DEF Markable
<1>3. record.messages[index] \in Messages
  BY <1>1, <1>2, ElementOfSeq
<1>4. [record.messages[index] EXCEPT !.delivery = verdict] \in Messages
  BY <1>2, <1>3 DEF Messages
<1>5. marked \in Seq(Messages)
  <2>1. marked = [record.messages EXCEPT ![index] = [record.messages[index] EXCEPT !.delivery = verdict]]
    OBVIOUS
  <2>2. index \in 1 .. Len(record.messages)
    BY <1>1, <1>2, LenProperties
  <2>3. QED
    BY <1>1, <1>4, <2>1, <2>2, ExceptSeq
<1>6. after \in Records /\ after.state = record.state /\ after.remote = record.remote
  BY <1>1, <1>5 DEF Records
<1>7. Mark(s, id, verdict) = [sessions EXCEPT ![s][id] = after]
  BY DEF Mark
<1> HIDE DEF after
<1>8. Mark(s, id, verdict) \in [Stations -> [Ids -> Records]]
  BY <1>6, <1>7
<1>9. ASSUME NEW r \in Stations, NEW other \in Ids
      PROVE  /\ Mark(s, id, verdict)[r][other].state = sessions[r][other].state
             /\ Mark(s, id, verdict)[r][other].remote = sessions[r][other].remote
  BY <1>6, <1>7
<1>10. QED
  BY <1>8, <1>9
-----------------------------------------------------------------------------
(* Any number of stations *)

Kept == TypeOK /\ CallingIsRetried

LEMMA KeptTypes ==
    ASSUME Kept
    PROVE  /\ sessions \in [Stations -> [Ids -> Records]]
           /\ retries \in [Stations -> [Ids -> 0 .. MaxAttempts]]
  BY DEF Kept, TypeOK, Records

LEMMA KeptAtFirst == Init => Kept
<1> SUFFICES ASSUME Init PROVE Kept
  OBVIOUS
<1>1. MaxAttempts \in Nat /\ 1 \in Nat /\ MaxId \in Nat \ {0} /\ 0 \in 0 .. MaxAttempts
  BY HandshakeAssumption
<1>2. nextId \in [Stations -> 1 .. MaxId + 1]
  BY <1>1, HandshakeAssumption DEF Init
<1>3. sessions \in [Stations -> [Ids -> Records]]
  BY RecordTypes DEF Init
<1>4. outbound \in [Stations -> [Ids -> Transfers]]
  BY RecordTypes DEF Init
<1>5. retries \in [Stations -> [Ids -> 0 .. MaxAttempts]]
  BY <1>1 DEF Init
<1>6. acks \in [Stations -> Seq(Answers)]
  BY EmptySeq DEF Init
<1>7. TypeOK
  BY <1>2, <1>3, <1>4, <1>5, <1>6, MessageTypes DEF Init, TypeOK, Records, Answers, Transfers
<1>8. CallingIsRetried
  BY DEF Init, CallingIsRetried, NoSession
<1>9. QED
  BY <1>7, <1>8 DEF Kept

(* A call starts with a first HELLO and an entry in m_helloRetries. *)
LEMMA StartSessionKeeps ==
    ASSUME Kept, NEW s \in Stations, NEW r \in Stations, NEW id \in Ids, StartSession(s, r, id)
    PROVE  Kept'
<1> DEFINE record == [state |-> "Calling", remote |-> r, messages |-> <<>>]
<1>1. MaxAttempts \in Nat \ {0} /\ MaxId \in Nat \ {0}
  BY HandshakeAssumption
<1>2. record \in Records
  BY MessageTypes DEF Records, States
<1>3. /\ sessions' = [sessions EXCEPT ![s][id] = record]
      /\ nextId' = [nextId EXCEPT ![s] = id + 1]
      /\ retries' = [retries EXCEPT ![s][id] = 1]
      /\ hellos' = [hellos EXCEPT ![s] = @ \cup {Hello(id, 1)}]
      /\ UNCHANGED <<blocks, edited, acks, outbound, sent, received, granted>>
  BY DEF StartSession
<1> HIDE DEF record
<1>4. sessions' \in [Stations -> [Ids -> Records]]
  BY <1>2, <1>3, OneRecord DEF Kept, TypeOK, Records
<1>5. nextId' \in [Stations -> 1 .. MaxId + 1]
  <2>1. id + 1 \in 1 .. MaxId + 1
    BY <1>1 DEF Ids
  <2>2. QED
    BY <1>3, <2>1 DEF Kept, TypeOK
<1>6. retries' \in [Stations -> [Ids -> 0 .. MaxAttempts]]
  <2>1. 1 \in 0 .. MaxAttempts
    BY <1>1
  <2>2. QED
    BY <1>3, <2>1 DEF Kept, TypeOK
<1>7. hellos' \in [Stations -> SUBSET Frames]
  <2>1. Hello(id, 1) \in Frames
    BY <1>1 DEF Hello, Frames
  <2>2. QED
    BY <1>3, <2>1 DEF Kept, TypeOK
<1>8. TypeOK'
  BY <1>3, <1>4, <1>5, <1>6, <1>7 DEF Kept, TypeOK, Records
<1>9. CallingIsRetried'
  <2> SUFFICES ASSUME NEW o \in Stations, NEW other \in Ids, sessions'[o][other].state = "Calling"
               PROVE  retries'[o][other] > 0
    BY DEF CallingIsRetried
  <2>1. CASE o = s /\ other = id
    BY <1>3, <2>1, KeptTypes
  <2>2. CASE ~ (o = s /\ other = id)
    <3>1. sessions'[o][other] = sessions[o][other] /\ retries'[o][other] = retries[o][other]
      BY <1>2, <1>3, <2>2, KeptTypes
    <3>2. QED
      BY <3>1 DEF Kept, CallingIsRetried
  <2>3. QED
    BY <2>1, <2>2
<1>10. QED
  BY <1>8, <1>9 DEF Kept

(* Closing ends the retries and forgets the transfer. *)
LEMMA CloseTypes ==
    ASSUME Kept, NEW s \in Stations, NEW id \in Ids, Close(s, id)
    PROVE  /\ sessions' \in [Stations -> [Ids -> Records]]
           /\ retries' \in [Stations -> [Ids -> 0 .. MaxAttempts]]
           /\ outbound' \in [Stations -> [Ids -> Transfers]]
           /\ CallingIsRetried'
<1> DEFINE record == [sessions[s][id] EXCEPT !.state = "Closed"]
<1>1. record \in Records /\ record.state = "Closed"
  <2>1. sessions[s][id] \in Records /\ "Closed" \in States
    BY KeptTypes DEF States
  <2>2. QED
    BY <2>1, RecordParts
<1>2. /\ sessions' = [sessions EXCEPT ![s][id] = record]
      /\ retries' = [retries EXCEPT ![s][id] = 0]
      /\ outbound' = [outbound EXCEPT ![s][id] = NoTransfer]
  BY DEF Close
<1> HIDE DEF record
<1>3. sessions' \in [Stations -> [Ids -> Records]]
  BY <1>1, <1>2, OneRecord DEF Kept, TypeOK, Records
<1>4. retries' \in [Stations -> [Ids -> 0 .. MaxAttempts]]
  <2>1. 0 \in 0 .. MaxAttempts
    BY HandshakeAssumption
  <2>2. QED
    BY <1>2, <2>1 DEF Kept, TypeOK
<1>5. outbound' \in [Stations -> [Ids -> Transfers]]
  BY <1>2, RecordTypes DEF Kept, TypeOK, Transfers
<1>6. CallingIsRetried'
  BY <1>1, <1>2 DEF Kept, CallingIsRetried, TypeOK
<1>7. QED
  BY <1>3, <1>4, <1>5, <1>6

LEMMA CloseSessionKeeps ==
    ASSUME Kept, NEW s \in Stations, NEW id \in Ids, CloseSession(s, id)
    PROVE  Kept'
<1>1. Close(s, id) /\ UNCHANGED <<blocks, edited, nextId, hellos, acks, sent, received, granted>>
  BY DEF CloseSession
<1>2. /\ sessions' \in [Stations -> [Ids -> Records]]
      /\ retries' \in [Stations -> [Ids -> 0 .. MaxAttempts]]
      /\ outbound' \in [Stations -> [Ids -> Transfers]]
      /\ CallingIsRetried'
  BY <1>1, CloseTypes
<1>3. QED
  BY <1>1, <1>2 DEF Kept, TypeOK, Records, Transfers

(* runHelloRetryCheck drops, gives up or repeats, never beyond the attempts *)
(* of a call.                                                               *)
LEMMA RetryCheckKeeps ==
    ASSUME Kept, NEW s \in Stations, NEW id \in Ids, RetryCheck(s, id)
    PROVE  Kept'
<1>1. /\ retries[s][id] > 0 /\ retries[s][id] \in 0 .. MaxAttempts /\ MaxAttempts \in Nat \ {0}
      /\ UNCHANGED <<blocks, edited, nextId, acks, sent, received, granted>>
  BY HandshakeAssumption DEF RetryCheck, Kept, TypeOK
<1>2. CASE /\ sessions[s][id].state # "Calling"
           /\ retries' = [retries EXCEPT ![s][id] = 0]
           /\ UNCHANGED <<sessions, hellos, outbound>>
  <2>1. 0 \in 0 .. MaxAttempts
    BY <1>1
  <2>2. retries' \in [Stations -> [Ids -> 0 .. MaxAttempts]]
    BY <1>2, <2>1 DEF Kept, TypeOK
  <2>3. TypeOK'
    BY <1>1, <1>2, <2>2 DEF Kept, TypeOK
  <2>4. CallingIsRetried'
    BY <1>2 DEF Kept, CallingIsRetried, TypeOK
  <2>5. QED
    BY <2>3, <2>4 DEF Kept
<1>3. CASE Close(s, id) /\ UNCHANGED hellos
  <2>1. /\ sessions' \in [Stations -> [Ids -> Records]]
        /\ retries' \in [Stations -> [Ids -> 0 .. MaxAttempts]]
        /\ outbound' \in [Stations -> [Ids -> Transfers]]
        /\ CallingIsRetried'
    BY <1>3, CloseTypes
  <2>2. QED
    BY <1>1, <1>3, <2>1 DEF Kept, TypeOK, Records, Transfers
<1>4. CASE /\ retries[s][id] < MaxAttempts
           /\ retries' = [retries EXCEPT ![s][id] = @ + 1]
           /\ hellos' = [hellos EXCEPT ![s] = @ \cup {Hello(id, retries[s][id] + 1)}]
           /\ UNCHANGED <<sessions, outbound>>
  <2>1. retries[s][id] + 1 \in 1 .. MaxAttempts /\ retries[s][id] + 1 \in 0 .. MaxAttempts
    BY <1>1, <1>4
  <2>2. Hello(id, retries[s][id] + 1) \in Frames
    BY <2>1 DEF Hello, Frames
  <2>3. retries' \in [Stations -> [Ids -> 0 .. MaxAttempts]]
    BY <1>4, <2>1 DEF Kept, TypeOK
  <2>4. hellos' \in [Stations -> SUBSET Frames]
    BY <1>4, <2>2 DEF Kept, TypeOK
  <2>5. TypeOK'
    BY <1>1, <1>4, <2>3, <2>4 DEF Kept, TypeOK
  <2>6. CallingIsRetried'
    <3>1. retries'[s][id] > 0
      BY <1>4, <2>1 DEF Kept, TypeOK
    <3>2. \A r \in Stations, other \in Ids :
             retries'[r][other] = retries[r][other] \/ (r = s /\ other = id)
      BY <1>4 DEF Kept, TypeOK
    <3>3. QED
      BY <1>4, <3>1, <3>2 DEF Kept, CallingIsRetried
  <2>7. QED
    BY <2>5, <2>6 DEF Kept
<1>5. QED
  BY <1>2, <1>3, <1>4 DEF RetryCheck

(* Those who decode a HELLO put a new record over theirs. *)
LEMMA SendHelloKeeps ==
    ASSUME Kept, NEW s \in Stations, NEW heard \in SUBSET (Stations \ {s}),
           NEW item \in hellos[s], SendHello(s, item, heard)
    PROVE  Kept'
<1> DEFINE id == item.id
<1>1. id \in Ids
  BY DEF Kept, TypeOK, Frames
<1>2. /\ hellos' = [hellos EXCEPT ![s] = @ \ {item}]
      /\ sessions' = [r \in Stations |->
                        IF r \in heard THEN [sessions[r] EXCEPT ![id] = AnsweredSession(r, s)]
                                       ELSE sessions[r]]
      /\ acks' = [r \in Stations |->
                    IF r \in heard THEN Append(acks[r], Answer(r, s, id)) ELSE acks[r]]
      /\ granted' = [granted EXCEPT ![s] =
                       IF \E r \in heard : Accepts(r, s) THEN @ \cup {id} ELSE @]
      /\ UNCHANGED <<blocks, edited, nextId, retries, outbound, sent, received>>
  BY DEF SendHello
<1> HIDE DEF id
<1>3. sessions' \in [Stations -> [Ids -> Records]]
  <2>1. ASSUME NEW r \in Stations
        PROVE  [sessions[r] EXCEPT ![id] = AnsweredSession(r, s)] \in [Ids -> Records]
    BY <1>1, RecordTypes DEF Kept, TypeOK, Records
  <2>2. QED
    BY <1>2, <2>1 DEF Kept, TypeOK, Records
<1>4. acks' \in [Stations -> Seq(Answers)]
  <2>1. ASSUME NEW r \in Stations
        PROVE  Append(acks[r], Answer(r, s, id)) \in Seq(Answers)
    <3>1. Answer(r, s, id) \in Answers
      BY <1>1 DEF Answer, Answers, Accepts
    <3>2. acks[r] \in Seq(Answers)
      BY DEF Kept, TypeOK, Answers
    <3>3. QED
      BY <3>1, <3>2, AppendProperties
  <2>2. QED
    BY <1>2, <2>1 DEF Kept, TypeOK, Answers
<1>5. hellos' \in [Stations -> SUBSET Frames]
  BY <1>2 DEF Kept, TypeOK
<1>6. granted' \in [Stations -> SUBSET Ids]
  BY <1>1, <1>2 DEF Kept, TypeOK
<1>7. TypeOK'
  BY <1>2, <1>3, <1>4, <1>5, <1>6 DEF Kept, TypeOK, Records, Answers
<1>8. CallingIsRetried'
  <2>1. ASSUME NEW r \in Stations, NEW other \in Ids, sessions'[r][other].state = "Calling"
        PROVE  sessions[r][other].state = "Calling"
    BY <1>1, <1>2, <2>1, RecordTypes DEF Kept, TypeOK
  <2>2. QED
    BY <1>2, <2>1 DEF Kept, CallingIsRetried
<1>9. QED
  BY <1>7, <1>8 DEF Kept

(* Those who decode a HELLO_ACK and have a session of that id take its      *)
(* verdict; only an acceptance ends the retries, and it connects.           *)
LEMMA SendHelloAckKeeps ==
    ASSUME Kept, NEW s \in Stations, NEW heard \in SUBSET (Stations \ {s}),
           SendHelloAck(s, heard)
    PROVE  Kept'
<1> DEFINE ack == Head(acks[s])
           takers == {r \in heard : Hears(r, ack)}
           joined == {r \in takers : ack.accepted}
<1>1. /\ acks[s] # <<>> /\ acks' = [acks EXCEPT ![s] = Tail(@)]
      /\ sessions' = [r \in Stations |->
                        IF r \in takers
                        THEN [sessions[r] EXCEPT ![ack.id].state = AckedState(ack)]
                        ELSE sessions[r]]
      /\ retries' = [r \in Stations |->
                       IF r \in joined THEN [retries[r] EXCEPT ![ack.id] = 0] ELSE retries[r]]
      /\ hellos' = [r \in Stations |->
                      IF r \in joined THEN {h \in hellos[r] : h.id # ack.id \/ h.attempt = 1}
                                      ELSE hellos[r]]
      /\ UNCHANGED <<blocks, edited, nextId, outbound, sent, received, granted>>
  BY DEF SendHelloAck
<1>2. acks[s] \in Seq(Answers)
  BY DEF Kept, TypeOK, Answers
<1>3. ack \in Answers /\ Tail(acks[s]) \in Seq(Answers)
  BY <1>1, <1>2, HeadTailProperties
<1>4. ack.id \in Ids
  BY <1>3 DEF Answers
<1>5. AckedState(ack) \in {"Connected", "Rejected"} /\ (ack.accepted => AckedState(ack) = "Connected")
  BY DEF AckedState
<1>6. sessions' \in [Stations -> [Ids -> Records]]
  <2>1. ASSUME NEW r \in Stations
        PROVE  [sessions[r] EXCEPT ![ack.id].state = AckedState(ack)] \in [Ids -> Records]
    <3>1. sessions[r][ack.id] \in Records /\ AckedState(ack) \in States
      BY <1>4, <1>5, KeptTypes DEF States
    <3>2. [sessions[r][ack.id] EXCEPT !.state = AckedState(ack)] \in Records
      BY <3>1, RecordParts
    <3>3. QED
      BY <1>4, <3>2, KeptTypes
  <2>2. QED
    BY <1>1, <2>1, KeptTypes
<1>7. acks' \in [Stations -> Seq(Answers)]
  BY <1>1, <1>3 DEF Kept, TypeOK, Answers
<1>8. retries' \in [Stations -> [Ids -> 0 .. MaxAttempts]]
  <2>1. 0 \in 0 .. MaxAttempts
    BY HandshakeAssumption
  <2>2. ASSUME NEW r \in Stations PROVE [retries[r] EXCEPT ![ack.id] = 0] \in [Ids -> 0 .. MaxAttempts]
    BY <1>4, <2>1 DEF Kept, TypeOK
  <2>3. QED
    BY <1>1, <2>2 DEF Kept, TypeOK
<1>9. hellos' \in [Stations -> SUBSET Frames]
  BY <1>1 DEF Kept, TypeOK
<1>10. TypeOK'
  BY <1>1, <1>6, <1>7, <1>8, <1>9 DEF Kept, TypeOK, Records, Answers
<1>11. CallingIsRetried'
  <2> SUFFICES ASSUME NEW r \in Stations, NEW other \in Ids, sessions'[r][other].state = "Calling"
               PROVE  retries'[r][other] > 0
    BY DEF CallingIsRetried
  <2> HIDE DEF ack
  <2>1. ~ (r \in takers /\ other = ack.id)
    <3>1. SUFFICES ASSUME r \in takers, other = ack.id PROVE FALSE
      OBVIOUS
    <3>2. sessions'[r][other].state = AckedState(ack)
      BY <1>1, <1>4, <3>1 DEF Kept, TypeOK, Records
    <3>3. QED
      BY <1>5, <3>2
  <2>2. sessions'[r][other] = sessions[r][other]
    BY <1>1, <1>4, <2>1 DEF Kept, TypeOK
  <2>3. retries'[r][other] = retries[r][other]
    BY <1>1, <1>4, <2>1 DEF Kept, TypeOK
  <2>4. QED
    BY <2>2, <2>3 DEF Kept, CallingIsRetried
<1>12. QED
  BY <1>10, <1>11 DEF Kept

(* A text changes one log and leaves every state alone. *)
LEMMA LogKeeps ==
    ASSUME Kept, sessions' \in [Stations -> [Ids -> Records]],
           \A r \in Stations, other \in Ids :
              sessions'[r][other].state = sessions[r][other].state,
           outbound' \in [Stations -> [Ids -> Transfers]],
           sent' \in Texts, received' \in [Stations -> SUBSET Texts],
           UNCHANGED <<blocks, edited, nextId, retries, hellos, acks, granted>>
    PROVE  Kept'
<1>1. TypeOK'
  BY DEF Kept, TypeOK, Records, Transfers
<1>2. CallingIsRetried'
  BY DEF Kept, CallingIsRetried
<1>3. QED
  BY <1>1, <1>2 DEF Kept

LEMMA AppendToLog ==
    ASSUME Kept, NEW s \in Stations, NEW id \in Ids, NEW message \in Messages,
           sessions' = [sessions EXCEPT ![s][id].messages = Append(@, message)]
    PROVE  /\ sessions' \in [Stations -> [Ids -> Records]]
           /\ \A r \in Stations, other \in Ids :
                /\ sessions'[r][other].state = sessions[r][other].state
                /\ sessions'[r][other].remote = sessions[r][other].remote
<1> DEFINE log == Append(sessions[s][id].messages, message)
           record == [sessions[s][id] EXCEPT !.messages = log]
           next == [sessions EXCEPT ![s][id] = record]
<1>1. log \in Seq(Messages)
  BY MessageTypes DEF Kept, TypeOK
<1> HIDE DEF log
<1>2. /\ record \in Records
      /\ record.state = sessions[s][id].state /\ record.remote = sessions[s][id].remote
  BY <1>1, KeptTypes, RecordParts
<1>3. sessions' = next
  BY DEF log
<1> HIDE DEF record
<1>4. /\ next \in [Stations -> [Ids -> Records]]
      /\ \A r \in Stations, other \in Ids :
           next[r][other] = IF r = s /\ other = id THEN record ELSE sessions[r][other]
  BY <1>2, KeptTypes, OneRecord
<1> HIDE DEF next
<1>5. QED
  BY <1>2, <1>3, <1>4

LEMMA TextsKeep ==
    ASSUME Kept, NEW s \in Stations, NEW id \in Ids,
           \/ SendText(s, id) \/ QueueText(s, id)
           \/ \E r \in Stations : TextArrives(s, id, r)
           \/ TextAcked(s, id) \/ TextFails(s, id)
    PROVE  /\ Kept'
           /\ \A r \in Stations, other \in Ids :
                /\ sessions'[r][other].state = sessions[r][other].state
                /\ sessions'[r][other].remote = sessions[r][other].remote
<1>1. /\ sent \in Texts /\ MaxTexts \in Nat /\ received \in [Stations -> SUBSET Texts]
      /\ outbound \in [Stations -> [Ids -> Transfers]]
      /\ sessions \in [Stations -> [Ids -> Records]]
      /\ outbound[s][id].text \in Texts
  BY HandshakeAssumption DEF Kept, TypeOK, Records, Transfers
<1>2. CASE SendText(s, id) \/ QueueText(s, id)
  <2>1. sent' \in Texts /\ sent' = sent + 1
    BY <1>1, <1>2 DEF SendText, QueueText, Texts
  <2>2. Pending(sent + 1) \in Messages
    BY <2>1, MessageTypes
  <2>3. sessions' = [sessions EXCEPT ![s][id].messages = Append(@, Pending(sent + 1))]
    BY <1>2 DEF SendText, QueueText
  <2>4. Len(sessions[s][id].messages) + 1 \in Nat
    BY <1>1, LenProperties DEF Records
  <2>5. outbound' \in [Stations -> [Ids -> Transfers]]
    <3>1. [text |-> sent + 1, index |-> Len(sessions[s][id].messages) + 1] \in Transfers
      BY <2>1, <2>4 DEF Transfers
    <3>2. QED
      BY <1>1, <1>2, <3>1 DEF SendText, QueueText
  <2>6. UNCHANGED <<blocks, edited, nextId, retries, hellos, acks, received, granted>>
    BY <1>2 DEF SendText, QueueText
  <2>7. QED
    BY <1>1, <2>1, <2>2, <2>3, <2>5, <2>6, AppendToLog, LogKeeps
<1>3. ASSUME NEW r \in Stations, TextArrives(s, id, r)
      PROVE  /\ Kept'
             /\ \A o \in Stations, other \in Ids :
                  /\ sessions'[o][other].state = sessions[o][other].state
                  /\ sessions'[o][other].remote = sessions[o][other].remote
  <2>1. Incoming(outbound[s][id].text) \in Messages
    BY <1>1, MessageTypes
  <2>2. /\ sessions' = [sessions EXCEPT ![r][id].messages = Append(@, Incoming(outbound[s][id].text))]
        /\ received' = [received EXCEPT ![r] = @ \cup {outbound[s][id].text}]
        /\ UNCHANGED <<blocks, edited, nextId, retries, hellos, acks, outbound, sent, granted>>
    BY <1>3 DEF TextArrives
  <2>3. received' \in [Stations -> SUBSET Texts]
    BY <1>1, <2>2
  <2>4. QED
    BY <1>1, <2>1, <2>2, <2>3, AppendToLog, LogKeeps
<1>4. CASE TextAcked(s, id) \/ TextFails(s, id)
  <2>1. /\ outbound' = [outbound EXCEPT ![s][id] = NoTransfer]
        /\ UNCHANGED <<blocks, edited, nextId, retries, hellos, acks, sent, received, granted>>
    BY <1>4 DEF TextAcked, TextFails
  <2>2. outbound' \in [Stations -> [Ids -> Transfers]]
    BY <1>1, <2>1, RecordTypes
  <2>3. \/ sessions' = sessions
        \/ Markable(s, id) /\ sessions' = Mark(s, id, "Delivered")
        \/ Markable(s, id) /\ sessions' = Mark(s, id, "Failed")
    BY <1>4 DEF TextAcked, TextFails
  <2>4. /\ sessions' \in [Stations -> [Ids -> Records]]
        /\ \A r \in Stations, other \in Ids :
             /\ sessions'[r][other].state = sessions[r][other].state
             /\ sessions'[r][other].remote = sessions[r][other].remote
    BY <1>1, <2>3, MarkType
  <2>5. QED
    BY <1>1, <2>1, <2>2, <2>4, LogKeeps
<1>5. QED
  BY <1>2, <1>3, <1>4

(* An edit of a block list touches nothing but the list. *)
LEMMA EditBlocksKeeps ==
    ASSUME Kept, NEW s \in Stations, NEW list \in SUBSET (Stations \ {s}),
           EditBlocks(s, list)
    PROVE  Kept'
<1>1. /\ blocks' = [blocks EXCEPT ![s] = list]
      /\ edited' = edited \cup
           {id \in Ids : \E r \in Stations : sessions[r][id].state # "None"}
      /\ UNCHANGED <<sessions, nextId, retries, hellos, acks, outbound, sent,
                     received, granted>>
  BY DEF EditBlocks
<1>2. blocks' \in Lists
  BY <1>1 DEF Kept, TypeOK, Lists
<1>3. edited' \subseteq Ids
  BY <1>1 DEF Kept, TypeOK
<1>4. TypeOK' /\ CallingIsRetried'
  BY <1>1, <1>2, <1>3 DEF Kept, TypeOK, CallingIsRetried
<1>5. QED
  BY <1>4 DEF Kept

LEMMA NextKeeps ==
    ASSUME Kept, [Next]_vars
    PROVE  Kept'
<1>1. CASE UNCHANGED vars
  BY <1>1 DEF vars, Kept, TypeOK, CallingIsRetried
<1>2. QED
  BY <1>1, EditBlocksKeeps, StartSessionKeeps, CloseSessionKeeps, RetryCheckKeeps,
     SendHelloKeeps, SendHelloAckKeeps, TextsKeep DEF Next

LEMMA KeptAlways == Spec => []Kept
  BY KeptAtFirst, NextKeeps, PTL DEF Spec

(* However many stations share the frequency, a call that has no answer is  *)
(* one that will be repeated or given up, no call is sent more often than   *)
(* it may, and every table keeps its shape.                                 *)
THEOREM CallsAreRetried == Spec => [](TypeOK /\ CallingIsRetried)
  BY KeptAlways, PTL DEF Kept
-----------------------------------------------------------------------------
(* Two stations *)

(* Neither blocks the other. *)
Open == \A s, r \in Stations : s # r => r \notin blocks[s]

(* A station does not block the other, as it did not when it called.        *)
MayCall(s) == \A r \in Stations : s # r => r \notin blocks[s]

(* A call of s of that id is on its way, or waits for its answer.           *)
Calls(s, id) ==
    (\E item \in hellos[s] : item.id = id) \/ sessions[s][id].state = "Calling"

(* The answers s may still send: for an id it has in its table, and only if *)
(* it is true that it accepted the call; and when no list has been edited   *)
(* since the id came into use, to a station that may call, with the verdict *)
(* of the block list of s.                                                  *)
TrueAnswers(s) ==
    {ack \in Answers :
       /\ sessions[s][ack.id].state # "None"
       /\ \A r \in Stations \ {s} :
            /\ ack.accepted => ack.id \in granted[r]
            /\ ack.id \notin edited => s \notin blocks[r]
            /\ ack.id \notin edited => (ack.accepted <=> r \notin blocks[s])}

(* What TransferNeedsSession asks of a session with a transfer.             *)
HasSession(s, id) ==
    \/ sessions[s][id].state = "Connected"
    \/ sessions[s][id].state = "Rejected" /\ id \in edited

(* With two stations the block lists decide what becomes of every call of   *)
(* an id during whose use they are not edited.                              *)
PairInv ==
    /\ \A s \in Stations, id \in Ids :
         Calls(s, id) => /\ sessions[s][id].state # "None"
                         /\ id \notin edited => MayCall(s)
    /\ \A s \in Stations : acks[s] \in Seq(TrueAnswers(s))
    /\ \A s \in Stations, id \in Ids : id \notin edited =>
         /\ sessions[s][id].state = "Connected" => Open
         /\ sessions[s][id].state = "Rejected" => ~Open
    /\ Answered
    /\ TransferNeedsSession

LEMMA PairAtFirst == Init => PairInv
<1> SUFFICES ASSUME Init PROVE PairInv
  OBVIOUS
<1>1. \A s \in Stations : acks[s] \in Seq(TrueAnswers(s))
  BY EmptySeq DEF Init
<1>2. \A s \in Stations, id \in Ids : sessions[s][id] = NoSession /\ outbound[s][id] = NoTransfer
  BY DEF Init
<1>3. \A s \in Stations : hellos[s] = {}
  BY DEF Init
<1>4. \A s \in Stations, id \in Ids : ~Calls(s, id)
  BY <1>2, <1>3 DEF Calls, NoSession
<1>5. QED
  BY <1>1, <1>2, <1>4 DEF PairInv, Answered, TransferNeedsSession, NoSession

(* What an answer promises stays true: a call once accepted stays so, a     *)
(* session stays in its table, and the lists are as they were.              *)
LEMMA AnswersStayTrue ==
    ASSUME Kept, UNCHANGED <<blocks, edited>>,
           \A r \in Stations : granted[r] \subseteq granted'[r],
           NEW s \in Stations,
           \A id \in Ids : sessions[s][id].state # "None" => sessions'[s][id].state # "None"
    PROVE  TrueAnswers(s) \subseteq TrueAnswers(s)'
  BY DEF TrueAnswers, Answers

(* A step that leaves block lists and acceptances alone, sends nothing for  *)
(* a station that may not, and connects and rejects nobody anew.            *)
LEMMA PairKept ==
    ASSUME Kept, PairInv, UNCHANGED <<blocks, edited, granted, acks>>,
           \A s \in Stations, id \in Ids :
              Calls(s, id)' => Calls(s, id) \/ (MayCall(s) /\ sessions'[s][id].state # "None"),
           \A s \in Stations, id \in Ids :
              sessions[s][id].state # "None" => sessions'[s][id].state # "None",
           \A s \in Stations, id \in Ids :
              sessions'[s][id].state \in {"Connected", "Rejected"} =>
                 /\ sessions'[s][id].state = sessions[s][id].state
                 /\ sessions'[s][id].remote = sessions[s][id].remote,
           \A s \in Stations, id \in Ids :
              outbound'[s][id] # NoTransfer => HasSession(s, id)'
    PROVE  PairInv'
<1>1. Open' <=> Open
  BY DEF Open
<1>2. ASSUME NEW s \in Stations PROVE acks'[s] \in Seq(TrueAnswers(s)')
  <2>1. TrueAnswers(s) \subseteq TrueAnswers(s)'
    BY AnswersStayTrue
  <2>2. QED
    BY <2>1, SeqMonotonic DEF PairInv
<1>3. \A s \in Stations, id \in Ids :
         Calls(s, id)' => /\ sessions'[s][id].state # "None"
                          /\ id \notin edited' => MayCall(s)'
  BY DEF PairInv, MayCall
<1>4. Answered'
  BY DEF PairInv, Answered
<1>5. TransferNeedsSession'
  BY DEF TransferNeedsSession, HasSession
<1>6. \A s \in Stations, id \in Ids : id \notin edited' =>
         /\ sessions'[s][id].state = "Connected" => Open'
         /\ sessions'[s][id].state = "Rejected" => ~Open'
  BY <1>1 DEF PairInv
<1>7. QED
  BY <1>2, <1>3, <1>4, <1>5, <1>6 DEF PairInv

(* After an edit the ids that are not in use are the only ones the lists    *)
(* still speak for, and nothing that is connected, refused or on its way    *)
(* has such an id.                                                          *)
LEMMA PairEditBlocks ==
    ASSUME Kept, PairInv, NEW s \in Stations, NEW list \in SUBSET (Stations \ {s}),
           EditBlocks(s, list)
    PROVE  PairInv'
<1>1. /\ edited' = edited \cup
           {id \in Ids : \E r \in Stations : sessions[r][id].state # "None"}
      /\ UNCHANGED <<sessions, hellos, acks, outbound, granted>>
  BY DEF EditBlocks
<1>2. \A id \in Ids : id \notin edited' => \A r \in Stations : sessions[r][id].state = "None"
  BY <1>1
<1>3. ASSUME NEW r \in Stations PROVE acks'[r] \in Seq(TrueAnswers(r)')
  <2>1. TrueAnswers(r) \subseteq TrueAnswers(r)'
    BY <1>1, <1>2 DEF TrueAnswers, Answers
  <2>2. QED
    BY <1>1, <2>1, SeqMonotonic DEF PairInv
<1>4. \A r \in Stations, id \in Ids :
         Calls(r, id)' => /\ sessions'[r][id].state # "None"
                          /\ id \notin edited' => MayCall(r)'
  BY <1>1, <1>2 DEF PairInv, Calls
<1>5. Answered'
  BY <1>1 DEF PairInv, Answered
<1>6. TransferNeedsSession'
  BY <1>1 DEF PairInv, TransferNeedsSession
<1>7. \A r \in Stations, id \in Ids : id \notin edited' =>
         /\ sessions'[r][id].state = "Connected" => Open'
         /\ sessions'[r][id].state = "Rejected" => ~Open'
  BY <1>1, <1>2
<1>8. QED
  BY <1>3, <1>4, <1>5, <1>6, <1>7 DEF PairInv

LEMMA PairStartSession ==
    ASSUME NEW a, NEW b, Stations = {a, b}, Kept, PairInv,
           NEW s \in Stations, NEW r \in Stations, NEW id \in Ids, StartSession(s, r, id)
    PROVE  PairInv'
<1>1. /\ r # s /\ r \notin blocks[s] /\ sessions[s][id].state = "None"
      /\ sessions' = [sessions EXCEPT ![s][id] =
                        [state |-> "Calling", remote |-> r, messages |-> <<>>]]
      /\ hellos' = [hellos EXCEPT ![s] = @ \cup {Hello(id, 1)}]
      /\ UNCHANGED <<blocks, edited, acks, outbound, granted>>
  BY DEF StartSession, AllocateSessionId, FreeIds
<1>2. MayCall(s)
  BY <1>1 DEF MayCall
<1>3. \A o \in Stations, other \in Ids :
         \/ sessions'[o][other] = sessions[o][other] /\ ~ (o = s /\ other = id)
         \/ o = s /\ other = id /\ sessions'[o][other].state = "Calling"
  BY <1>1, KeptTypes
<1>4. outbound'[s][id] = NoTransfer
  BY <1>1 DEF PairInv, TransferNeedsSession
<1>5. ASSUME NEW o \in Stations, NEW other \in Ids, Calls(o, other)'
      PROVE  Calls(o, other) \/ (MayCall(o) /\ sessions'[o][other].state # "None")
  <2>1. CASE o = s /\ other = id
    BY <1>2, <1>3, <2>1
  <2>2. CASE ~ (o = s /\ other = id)
    BY <1>1, <1>3, <1>5, <2>2 DEF Calls, Kept, TypeOK, Hello
  <2>3. QED
    BY <2>1, <2>2
<1>6. \A o \in Stations, other \in Ids :
         outbound'[o][other] # NoTransfer => HasSession(o, other)'
  BY <1>1, <1>3, <1>4 DEF PairInv, TransferNeedsSession, HasSession
<1>7. QED
  BY <1>1, <1>3, <1>5, <1>6, PairKept

LEMMA PairClose ==
    ASSUME Kept, PairInv, NEW s \in Stations, NEW id \in Ids,
           Close(s, id), UNCHANGED <<blocks, edited, granted, acks, hellos>>
    PROVE  PairInv'
<1>1. /\ sessions' = [sessions EXCEPT ![s][id].state = "Closed"]
      /\ outbound' = [outbound EXCEPT ![s][id] = NoTransfer]
  BY DEF Close
<1>2. \A o \in Stations, other \in Ids :
         \/ sessions'[o][other] = sessions[o][other] /\ ~ (o = s /\ other = id)
         \/ o = s /\ other = id /\ sessions'[o][other].state = "Closed"
  BY <1>1, KeptTypes DEF Records
<1>3. \A o \in Stations, other \in Ids :
         outbound'[o][other] # NoTransfer => HasSession(o, other)'
  BY <1>1, <1>2 DEF PairInv, TransferNeedsSession, HasSession, Kept, TypeOK
<1>4. \A o \in Stations, other \in Ids : Calls(o, other)' => Calls(o, other)
  BY <1>2 DEF Calls
<1>5. QED
  BY <1>2, <1>3, <1>4, PairKept

LEMMA PairRetryCheck ==
    ASSUME Kept, PairInv, NEW s \in Stations, NEW id \in Ids, RetryCheck(s, id)
    PROVE  PairInv'
<1>1. UNCHANGED <<blocks, edited, granted, acks>>
  BY DEF RetryCheck
<1>2. CASE Close(s, id) /\ UNCHANGED hellos
  BY <1>1, <1>2, PairClose
<1>3. CASE UNCHANGED <<sessions, hellos, outbound>>
  BY <1>1, <1>3, PairKept DEF PairInv, TransferNeedsSession, HasSession, Calls
<1>4. CASE /\ sessions[s][id].state = "Calling"
           /\ hellos' = [hellos EXCEPT ![s] = @ \cup {Hello(id, retries[s][id] + 1)}]
           /\ UNCHANGED <<sessions, outbound>>
  <2>1. Calls(s, id)
    BY <1>4 DEF Calls
  <2>2. \A o \in Stations, other \in Ids : Calls(o, other)' => Calls(o, other)
    BY <1>4, <2>1 DEF Calls, Kept, TypeOK, Hello
  <2>3. QED
    BY <1>1, <1>4, <2>2, PairKept DEF PairInv, TransferNeedsSession, HasSession
<1>5. QED
  BY <1>2, <1>3, <1>4 DEF RetryCheck

LEMMA PairTexts ==
    ASSUME Kept, PairInv, NEW s \in Stations, NEW id \in Ids,
           \/ SendText(s, id) \/ QueueText(s, id)
           \/ \E r \in Stations : TextArrives(s, id, r)
           \/ TextAcked(s, id) \/ TextFails(s, id)
    PROVE  PairInv'
<1>1. \A r \in Stations, other \in Ids :
         /\ sessions'[r][other].state = sessions[r][other].state
         /\ sessions'[r][other].remote = sessions[r][other].remote
  BY TextsKeep
<1>2. UNCHANGED <<blocks, edited, granted, acks, hellos>>
  BY DEF SendText, QueueText, TextArrives, TextAcked, TextFails
<1>3. \A o \in Stations, other \in Ids : Calls(o, other)' => Calls(o, other)
  BY <1>1, <1>2 DEF Calls
<1>4. ASSUME NEW o \in Stations, NEW other \in Ids, outbound'[o][other] # NoTransfer
      PROVE  HasSession(o, other)'
  <2>1. outbound \in [Stations -> [Ids -> Transfers]]
    BY DEF Kept, TypeOK, Transfers
  <2>2. \/ outbound[o][other] # NoTransfer
        \/ sessions[o][other].state = "Connected"
    BY <1>4, <2>1 DEF SendText, QueueText, TextArrives, TextAcked, TextFails
  <2>3. QED
    BY <1>1, <1>2, <2>2 DEF PairInv, TransferNeedsSession, HasSession
<1>5. QED
  BY <1>1, <1>2, <1>3, <1>4, PairKept

(* The other station, if it decodes a HELLO, accepts the call exactly when  *)
(* its list lets it, and says so; when no list has been edited since the id *)
(* came into use, that is when neither blocks the other.                    *)
LEMMA PairSendHello ==
    ASSUME NEW a, NEW b, Stations = {a, b}, a # b, Kept, PairInv,
           NEW s \in Stations, NEW heard \in SUBSET (Stations \ {s}),
           NEW item \in hellos[s], SendHello(s, item, heard)
    PROVE  PairInv'
<1> DEFINE id == item.id
<1>1. id \in Ids
  BY DEF Kept, TypeOK, Frames
<1>2. /\ hellos' = [hellos EXCEPT ![s] = @ \ {item}]
      /\ sessions' = [r \in Stations |->
                        IF r \in heard THEN [sessions[r] EXCEPT ![id] = AnsweredSession(r, s)]
                                       ELSE sessions[r]]
      /\ acks' = [r \in Stations |->
                    IF r \in heard THEN Append(acks[r], Answer(r, s, id)) ELSE acks[r]]
      /\ granted' = [granted EXCEPT ![s] =
                       IF \E r \in heard : Accepts(r, s) THEN @ \cup {id} ELSE @]
      /\ UNCHANGED <<blocks, edited, outbound>>
  BY DEF SendHello
<1>3. id \notin edited => MayCall(s)
  <2>1. Calls(s, id)
    BY DEF Calls, id
  <2>2. QED
    BY <1>1, <2>1 DEF PairInv
<1> HIDE DEF id
<1>4. ASSUME NEW r \in heard
      PROVE  /\ r \in Stations /\ r # s
             /\ id \notin edited => r \notin blocks[s]
             /\ id \notin edited => (Accepts(r, s) <=> Open)
             /\ \A o \in Stations : o # r => o = s
  BY <1>3, <1>4 DEF MayCall, Accepts, Open
<1>5. /\ granted \in [Stations -> SUBSET Ids]
      /\ \A r \in Stations : granted[r] \subseteq granted'[r]
      /\ \A r \in heard : Accepts(r, s) => id \in granted'[s]
  BY <1>1, <1>2 DEF Kept, TypeOK
<1>6. ASSUME NEW r \in Stations, NEW other \in Ids
      PROVE  \/ sessions'[r][other] = sessions[r][other]
             \/ r \in heard /\ other = id /\ sessions'[r][other] = AnsweredSession(r, s)
  BY <1>1, <1>2, KeptTypes
<1>7. Open' <=> Open
  BY <1>2 DEF Open
<1>8. ASSUME NEW r \in heard
      PROVE  /\ AnsweredSession(r, s).state = "Connected" => id \in granted'[s]
             /\ id \notin edited =>
                  /\ AnsweredSession(r, s).state = "Connected" => Open
                  /\ AnsweredSession(r, s).state = "Rejected" => ~Open
             /\ AnsweredSession(r, s).state \in {"Connected", "Rejected"}
             /\ AnsweredSession(r, s).remote = s
  BY <1>4, <1>5 DEF AnsweredSession
<1>9. ASSUME NEW r \in Stations, NEW other \in Ids, sessions[r][other].state # "None"
      PROVE  sessions'[r][other].state # "None"
  BY <1>6, <1>8, <1>9
<1>10. \A r \in Stations, other \in Ids :
          Calls(r, other)' => /\ sessions'[r][other].state # "None"
                              /\ other \notin edited' => MayCall(r)'
  <2>1. \A r \in Stations, other \in Ids : Calls(r, other)' => Calls(r, other)
    BY <1>2, <1>6, <1>8 DEF Calls, Kept, TypeOK
  <2>2. QED
    BY <1>2, <1>9, <2>1 DEF PairInv, MayCall
<1>11. ASSUME NEW r \in Stations PROVE acks'[r] \in Seq(TrueAnswers(r)')
  <2>1. TrueAnswers(r) \subseteq TrueAnswers(r)'
    BY <1>2, <1>5, <1>9, AnswersStayTrue
  <2>2. acks[r] \in Seq(TrueAnswers(r)')
    BY <2>1, SeqMonotonic DEF PairInv
  <2>3. CASE r \notin heard
    BY <1>2, <2>2, <2>3
  <2>4. CASE r \in heard
    <3>1. Answer(r, s, id) \in Answers
      BY <1>1 DEF Answer, Answers, Accepts
    <3>2. ASSUME NEW o \in Stations \ {r}
          PROVE  /\ Answer(r, s, id).accepted => Answer(r, s, id).id \in granted'[o]
                 /\ id \notin edited' => r \notin blocks'[o]
                 /\ id \notin edited' => (Answer(r, s, id).accepted <=> o \notin blocks'[r])
      <4>1. o = s
        BY <1>4, <2>4
      <4>2. QED
        BY <1>2, <1>4, <1>5, <2>4, <4>1 DEF Answer, Accepts
    <3>3. sessions'[r][id].state # "None" /\ Answer(r, s, id).id = id
      <4>1. sessions'[r][id] = AnsweredSession(r, s)
        BY <1>1, <1>2, <2>4, KeptTypes
      <4>2. QED
        BY <1>8, <2>4, <4>1 DEF Answer
    <3>4. Answer(r, s, id) \in TrueAnswers(r)'
      BY <3>1, <3>2, <3>3 DEF TrueAnswers
    <3>5. acks'[r] = Append(acks[r], Answer(r, s, id))
      BY <1>2, <2>4
    <3>6. QED
      BY <2>2, <3>4, <3>5, AppendProperties
  <2>5. QED
    BY <2>3, <2>4
<1>12. \A r \in Stations, other \in Ids : other \notin edited' =>
          /\ sessions'[r][other].state = "Connected" => Open'
          /\ sessions'[r][other].state = "Rejected" => ~Open'
  BY <1>2, <1>6, <1>7, <1>8 DEF PairInv
<1>13. Answered'
  <2> SUFFICES ASSUME NEW r \in Stations, NEW other \in Ids,
                      sessions'[r][other].state = "Connected"
               PROVE  \/ other \in granted'[r]
                      \/ /\ sessions'[r][other].remote # NoStation
                         /\ other \in granted'[sessions'[r][other].remote]
    BY DEF Answered
  <2>1. CASE sessions'[r][other] = sessions[r][other]
    <3>1. sessions[r][other].remote \in Stations \cup {NoStation}
      BY KeptTypes DEF Records
    <3>2. QED
      BY <1>5, <2>1, <3>1 DEF PairInv, Answered
  <2>2. CASE r \in heard /\ other = id /\ sessions'[r][other] = AnsweredSession(r, s)
    BY <1>8, <2>2, HandshakeAssumption
  <2>3. QED
    BY <1>6, <2>1, <2>2
<1>14. TransferNeedsSession'
  <2> SUFFICES ASSUME NEW r \in Stations, NEW other \in Ids, outbound[r][other] # NoTransfer
               PROVE  HasSession(r, other)'
    BY <1>2 DEF TransferNeedsSession, HasSession
  <2>1. HasSession(r, other) /\ (other \notin edited => Open)
    BY DEF PairInv, TransferNeedsSession, HasSession
  <2>2. QED
    BY <1>2, <1>6, <1>8, <2>1 DEF HasSession
<1>15. QED
  BY <1>10, <1>11, <1>12, <1>13, <1>14 DEF PairInv

(* The caller, if it decodes the HELLO_ACK, takes a verdict that is true.   *)
LEMMA PairSendHelloAck ==
    ASSUME NEW a, NEW b, Stations = {a, b}, a # b, Kept, PairInv,
           NEW s \in Stations, NEW heard \in SUBSET (Stations \ {s}),
           SendHelloAck(s, heard)
    PROVE  PairInv'
<1> DEFINE ack == Head(acks[s])
           takers == {r \in heard : Hears(r, ack)}
           joined == {r \in takers : ack.accepted}
<1>1. /\ acks[s] # <<>> /\ acks' = [acks EXCEPT ![s] = Tail(@)]
      /\ sessions' = [r \in Stations |->
                        IF r \in takers
                        THEN [sessions[r] EXCEPT ![ack.id].state = AckedState(ack)]
                        ELSE sessions[r]]
      /\ hellos' = [r \in Stations |->
                      IF r \in joined THEN {h \in hellos[r] : h.id # ack.id \/ h.attempt = 1}
                                      ELSE hellos[r]]
      /\ UNCHANGED <<blocks, edited, outbound, granted>>
  BY DEF SendHelloAck
<1>2. ack \in TrueAnswers(s) /\ Tail(acks[s]) \in Seq(TrueAnswers(s))
  BY <1>1, HeadTailProperties DEF PairInv
<1>3. ack \in Answers /\ ack.id \in Ids
  BY <1>2 DEF TrueAnswers, Answers
<1>4. ASSUME NEW r \in takers
      PROVE  /\ AckedState(ack) = "Connected" => ack.id \in granted[r]
             /\ ack.id \notin edited =>
                  /\ AckedState(ack) = "Connected" => Open
                  /\ AckedState(ack) = "Rejected" => ~Open
  <2>1. r \in Stations \ {s}
    BY <1>4
  <2>2. /\ ack.accepted => ack.id \in granted[r]
        /\ ack.id \notin edited => s \notin blocks[r]
        /\ ack.id \notin edited => (ack.accepted <=> r \notin blocks[s])
    BY <1>2, <2>1 DEF TrueAnswers
  <2>3. ack.id \notin edited => (ack.accepted <=> Open)
    BY <2>1, <2>2 DEF Open
  <2>4. QED
    BY <2>2, <2>3 DEF AckedState
<1>5. AckedState(ack) \in {"Connected", "Rejected"}
  BY DEF AckedState
<1> HIDE DEF ack
<1>6. ASSUME NEW r \in Stations, NEW other \in Ids
      PROVE  \/ sessions'[r][other] = sessions[r][other]
             \/ /\ r \in takers /\ other = ack.id
                /\ sessions'[r][other].state = AckedState(ack)
                /\ sessions'[r][other].remote = sessions[r][other].remote
  <2>1. CASE r \in takers /\ other = ack.id
    <3>1. sessions'[r][other] = [sessions[r][other] EXCEPT !.state = AckedState(ack)]
      BY <1>1, <1>3, <2>1, KeptTypes
    <3>2. sessions[r][other] \in Records /\ AckedState(ack) \in States
      BY <1>5, <2>1, KeptTypes DEF States
    <3>3. QED
      BY <2>1, <3>1, <3>2, RecordParts
  <2>2. CASE ~ (r \in takers /\ other = ack.id)
    BY <1>1, <1>3, <2>2, KeptTypes
  <2>3. QED
    BY <2>1, <2>2
<1>7. Open' <=> Open
  BY <1>1 DEF Open
<1>8. ASSUME NEW r \in Stations, NEW other \in Ids, sessions[r][other].state # "None"
      PROVE  sessions'[r][other].state # "None"
  BY <1>5, <1>6, <1>8
<1>9. \A r \in Stations, other \in Ids :
         Calls(r, other)' => /\ sessions'[r][other].state # "None"
                             /\ other \notin edited' => MayCall(r)'
  <2>1. \A r \in Stations, other \in Ids : Calls(r, other)' => Calls(r, other)
    BY <1>1, <1>5, <1>6 DEF Calls
  <2>2. QED
    BY <1>1, <1>8, <2>1 DEF PairInv, MayCall
<1>10. ASSUME NEW r \in Stations PROVE acks'[r] \in Seq(TrueAnswers(r)')
  <2>1. TrueAnswers(r) \subseteq TrueAnswers(r)'
    BY <1>1, <1>8, AnswersStayTrue
  <2>2. acks'[r] \in Seq(TrueAnswers(r))
    BY <1>1, <1>2 DEF PairInv, Kept, TypeOK
  <2>3. QED
    BY <2>1, <2>2, SeqMonotonic
<1>11. \A r \in Stations, other \in Ids : other \notin edited' =>
          /\ sessions'[r][other].state = "Connected" => Open'
          /\ sessions'[r][other].state = "Rejected" => ~Open'
  BY <1>1, <1>4, <1>6, <1>7 DEF PairInv
<1>12. Answered'
  <2> SUFFICES ASSUME NEW r \in Stations, NEW other \in Ids,
                      sessions'[r][other].state = "Connected"
               PROVE  \/ other \in granted[r]
                      \/ /\ sessions'[r][other].remote # NoStation
                         /\ other \in granted[sessions'[r][other].remote]
    BY <1>1 DEF Answered
  <2>1. CASE sessions'[r][other] = sessions[r][other]
    BY <2>1 DEF PairInv, Answered
  <2>2. CASE r \in takers /\ other = ack.id /\ sessions'[r][other].state = AckedState(ack)
    BY <1>4, <2>2
  <2>3. QED
    BY <1>6, <2>1, <2>2
<1>13. TransferNeedsSession'
  <2> SUFFICES ASSUME NEW r \in Stations, NEW other \in Ids, outbound[r][other] # NoTransfer
               PROVE  HasSession(r, other)'
    BY <1>1 DEF TransferNeedsSession, HasSession
  <2>1. HasSession(r, other) /\ (other \notin edited => Open)
    BY DEF PairInv, TransferNeedsSession, HasSession
  <2>2. QED
    BY <1>1, <1>4, <1>5, <1>6, <2>1 DEF HasSession
<1>14. QED
  BY <1>9, <1>10, <1>11, <1>12, <1>13 DEF PairInv

LEMMA PairAlways ==
    ASSUME NEW a, NEW b, Stations = {a, b}, a # b
    PROVE  Spec => []PairInv
<1>1. Kept /\ PairInv /\ [Next]_vars => PairInv'
  <2> SUFFICES ASSUME Kept, PairInv, [Next]_vars PROVE PairInv'
    OBVIOUS
  <2>1. CASE UNCHANGED vars
    <3>1. UNCHANGED <<blocks, edited, granted, acks, hellos, sessions, outbound>>
      BY <2>1 DEF vars
    <3>2. QED
      BY <3>1, PairKept DEF PairInv, TransferNeedsSession, HasSession, Calls
  <2>2. ASSUME NEW s \in Stations, NEW id \in Ids, CloseSession(s, id) PROVE PairInv'
    BY <2>2, PairClose DEF CloseSession
  <2>3. QED
    BY <2>1, <2>2, PairEditBlocks, PairStartSession, PairRetryCheck, PairTexts,
       PairSendHello, PairSendHelloAck DEF Next
<1>2. QED
  BY <1>1, PairAtFirst, KeptAlways, PTL DEF Spec

(* Two stations alone on the frequency, whatever their ids and texts, and   *)
(* however their operators edit the block lists and HELLOs and answers      *)
(* cross and get lost: a session is connected only because a HELLO was      *)
(* accepted, every call without answer is retried, and no transfer outlives *)
(* its connection but by a refusal that follows an edit.                    *)
THEOREM HandshakeIsSound ==
    ASSUME NEW a, NEW b, Stations = {a, b}, a # b
    PROVE  Spec => []HandshakeInv
  BY KeptAlways, PairAlways, PTL DEF Kept, PairInv, HandshakeInv

(* Two stations alone on the frequency disagree about a call (one connected *)
(* and the other refused) only if a block list was edited after the id of   *)
(* the call had come into use, however calls and answers cross, repeat and  *)
(* get lost, and however often the lists were edited before.                *)
THEOREM RefusalIsShared ==
    ASSUME NEW a, NEW b, Stations = {a, b}, a # b
    PROVE  Spec => []DisagreementNeedsEdit
<1>1. PairInv => DisagreementNeedsEdit
  BY DEF PairInv, DisagreementNeedsEdit
<1>2. QED
  BY <1>1, PairAlways, PTL
===============================================================================

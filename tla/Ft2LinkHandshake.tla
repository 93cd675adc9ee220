---------------------------- MODULE Ft2LinkHandshake ----------------------------
(***************************************************************************)
(* Opening and closing FT2-Link sessions: the session table of every       *)
(* station (src/lib/ft2link/FT2LinkAppModel.cpp) and the part of its       *)
(* adapter (src/controllers/FT2LinkQmlAdapter.cpp) that calls, answers,    *)
(* retries, gives up and closes.                                           *)
(*                                                                         *)
(* The stations share one frequency.  A HELLO and a HELLO_ACK carry the    *)
(* callsign of their sender and the sender's session id, never the         *)
(* callsign they are meant for: whoever decodes one handles it.  A frame   *)
(* is decoded by any part of the other stations, none included.            *)
(*                                                                         *)
(* A text travels as an ARQ transfer (Ft2LinkArq); here it only arrives,   *)
(* is acknowledged or fails.                                               *)
(***************************************************************************)
EXTENDS Integers, Sequences, FiniteSets

CONSTANTS
    Stations,
    NoStation,      \* the remote of a session that is not in the table
    Greets,         \* the stations with a welcome or away message
    FirstId,        \* for each station the id its next call tries first
    MaxId,          \* bound: session ids are 1 .. MaxId (uint16 in the code)
    MaxAttempts,    \* HELLOs of one call, 4 in the adapter
    MaxTexts        \* bound: texts sent by all the operators together

ASSUME HandshakeAssumption ==
    /\ NoStation \notin Stations
    /\ Greets \subseteq Stations
    /\ MaxId \in Nat \ {0}
    /\ FirstId \in [Stations -> 1 .. MaxId]
    /\ MaxAttempts \in Nat \ {0}
    /\ MaxTexts \in Nat

VARIABLES
    blocks,         \* m_blockedCalls: the callsigns each station blocks
    edited,         \* history: the ids in use when a block list was edited
    sessions,       \* m_sessions: for each station and id its record
    nextId,         \* m_nextSessionId
    retries,        \* m_helloRetries: HELLOs sent for each id, 0 = no entry
    hellos,         \* the HELLO and HELLO RETRY items of m_radioTxQueue
    acks,           \* the HELLO_ACK items, which keep their order
    outbound,       \* m_liveOutbound with m_liveOutboundMessageIndex
    sent,           \* history: how many texts have been sent
    received,       \* history: the texts each station has taken in
    granted         \* history: for each station the ids of its calls
                    \* that a station hearing its HELLO has accepted

vars == <<blocks, edited, sessions, nextId, retries, hellos, acks, outbound,
          sent, received, granted>>

Ids == 1 .. MaxId

NoSession == [state |-> "None", remote |-> NoStation, messages |-> <<>>]

NoTransfer == [text |-> 0, index |-> 0]

\* The text 0 is the station's own greeting, put in the log and never sent.
Pending(text) ==
    [direction |-> "Outgoing", delivery |-> "Pending", text |-> text]

Incoming(text) ==
    [direction |-> "Incoming", delivery |-> "Received", text |-> text]

\* A station's own callsign on its list makes no difference.
Lists == {lists \in [Stations -> SUBSET Stations] :
            \A s \in Stations : s \notin lists[s]}

Init ==
    /\ sessions = [s \in Stations |-> [id \in Ids |-> NoSession]]
    /\ blocks \in Lists
    /\ edited = {}
    /\ nextId = FirstId
    /\ retries = [s \in Stations |-> [id \in Ids |-> 0]]
    /\ hellos = [s \in Stations |-> {}]
    /\ acks = [s \in Stations |-> <<>>]
    /\ outbound = [s \in Stations |-> [id \in Ids |-> NoTransfer]]
    /\ sent = 0
    /\ received = [s \in Stations |-> {}]
    /\ granted = [s \in Stations |-> {}]

-----------------------------------------------------------------------------
(* The block list *)

\* setBlockedCalls, addBlockedCall, deleteBlockedCall and clearBlockedCalls,
\* at any time: none of them looks at the sessions, the transfers or the queue.
EditBlocks(s, list) ==
    /\ list # blocks[s]
    /\ blocks' = [blocks EXCEPT ![s] = list]
    /\ edited' = edited \cup
         {id \in Ids : \E r \in Stations : sessions[r][id].state # "None"}
    /\ UNCHANGED <<sessions, nextId, retries, hellos, acks, outbound, sent,
                   received, granted>>

-----------------------------------------------------------------------------
(* The calling station *)

\* The ids from the next one on that are not in the table.
FreeIds(s) == {id \in nextId[s] .. MaxId : sessions[s][id].state = "None"}

AllocateSessionId(s, id) ==
    id \in FreeIds(s) /\ \A other \in FreeIds(s) : id <= other

\* "HELLO" is the attempt 1, "HELLO RETRY n/4" the attempt n.
Hello(id, attempt) == [id |-> id, attempt |-> attempt]

\* Mutant: the caller's record starts connected, as the answerer's does.
StartSessionOptimistic(s, r, id) ==
    /\ r # s
    /\ r \notin blocks[s]
    /\ AllocateSessionId(s, id)
    /\ sessions' = [sessions EXCEPT ![s][id] =
                      [state |-> "Connected", remote |-> r, messages |-> <<>>]]
    /\ nextId' = [nextId EXCEPT ![s] = id + 1]
    /\ retries' = [retries EXCEPT ![s][id] = 1]
    /\ hellos' = [hellos EXCEPT ![s] = @ \cup {Hello(id, 1)}]
    /\ UNCHANGED <<blocks, edited, acks, outbound, sent, received, granted>>

\* A call is refused for a callsign on the caller's own block list.
StartSession(s, r, id) ==
    /\ r # s
    /\ r \notin blocks[s]
    /\ AllocateSessionId(s, id)
    /\ sessions' = [sessions EXCEPT ![s][id] =
                      [state |-> "Calling", remote |-> r, messages |-> <<>>]]
    /\ nextId' = [nextId EXCEPT ![s] = id + 1]
    /\ retries' = [retries EXCEPT ![s][id] = 1]
    /\ hellos' = [hellos EXCEPT ![s] = @ \cup {Hello(id, 1)}]
    /\ UNCHANGED <<blocks, edited, acks, outbound, sent, received, granted>>

\* What closing clears; the items of m_radioTxQueue stay.
\* Mutant: the transfer under way is left in m_liveOutbound.
CloseKeepingTransfer(s, id) ==
    /\ sessions' = [sessions EXCEPT ![s][id].state = "Closed"]
    /\ retries' = [retries EXCEPT ![s][id] = 0]
    /\ UNCHANGED outbound

Close(s, id) ==
    /\ sessions' = [sessions EXCEPT ![s][id].state = "Closed"]
    /\ retries' = [retries EXCEPT ![s][id] = 0]
    /\ outbound' = [outbound EXCEPT ![s][id] = NoTransfer]

CloseSession(s, id) ==
    /\ sessions[s][id].state # "None"
    /\ Close(s, id)
    /\ UNCHANGED <<blocks, edited, nextId, hellos, acks, sent, received, granted>>

\* Mutant: the attempts of a call are not counted.
RetryCheckUncounted(s, id) ==
    /\ retries[s][id] > 0
    /\ IF sessions[s][id].state # "Calling"
       THEN /\ retries' = [retries EXCEPT ![s][id] = 0]
            /\ UNCHANGED <<sessions, hellos, outbound>>
       ELSE /\ hellos' = [hellos EXCEPT ![s] =
                            @ \cup {Hello(id, retries[s][id])}]
            /\ UNCHANGED <<sessions, retries, outbound>>
    /\ UNCHANGED <<blocks, edited, nextId, acks, sent, received, granted>>

\* Mutant: a call that has had no answer is dropped without being closed.
RetryCheckForgetting(s, id) ==
    /\ retries[s][id] > 0
    /\ IF sessions[s][id].state # "Calling" \/ retries[s][id] >= MaxAttempts
       THEN /\ retries' = [retries EXCEPT ![s][id] = 0]
            /\ UNCHANGED <<sessions, hellos, outbound>>
       ELSE /\ retries' = [retries EXCEPT ![s][id] = @ + 1]
            /\ hellos' = [hellos EXCEPT ![s] =
                            @ \cup {Hello(id, retries[s][id] + 1)}]
            /\ UNCHANGED <<sessions, outbound>>
    /\ UNCHANGED <<blocks, edited, nextId, acks, sent, received, granted>>

\* Mutant: one attempt too many.
RetryCheckGenerous(s, id) ==
    /\ retries[s][id] > 0
    /\ IF sessions[s][id].state # "Calling"
       THEN /\ retries' = [retries EXCEPT ![s][id] = 0]
            /\ UNCHANGED <<sessions, hellos, outbound>>
       ELSE IF retries[s][id] > MaxAttempts
       THEN Close(s, id) /\ UNCHANGED hellos
       ELSE /\ retries' = [retries EXCEPT ![s][id] = @ + 1]
            /\ hellos' = [hellos EXCEPT ![s] =
                            @ \cup {Hello(id, retries[s][id] + 1)}]
            /\ UNCHANGED <<sessions, outbound>>
    /\ UNCHANGED <<blocks, edited, nextId, acks, sent, received, granted>>

\* runHelloRetryCheck for one entry that is due: the entry of a session
\* that is no longer calling is dropped, a call with no attempt left is
\* closed, any other is sent again.
RetryCheck(s, id) ==
    /\ retries[s][id] > 0
    /\ \/ /\ sessions[s][id].state # "Calling"
          /\ retries' = [retries EXCEPT ![s][id] = 0]
          /\ UNCHANGED <<sessions, hellos, outbound>>
       \/ /\ sessions[s][id].state = "Calling"
          /\ retries[s][id] >= MaxAttempts
          /\ Close(s, id)
          /\ UNCHANGED hellos
       \/ /\ sessions[s][id].state = "Calling"
          /\ retries[s][id] < MaxAttempts
          /\ retries' = [retries EXCEPT ![s][id] = @ + 1]
          /\ hellos' = [hellos EXCEPT ![s] =
                          @ \cup {Hello(id, retries[s][id] + 1)}]
          /\ UNCHANGED <<sessions, outbound>>
    /\ UNCHANGED <<blocks, edited, nextId, acks, sent, received, granted>>

-----------------------------------------------------------------------------
(* What the stations that decode a frame do with it *)

Accepts(r, s) == s \notin blocks[r]

Answer(r, s, id) == [id |-> id, accepted |-> Accepts(r, s)]

\* answerHello and rejectHello put a new record over whatever the table
\* holds under that id; the greeting goes into the new record.
AnsweredSession(r, s) ==
    [state    |-> IF Accepts(r, s) THEN "Connected" ELSE "Rejected",
     remote   |-> s,
     messages |-> IF Accepts(r, s) /\ r \in Greets THEN <<Pending(0)>>
                                                   ELSE <<>>]

\* The queue gives up one HELLO item; heard is who decodes it.
SendHello(s, item, heard) ==
    LET id == item.id IN
    /\ item \in hellos[s]
    /\ hellos' = [hellos EXCEPT ![s] = @ \ {item}]
    /\ sessions' = [r \in Stations |->
                      IF r \in heard
                      THEN [sessions[r] EXCEPT ![id] = AnsweredSession(r, s)]
                      ELSE sessions[r]]
    /\ acks' = [r \in Stations |->
                  IF r \in heard THEN Append(acks[r], Answer(r, s, id))
                                 ELSE acks[r]]
    /\ granted' = [granted EXCEPT ![s] =
                     IF \E r \in heard : Accepts(r, s) THEN @ \cup {id} ELSE @]
    /\ UNCHANGED <<blocks, edited, nextId, retries, outbound, sent, received>>

\* Mutant: any HELLO_ACK connects.
ConnectedStateWhatever(ack) == "Connected"

AckedState(ack) == IF ack.accepted THEN "Connected" ELSE "Rejected"

\* receiveHelloAck looks neither at the state of the session nor at who
\* answers; only an acceptance ends the retries and purges the queued ones.
Hears(r, ack) == sessions[r][ack.id].state # "None"

SendHelloAck(s, heard) ==
    LET ack == Head(acks[s])
        takers == {r \in heard : Hears(r, ack)}
        joined == {r \in takers : ack.accepted}
    IN
    /\ acks[s] # <<>>
    /\ acks' = [acks EXCEPT ![s] = Tail(@)]
    /\ sessions' = [r \in Stations |->
                      IF r \in takers
                      THEN [sessions[r] EXCEPT ![ack.id].state = AckedState(ack)]
                      ELSE sessions[r]]
    /\ retries' = [r \in Stations |->
                     IF r \in joined THEN [retries[r] EXCEPT ![ack.id] = 0]
                                     ELSE retries[r]]
    /\ hellos' = [r \in Stations |->
                    IF r \in joined
                    THEN {h \in hellos[r] : h.id # ack.id \/ h.attempt = 1}
                    ELSE hellos[r]]
    /\ UNCHANGED <<blocks, edited, nextId, outbound, sent, received, granted>>

-----------------------------------------------------------------------------
(* Texts *)

\* A text is logged in a connected session and its transfer takes the place
\* of the one the session had; index is its place in the log.
SendText(s, id) ==
    /\ sent < MaxTexts
    /\ sessions[s][id].state = "Connected"
    /\ sent' = sent + 1
    /\ sessions' = [sessions EXCEPT ![s][id].messages =
                      Append(@, Pending(sent + 1))]
    /\ outbound' = [outbound EXCEPT ![s][id] =
                      [text  |-> sent + 1,
                       index |-> Len(sessions[s][id].messages) + 1]]
    /\ UNCHANGED <<blocks, edited, nextId, retries, hellos, acks, received, granted>>

\* A text is logged and waits for its operator: nothing is sent.
QueueText(s, id) ==
    /\ sent < MaxTexts
    /\ sessions[s][id].state = "Connected"
    /\ sent' = sent + 1
    /\ sessions' = [sessions EXCEPT ![s][id].messages =
                      Append(@, Pending(sent + 1))]
    /\ UNCHANGED <<blocks, edited, nextId, retries, hellos, acks, outbound,
                   received, granted>>

\* The last DATA frame a station with a connected session of that id lacked.
TextArrives(s, id, r) ==
    LET text == outbound[s][id].text IN
    /\ r # s
    /\ outbound[s][id] # NoTransfer
    /\ text \notin received[r]
    /\ sessions[r][id].state = "Connected"
    /\ sessions' = [sessions EXCEPT ![r][id].messages =
                      Append(@, Incoming(text))]
    /\ received' = [received EXCEPT ![r] = @ \cup {text}]
    /\ UNCHANGED <<blocks, edited, nextId, retries, hellos, acks, outbound,
                   sent, granted>>

\* markOutgoingDelivered and markOutgoingFailed find the message by its place.
Markable(s, id) ==
    LET log == sessions[s][id].messages
        index == outbound[s][id].index
    IN  index \in DOMAIN log /\ log[index].direction = "Outgoing"

Mark(s, id, delivery) ==
    [sessions EXCEPT ![s][id].messages[outbound[s][id].index].delivery = delivery]

\* The ACK that completes the transfer.  When the message cannot be marked
\* the adapter returns at once and the transfer stays.
TextAcked(s, id) ==
    /\ outbound[s][id] # NoTransfer
    /\ sessions[s][id].state = "Connected"
    /\ \E r \in Stations \ {s} : /\ outbound[s][id].text \in received[r]
                                 /\ sessions[r][id].state = "Connected"
    /\ Markable(s, id)
    /\ sessions' = Mark(s, id, "Delivered")
    /\ outbound' = [outbound EXCEPT ![s][id] = NoTransfer]
    /\ UNCHANGED <<blocks, edited, nextId, retries, hellos, acks, sent,
                   received, granted>>

\* runLiveOutboundRetryCheck has no attempt left.
TextFails(s, id) ==
    /\ outbound[s][id] # NoTransfer
    /\ sessions' = IF Markable(s, id) THEN Mark(s, id, "Failed") ELSE sessions
    /\ outbound' = [outbound EXCEPT ![s][id] = NoTransfer]
    /\ UNCHANGED <<blocks, edited, nextId, retries, hellos, acks, sent,
                   received, granted>>

-----------------------------------------------------------------------------
Next ==
    \E s \in Stations :
        \/ \E list \in SUBSET (Stations \ {s}) : EditBlocks(s, list)
        \/ \E id \in Ids :
              \/ \E r \in Stations : StartSession(s, r, id)
              \/ CloseSession(s, id)
              \/ RetryCheck(s, id)
              \/ SendText(s, id)
              \/ QueueText(s, id)
              \/ \E r \in Stations : TextArrives(s, id, r)
              \/ TextAcked(s, id)
              \/ TextFails(s, id)
        \/ \E heard \in SUBSET (Stations \ {s}) :
              \/ \E item \in hellos[s] : SendHello(s, item, heard)
              \/ SendHelloAck(s, heard)

Spec == Init /\ [][Next]_vars

\* The retry timer of a station that has an entry in m_helloRetries fires:
\* every path of the adapter that leaves an entry starts it again.
Fairness == \A s \in Stations, id \in Ids : WF_vars(RetryCheck(s, id))

FairSpec == Spec /\ Fairness

-----------------------------------------------------------------------------
States == {"None", "Calling", "Connected", "Rejected", "Closed"}

Texts == 0 .. MaxTexts

Messages ==
    [direction : {"Outgoing"}, delivery : {"Pending", "Delivered", "Failed"},
     text : Texts]
    \cup [direction : {"Incoming"}, delivery : {"Received"}, text : Texts]

Frames == [id : Ids, attempt : 1 .. MaxAttempts]

\* The type of the state: in particular no call is sent more often than
\* maxAttempts allows.
TypeOK ==
    /\ blocks \in Lists
    /\ edited \subseteq Ids
    /\ sessions \in [Stations -> [Ids ->
         [state : States, remote : Stations \cup {NoStation},
          messages : Seq(Messages)]]]
    /\ nextId \in [Stations -> 1 .. MaxId + 1]
    /\ retries \in [Stations -> [Ids -> 0 .. MaxAttempts]]
    /\ hellos \in [Stations -> SUBSET Frames]
    /\ acks \in [Stations -> Seq([id : Ids, accepted : BOOLEAN])]
    /\ outbound \in [Stations -> [Ids -> [text : Texts, index : Nat]]]
    /\ sent \in Texts
    /\ received \in [Stations -> SUBSET Texts]
    /\ granted \in [Stations -> SUBSET Ids]

\* A session is connected because a station that decoded its HELLO accepted
\* it: one of the station's own calls, or one of its remote's that it
\* answered (FT2LinkAppModel.cpp:502-584).  Two stations alone on the
\* frequency keep it, although their ids are the same; three do not.
Answered ==
    \A s \in Stations, id \in Ids :
        sessions[s][id].state = "Connected" =>
            \/ id \in granted[s]
            \/ /\ sessions[s][id].remote # NoStation
               /\ id \in granted[sessions[s][id].remote]

\* A call that has no answer yet is in m_helloRetries, or nothing would ever
\* repeat it or give it up (FT2LinkQmlAdapter.cpp:22374-22458).
CallingIsRetried ==
    \A s \in Stations, id \in Ids :
        sessions[s][id].state = "Calling" => retries[s][id] > 0

\* A transfer under way belongs to a connected session, the only one whose
\* ACKs are read (FT2LinkQmlAdapter.cpp:10604-10618): any other can only run
\* out of attempts, whatever the other end received.  Only a refusal that
\* comes after a block list was edited takes the session from under it.
TransferNeedsSession ==
    \A s \in Stations, id \in Ids :
        outbound[s][id] # NoTransfer =>
            \/ sessions[s][id].state = "Connected"
            \/ sessions[s][id].state = "Rejected" /\ id \in edited

\* What HELLOs, answers, repetitions and closures leave true, lost and
\* crossed as they may be.
HandshakeInv == TypeOK /\ Answered /\ CallingIsRetried /\ TransferNeedsSession

\* A session is refused at one end and connected at the other only when a
\* block list was edited after its id had come into use.  A repeated HELLO
\* is judged by the list of the moment and the refusal takes the place of
\* the session accepted before (FT2LinkAppModel.cpp:627-635); when the answer
\* is lost the caller does not hear of it.  Without an edit no repetition,
\* crossing or loss sets the two ends at odds (doc/ft2-link-v0.1.md:204-209).
\* It takes a frequency of two stations.
DisagreementNeedsEdit ==
    \A s, r \in Stations, id \in Ids :
        /\ sessions[r][id].state = "Rejected"
        /\ sessions[r][id].remote = s
        /\ sessions[s][id].state = "Connected"
        /\ sessions[s][id].remote = r
        => id \in edited

\* Every call is answered, refused, closed or given up.
CallsEnd ==
    \A s \in Stations, id \in Ids :
        sessions[s][id].state = "Calling" ~> sessions[s][id].state # "Calling"
=============================================================================

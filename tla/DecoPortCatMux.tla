---------------------------- MODULE DecoPortCatMux ----------------------------
(***************************************************************************)
(* One radio line shared by several programs, in the radio's own protocol  *)
(* (src/src/net/DecoPortCatMux.cpp, with the dialects of                   *)
(* DecoPortCatFraming.cpp).  A tap is a TCP connection or the hidden end   *)
(* of a virtual serial pair; commands go to the radio one at a time, a     *)
(* reply goes to the tap whose command is in flight, and the tap that      *)
(* keyed the radio owns its PTT.                                           *)
(*                                                                         *)
(* A command is whole and carries who wrote it, a fact the code does not   *)
(* have: `by' and `gen' name the program, `gen' being its opening of the   *)
(* tap.  The programs and the radio are the environment.                   *)
(***************************************************************************)
EXTENDS Naturals, Sequences

CONSTANTS
    Tcp, Serial,    \* the taps: TCP connections, hidden ends of virtual pairs
    Trusted,        \* the taps the PTT prohibition does not bind
    Dialects,       \* of "text" (kenwood, newcat), "civ" and "silence" (yaesu5)
    Asked,          \* codes of the questions the programs ask
    Spontaneous,    \* codes of what the radio says of its own accord
    BusEcho,        \* CI-V: the bus repeats what it receives
    RefusesBusy,    \* a radio on the air may refuse another command to transmit
    Punctual,       \* what the radio says to a command comes before its timeout
    Unhurried,      \* a virtual port stays open, and closed, for a poll at least,
                    \* and is closed when what was written to it has been read
    NoTap,          \* m_keyedTap == -1, and the tap of the multiplexer's commands
    Nothing,        \* no command, nobody
    MaxOpens,       \* bound: openings of a tap
    MaxWrites,      \* bound: commands of all the programs
    MaxHeard        \* bound: replies on the line when the radio speaks unasked

Taps == Tcp \cup Serial

ASSUME MuxAssumption ==
    /\ Tcp \cap Serial = {} /\ Trusted \subseteq Taps
    /\ NoTap \notin Taps /\ Nothing \notin Taps
    /\ Dialects \subseteq {"text", "civ", "silence"}
    /\ BusEcho \in BOOLEAN /\ RefusesBusy \in BOOLEAN
    /\ Punctual \in BOOLEAN /\ Unhurried \in BOOLEAN
    /\ Asked # {}
    /\ MaxOpens \in Nat \ {0} /\ MaxWrites \in Nat /\ MaxHeard \in Nat

VARIABLES
    open, gen,      \* the program has the tap open; how many times it has opened it
    written,        \* commands the programs have written
    unread,         \* written to the tap, not yet read by the multiplexer
    connected,      \* the tap is in m_taps
    present,        \* Tap::clientPresent
    lastDsr,        \* Tap::lastDsr == 1
    inbox,          \* Tap::inbox (its timer runs while it is not empty)
    queue,          \* m_queue
    inFlight,       \* m_inFlight
    gotReply,       \* m_gotReply
    keyedTap,       \* m_keyedTap
    dialect,        \* m_dialect, set before the line is opened
    pttAllowed,     \* m_pttAllowed
    line,           \* the radio line: "open", "lost" or "closed"
    toRadio,        \* commands written to the line, not yet taken by the radio
    fromRadio,      \* what the radio said, not yet read
    onAir           \* whose command holds the radio in transmission

programs == <<open, gen, written>>
taps == <<connected, present, lastDsr, inbox>>
traffic == <<queue, inFlight, gotReply, keyedTap, toRadio>>
radio == <<fromRadio, onAir>>
vars == <<programs, unread, taps, traffic, dialect, pttAllowed, line, radio>>

Who == [by: Taps, gen: 1 .. MaxOpens]
Commands == [by: Taps, gen: 1 .. MaxOpens, what: {"key", "unkey", "ask"}, code: Asked]
                \cup [by: {NoTap}, gen: {0}, what: {"unkey"}, code: Asked]
Pending == [tap: Taps \cup {NoTap}, cmd: Commands]
Replies == [kind: {"answer", "error", "echo"}, of: Commands]
                \cup [kind: {"spontaneous"}, code: Spontaneous]

ASSUME NothingAssumption == Nothing \notin Who \cup Pending

(* releasePtt, as takeCommands reads it; a silence-framed dialect has none. *)
ReleaseCommand == [by |-> NoTap, gen |-> 0, what |-> "unkey", code |-> CHOOSE c \in Asked : TRUE]
Release == [tap |-> NoTap, cmd |-> ReleaseCommand]
KnowsPtt == dialect # "silence"

(* A virtual port may have been opened before its tap is made               *)
(* (addSerialTap).                                                          *)
Init == /\ \E up \in SUBSET Serial :
              /\ open = [t \in Taps |-> t \in up]
              /\ gen = [t \in Taps |-> IF t \in up THEN 1 ELSE 0]
              /\ present = [t \in Taps |-> t \in up]
              /\ lastDsr = [t \in Taps |-> t \in up]
        /\ written = 0
        /\ unread = [t \in Taps |-> <<>>]
        /\ connected = [t \in Taps |-> t \in Serial]
        /\ inbox = [t \in Taps |-> <<>>]
        /\ queue = <<>> /\ inFlight = Nothing /\ gotReply = FALSE
        /\ keyedTap = NoTap
        /\ dialect \in Dialects
        /\ pttAllowed \in BOOLEAN
        /\ line = "open"
        /\ toRadio = <<>> /\ fromRadio = <<>>
        /\ onAir = Nothing

-----------------------------------------------------------------------------
(* Framing: which reply closes the command in flight. *)

ExpectsReply(c) == dialect = "civ" \/ c.what = "ask"

SameBytes(c, d) == c.what = d.what /\ c.code = d.code

(* classify: a text reply by its code, a CI-V frame by its addresses alone  *)
(* (what the radio says of its own accord is addressed to everybody), and   *)
(* anything in a dialect framed by silences.                                *)
Classify(flight, r) ==
    LET text == \/ r.kind = "error"
                \/ /\ ExpectsReply(flight.cmd)
                   /\ (IF r.kind = "spontaneous" THEN r.code ELSE r.of.code) = flight.cmd.code
        civ  == IF r.kind = "echo" /\ SameBytes(r.of, flight.cmd) THEN "echo"
                ELSE IF r.kind \in {"echo", "spontaneous"} THEN "unsolicited" ELSE "answer"
    IN IF flight = Nothing THEN "unsolicited"
       ELSE CASE dialect = "silence" -> "chunk"
              [] dialect = "text" -> IF text THEN "answer" ELSE "unsolicited"
              [] dialect = "civ" -> civ

-----------------------------------------------------------------------------
(* The queue. *)

(* The entries of s at the places in I, in their order. *)
Those(s, I) ==
    LET upTo[i \in 0 .. Len(s)] == IF i = 0 THEN <<>>
                                   ELSE IF i \in I THEN Append(upTo[i - 1], s[i])
                                   ELSE upTo[i - 1]
    IN upTo[Len(s)]

\* Mutant: the first to key stays the owner when another program keys.
FirstOwnerKept(key, p) ==
    IF ~KnowsPtt THEN key
    ELSE CASE p.cmd.what = "key" -> IF key = NoTap THEN p.tap ELSE key
           [] p.cmd.what = "unkey" -> NoTap
           [] OTHER -> key

(* pump: m_keyedTap after a command has been written. *)
OwnerAfter(key, p) ==
    IF ~KnowsPtt THEN key
    ELSE CASE p.cmd.what = "key" -> p.tap
           [] p.cmd.what = "unkey" -> NoTap
           [] OTHER -> key

\* Mutant: the next command is written while one is in flight.
PumpImpatient(q, flight, key, got) ==
    IF q # <<>> /\ line # "closed"
    THEN /\ queue' = Tail(q)
         /\ inFlight' = Head(q)
         /\ gotReply' = FALSE
         /\ keyedTap' = OwnerAfter(key, Head(q))
         /\ toRadio' = IF line = "open" THEN Append(toRadio, Head(q).cmd) ELSE toRadio
    ELSE /\ queue' = q /\ inFlight' = flight /\ gotReply' = got /\ keyedTap' = key
         /\ UNCHANGED toRadio

(* pump, called with the queue, the command in flight and the owner that    *)
(* its caller leaves.  A lost line swallows what is written to it.          *)
Pump(q, flight, key, got) ==
    IF flight = Nothing /\ q # <<>> /\ line # "closed"
    THEN /\ queue' = Tail(q)
         /\ inFlight' = Head(q)
         /\ gotReply' = FALSE
         /\ keyedTap' = OwnerAfter(key, Head(q))
         /\ toRadio' = IF line = "open" THEN Append(toRadio, Head(q).cmd) ELSE toRadio
    ELSE /\ queue' = q /\ inFlight' = flight /\ gotReply' = got /\ keyedTap' = key
         /\ UNCHANGED toRadio

\* Mutant: finish does not pump.
FinishIdle == inFlight' = Nothing /\ UNCHANGED <<queue, gotReply, keyedTap, toRadio>>

(* finish *)
Finish == Pump(queue, Nothing, keyedTap, gotReply)

(* takeTapCommands: what is refused never enters the queue. *)
Refused(t, c) == KnowsPtt /\ c.what = "key" /\ ~pttAllowed /\ t \notin Trusted

\* Mutant: the prohibition is not looked at.
TakeEverything(t, cmds) ==
    Pump(queue \o [i \in DOMAIN cmds |-> [tap |-> t, cmd |-> cmds[i]]],
         inFlight, keyedTap, gotReply)

TakeTapCommands(t, cmds) ==
    LET taken == Those(cmds, {i \in DOMAIN cmds : ~Refused(t, cmds[i])}) IN
    Pump(queue \o [i \in DOMAIN taken |-> [tap |-> t, cmd |-> taken[i]]],
         inFlight, keyedTap, gotReply)

(* onTapData *)
OnTapData(t) ==
    /\ connected[t] /\ unread[t] # <<>>
    /\ unread' = [unread EXCEPT ![t] = <<>>]
    /\ present' = [present EXCEPT ![t] = TRUE]
    /\ IF dialect = "silence"
       THEN inbox' = [inbox EXCEPT ![t] = @ \o unread[t]] /\ UNCHANGED traffic
       ELSE TakeTapCommands(t, unread[t]) /\ UNCHANGED inbox
    /\ UNCHANGED <<programs, connected, lastDsr, dialect, pttAllowed, line, radio>>

(* Tap::coalesce times out. *)
Coalesced(t) ==
    /\ connected[t] /\ inbox[t] # <<>>
    /\ inbox' = [inbox EXCEPT ![t] = <<>>]
    /\ TakeTapCommands(t, inbox[t])
    /\ UNCHANGED <<programs, unread, connected, present, lastDsr, dialect, pttAllowed, line, radio>>

(* onPhysicalData, one reply at a time. *)
OnPhysicalData ==
    /\ line = "open" /\ fromRadio # <<>>
    /\ fromRadio' = Tail(fromRadio)
    /\ CASE Classify(inFlight, Head(fromRadio)) = "answer" -> Finish
         [] Classify(inFlight, Head(fromRadio)) = "chunk" ->
                gotReply' = TRUE /\ UNCHANGED <<queue, inFlight, keyedTap, toRadio>>
         [] OTHER -> UNCHANGED traffic
    /\ UNCHANGED <<programs, unread, taps, dialect, pttAllowed, line, onAir>>

(* What the radio will say, or is saying, to the command in flight. *)
Awaited == /\ inFlight # Nothing
           /\ \/ \E i \in DOMAIN toRadio : toRadio[i] = inFlight.cmd
              \/ \E i \in DOMAIN fromRadio :
                    fromRadio[i].kind # "spontaneous" /\ fromRadio[i].of = inFlight.cmd

(* m_timeout, and m_silence after the first chunk. *)
Timeout == /\ inFlight # Nothing
           /\ Punctual => ~Awaited
           /\ Finish
           /\ UNCHANGED <<programs, unread, taps, dialect, pttAllowed, line, radio>>

-----------------------------------------------------------------------------
(* Who goes away. *)

\* Mutant: what a tap that goes had in the queue stays there.
NobodyPurged(t) == queue

Others(t) == Those(queue, {i \in DOMAIN queue : queue[i].tap # t})

\* Mutant: the release waits its turn.
ReleaseLast(t, flight) ==
    /\ present' = [present EXCEPT ![t] = FALSE]
    /\ inbox' = [inbox EXCEPT ![t] = <<>>]
    /\ IF keyedTap = t THEN Pump(Append(Others(t), Release), flight, NoTap, gotReply)
       ELSE /\ queue' = Others(t) /\ inFlight' = flight
            /\ UNCHANGED <<gotReply, keyedTap, toRadio>>

\* Mutant: the release is dropped when a command is in flight.
ReleaseIfIdle(t, flight) ==
    /\ present' = [present EXCEPT ![t] = FALSE]
    /\ inbox' = [inbox EXCEPT ![t] = <<>>]
    /\ IF keyedTap = t /\ flight = Nothing
       THEN Pump(<<Release>> \o Others(t), flight, NoTap, gotReply)
       ELSE /\ queue' = Others(t) /\ inFlight' = flight
            /\ UNCHANGED <<gotReply, keyedTap, toRadio>>

(* clientGone, with what its caller leaves in flight. *)
ClientGone(t, flight) ==
    /\ present' = [present EXCEPT ![t] = FALSE]
    /\ inbox' = [inbox EXCEPT ![t] = <<>>]
    /\ IF keyedTap = t THEN Pump(<<Release>> \o Others(t), flight, NoTap, gotReply)
       ELSE /\ queue' = Others(t) /\ inFlight' = flight
            /\ UNCHANGED <<gotReply, keyedTap, toRadio>>

(* clientGone, then removeTap: the command in flight has nobody to answer.  *)
GoneForGood(t) ==
    /\ connected' = [connected EXCEPT ![t] = FALSE]
    /\ unread' = [unread EXCEPT ![t] = <<>>]
    /\ ClientGone(t, IF inFlight # Nothing /\ inFlight.tap = t
                     THEN [inFlight EXCEPT !.tap = NoTap] ELSE inFlight)
    /\ UNCHANGED <<gen, written, lastDsr, dialect, pttAllowed, line, radio>>

(* QTcpSocket::disconnected.  What a closed socket still held is read       *)
(* first, or lost if the connection was reset.                              *)
Disconnected(t) ==
    /\ t \in Tcp /\ connected[t] /\ ~open[t]
    /\ GoneForGood(t) /\ UNCHANGED open

(* DecoPortSerialLine::lost of a tap: the virtual pair is gone.             *)
PairLost(t) ==
    /\ t \in Serial /\ connected[t]
    /\ open' = [open EXCEPT ![t] = FALSE]
    /\ GoneForGood(t)

(* pollPins, for a tap where it finds something changed. *)
PollPins(t) ==
    /\ t \in Serial /\ connected[t] /\ line # "closed"
    /\ \/ lastDsr[t] # open[t]
       \/ open[t] /\ ~present[t]
    /\ lastDsr' = [lastDsr EXCEPT ![t] = open[t]]
    /\ IF open[t] THEN present' = [present EXCEPT ![t] = TRUE] /\ UNCHANGED <<inbox, traffic>>
       ELSE ClientGone(t, inFlight)
    /\ UNCHANGED <<programs, unread, connected, dialect, pttAllowed, line, radio>>

(* DecoPortSerialLine::lost of the radio line. *)
LineLost ==
    /\ line = "open"
    /\ line' = "lost"
    /\ queue' = <<>> /\ inFlight' = Nothing
    /\ toRadio' = <<>> /\ fromRadio' = <<>>
    /\ UNCHANGED <<programs, unread, taps, gotReply, keyedTap, dialect, pttAllowed, onAir>>

\* Mutant: close leaves the radio as it is.
CloseSilently ==
    /\ line # "closed"
    /\ line' = "closed"
    /\ keyedTap' = NoTap
    /\ queue' = <<>> /\ inFlight' = Nothing
    /\ connected' = [t \in Taps |-> FALSE]
    /\ present' = [t \in Taps |-> FALSE]
    /\ inbox' = [t \in Taps |-> <<>>]
    /\ UNCHANGED <<programs, unread, lastDsr, toRadio, gotReply, dialect, pttAllowed, radio>>

(* close: a release if m_keyedTap says someone holds the radio, then the    *)
(* queue, the command in flight, the taps and the line.                     *)
Close ==
    /\ line # "closed"
    /\ line' = "closed"
    /\ toRadio' = IF keyedTap # NoTap /\ line = "open" THEN Append(toRadio, ReleaseCommand)
                  ELSE toRadio
    /\ keyedTap' = NoTap
    /\ queue' = <<>> /\ inFlight' = Nothing
    /\ connected' = [t \in Taps |-> FALSE]
    /\ present' = [t \in Taps |-> FALSE]
    /\ inbox' = [t \in Taps |-> <<>>]
    /\ UNCHANGED <<programs, unread, lastDsr, gotReply, dialect, pttAllowed, radio>>

(* setPttAllowed, from DecodiumNativeCatShare::configure. *)
SetPttAllowed(b) ==
    /\ line # "closed" /\ pttAllowed # b
    /\ pttAllowed' = b
    /\ UNCHANGED <<programs, unread, taps, traffic, dialect, line, radio>>

-----------------------------------------------------------------------------
(* The programs. *)

Open(t) ==
    /\ ~open[t] /\ gen[t] < MaxOpens /\ line # "closed"
    /\ connected[t] = (t \in Serial)
    /\ t \in Serial /\ Unhurried => ~lastDsr[t]
    /\ open' = [open EXCEPT ![t] = TRUE]
    /\ gen' = [gen EXCEPT ![t] = @ + 1]
    /\ connected' = [connected EXCEPT ![t] = TRUE]
    /\ present' = IF t \in Tcp THEN [present EXCEPT ![t] = TRUE] ELSE present
    /\ UNCHANGED <<written, unread, lastDsr, inbox, traffic, dialect, pttAllowed, line, radio>>

Write(t, what, code) ==
    /\ open[t] /\ written < MaxWrites
    /\ written' = written + 1
    /\ unread' = [unread EXCEPT ![t] =
          Append(@, [by |-> t, gen |-> gen[t], what |-> what, code |-> code])]
    /\ UNCHANGED <<open, gen, taps, traffic, dialect, pttAllowed, line, radio>>

Leave(t) ==
    /\ open[t]
    /\ t \in Serial /\ Unhurried => unread[t] = <<>> /\ lastDsr[t]
    /\ open' = [open EXCEPT ![t] = FALSE]
    /\ UNCHANGED <<gen, written, unread, taps, traffic, dialect, pttAllowed, line, radio>>

-----------------------------------------------------------------------------
(* The radio. *)

SaysOf(c) ==
    LET echo == IF dialect = "civ" /\ BusEcho THEN <<[kind |-> "echo", of |-> c]>> ELSE <<>>
        reply(k) == echo \o <<[kind |-> k, of |-> c]>>
    IN IF c.what = "ask" THEN {echo, reply("answer"), reply("error")}
       ELSE IF dialect = "civ" THEN {reply("answer")} ELSE {<<>>}

(* It obeys, or refuses to transmit; it never refuses to stop. *)
RadioTakes ==
    /\ toRadio # <<>>
    /\ toRadio' = Tail(toRadio)
    /\ \/ /\ \E says \in SaysOf(Head(toRadio)) : fromRadio' = fromRadio \o says
          /\ onAir' = CASE Head(toRadio).what = "key" ->
                                [by |-> Head(toRadio).by, gen |-> Head(toRadio).gen]
                        [] Head(toRadio).what = "unkey" -> Nothing
                        [] OTHER -> onAir
       \/ /\ Head(toRadio).what = "key" /\ KnowsPtt
          /\ onAir = Nothing \/ RefusesBusy
          /\ fromRadio' = Append(fromRadio, [kind |-> "error", of |-> Head(toRadio)])
          /\ UNCHANGED onAir
    /\ UNCHANGED <<programs, unread, taps, queue, inFlight, gotReply, keyedTap, dialect, pttAllowed, line>>

(* AI, transceive. *)
RadioSpeaks(code) ==
    /\ line = "open" /\ Len(fromRadio) < MaxHeard
    /\ fromRadio' = Append(fromRadio, [kind |-> "spontaneous", code |-> code])
    /\ UNCHANGED <<programs, unread, taps, traffic, dialect, pttAllowed, line, onAir>>

-----------------------------------------------------------------------------
Next == \/ \E t \in Taps : \/ Open(t) \/ Leave(t)
                           \/ \E what \in {"key", "unkey", "ask"}, code \in Asked : Write(t, what, code)
                           \/ OnTapData(t) \/ Coalesced(t) \/ Disconnected(t) \/ PairLost(t)
                           \/ PollPins(t)
        \/ OnPhysicalData \/ Timeout \/ LineLost \/ Close
        \/ \E b \in BOOLEAN : SetPttAllowed(b)
        \/ RadioTakes
        \/ \E code \in Spontaneous : RadioSpeaks(code)

(* The event loop delivers what is ready and its timers expire; the radio   *)
(* takes what it is sent.  Nothing is asked of the programs.                *)
Fairness == /\ \A t \in Taps : /\ WF_vars(OnTapData(t)) /\ WF_vars(Coalesced(t))
                               /\ WF_vars(Disconnected(t)) /\ WF_vars(PollPins(t))
            /\ WF_vars(OnPhysicalData) /\ WF_vars(Timeout) /\ WF_vars(RadioTakes)

Spec == Init /\ [][Next]_vars /\ Fairness

-----------------------------------------------------------------------------
TypeOK ==
    /\ open \in [Taps -> BOOLEAN] /\ gen \in [Taps -> 0 .. MaxOpens]
    /\ written \in 0 .. MaxWrites
    /\ unread \in [Taps -> Seq(Commands)] /\ inbox \in [Taps -> Seq(Commands)]
    /\ connected \in [Taps -> BOOLEAN] /\ present \in [Taps -> BOOLEAN]
    /\ lastDsr \in [Taps -> BOOLEAN]
    /\ queue \in Seq(Pending) /\ inFlight \in Pending \cup {Nothing}
    /\ gotReply \in BOOLEAN
    /\ keyedTap \in Taps \cup {NoTap}
    /\ dialect \in Dialects /\ pttAllowed \in BOOLEAN /\ line \in {"open", "lost", "closed"}
    /\ toRadio \in Seq(Commands) /\ fromRadio \in Seq(Replies)
    /\ onAir \in Who \cup {Nothing}
    /\ \A i \in DOMAIN queue : queue[i].tap # NoTap => connected[queue[i].tap]
    /\ inFlight # Nothing /\ inFlight.tap # NoTap => connected[inFlight.tap]

(* A reply that closes the command in flight is the radio's reply to that   *)
(* very command, whatever else has timed out, gone away or been said by the *)
(* radio in between: one command at a time is enough to know whose reply    *)
(* each one is.                                                             *)
AnswersBelong ==
    /\ line = "open" /\ fromRadio # <<>>
    /\ Classify(inFlight, Head(fromRadio)) \in {"answer", "echo"}
    => Head(fromRadio).kind # "spontaneous" /\ Head(fromRadio).of = inFlight.cmd

(* Who will hold the radio once it has taken everything written to it. *)
PttAt == {i \in DOMAIN toRadio : toRadio[i].what # "ask"}
LastPtt == toRadio[CHOOSE i \in PttAt : \A j \in PttAt : j <= i]
Holder == IF PttAt = {} THEN onAir
          ELSE IF LastPtt.what = "key" THEN [by |-> LastPtt.by, gen |-> LastPtt.gen] ELSE Nothing

ReleaseQueued == \E i \in DOMAIN queue : queue[i] = Release

(* The PTT has an owner (DecoPortCatMux.h:34): while the line is up, either *)
(* m_keyedTap is the tap of whoever holds, or is about to hold, the radio   *)
(* in transmission, so that its leaving will release it, or the release is  *)
(* already waiting.  A key, an unkey, a departure and the queue in any      *)
(* order never leave the radio to nobody.                                   *)
PttHasAnOwner ==
    line = "open" /\ KnowsPtt /\ Holder # Nothing => keyedTap = Holder.by \/ ReleaseQueued

(* The release of a radio left on the air waits for nobody but the command  *)
(* in flight, and there is one of them at most (clientGone, "Davanti a      *)
(* tutti").                                                                 *)
ReleaseFirst == \A i \in DOMAIN queue : queue[i] = Release => i = 1

(* What the taps, the timers and the radio leave true of the one line they  *)
(* share.                                                                   *)
MuxInv == TypeOK /\ AnswersBelong /\ PttHasAnOwner /\ ReleaseFirst

(* Once transmission is forbidden and the keying commands that untrusted    *)
(* programs had in the queue are gone, none of theirs can reach the radio.  *)
Untrusted(c) == c.what = "key" /\ c.by \in Taps \ Trusted
WaitingToKey == \E i \in DOMAIN queue : Untrusted(queue[i].cmd)
KeysAfter == \E i \in DOMAIN toRadio' : Untrusted(toRadio'[i]) /\ Len(toRadio') > Len(toRadio)
                                        /\ i = Len(toRadio')
ForbiddenDies ==
    [][KnowsPtt /\ ~pttAllowed /\ ~WaitingToKey => ~WaitingToKey' /\ ~KeysAfter]_vars

(* A radio keyed by a program that has gone goes back to receive, or to     *)
(* another program that keyed it, unless the line goes first.               *)
Abandoned(t) == /\ onAir # Nothing /\ onAir.by = t
                /\ ~(open[t] /\ gen[t] = onAir.gen)
Released ==
    \A t \in Taps : (KnowsPtt /\ line = "open" /\ Abandoned(t)) ~> (line # "open" \/ ~Abandoned(t))

(* Whatever the radio does or says, a command read from a tap does not      *)
(* stay in the queue.                                                       *)
Waiting(t) == \E i \in DOMAIN queue : queue[i].tap = t
Served == \A t \in Taps : Waiting(t) ~> ~Waiting(t)

(* Closing finds the radio on the air only if its release was still in the  *)
(* queue: whoever holds it is m_keyedTap, and close() releases it.          *)
ClosedReleases ==
    [][line = "open" /\ line' = "closed" /\ KnowsPtt /\ ~ReleaseQueued => Holder' = Nothing]_vars
=============================================================================

------------------------------- MODULE DecolinkPtt ------------------------------
(***************************************************************************)
(* Who is on the air with a remote radio shared through Decolink           *)
(* (src/src/net/DecolinkLink.cpp, and the remote transmission of           *)
(* src/src/bridge/DecodiumBridge.cpp): PTT commands and their answers in   *)
(* datagrams, the notices that another operator has the turn, the audio    *)
(* in its queue, the watch that lets go of a PTT nobody feeds.             *)
(*                                                                         *)
(* The relay and the station are not of this program: they obey a PTT      *)
(* command unless another operator has the turn, and tell of that one.     *)
(* Frequency, mode and the poll of the radio are left out; so is the       *)
(* reordering of datagrams, and what holds here without it.                *)
(***************************************************************************)
EXTENDS Integers, Sequences

CONSTANTS
    Sessions,   \* bound: transmissions asked for
    Pieces,     \* of audio in a transmission, each a turn of the pacer
    Turns,      \* bound: times the other operator transmits
    Mishaps     \* bound: datagrams lost, times the relay is silent for 12 s
                \* and times the connection to it is closed, together

ASSUME PttAssumption == /\ Sessions \in Nat /\ Pieces \in Nat /\ Turns \in Nat
                        /\ Mishaps \in Nat

VARIABLES
    open,       \* m_socket
    linked,     \* m_registered and m_gatewayUp
    requested,  \* m_pttRequested
    holder,     \* m_txHolder is another operator
    queue,      \* m_txSamples: the transmission each piece is of
    pending,    \* m_pending, of the PTT commands
    seq,        \* m_catSeq
    tx,         \* the bridge is transmitting
    left,       \* m_decoPortTxFrames still to hand over
    session,    \* the transmission begun last
    up, down,   \* datagrams to the station and from it
    radio,      \* on the air for "us", for the "other", or for nobody: "none"
    turns, lost, silent, closed     \* how often it has happened

link == <<open, linked, requested, holder, queue, pending, seq>>
bridge == <<tx, left, session>>
outside == <<up, down, radio, turns, lost, silent, closed>>
pttVars == <<link, bridge, outside>>

PttInit == /\ open = TRUE /\ linked = TRUE /\ requested = FALSE /\ holder = FALSE
           /\ queue = <<>> /\ pending = {} /\ seq = 0
           /\ tx = FALSE /\ left = 0 /\ session = 0
           /\ up = <<>> /\ down = <<>> /\ radio = "none"
           /\ turns = 0 /\ lost = 0 /\ silent = 0 /\ closed = 0

-----------------------------------------------------------------------------
(* sendCat, n times the same command: nothing is sent while the relay does  *)
(* not answer.                                                              *)
SendCat(on, n) ==
    LET k == IF linked THEN n ELSE 0
    IN /\ seq' = seq + k
       /\ up' = up \o [i \in 1 .. k |-> [on |-> on, seq |-> seq + i]]
       /\ pending' = pending \cup (seq + 1 .. seq + k)

(* setPtt, past its guards, and releasePttNow *)
SetPtt(on) == requested' = on /\ SendCat(on, 1)

(* decoPortSendTxWave: the bridge begins a transmission. *)
SendTxWave == /\ ~tx /\ open /\ linked /\ ~holder
              /\ session < Sessions
              /\ tx' = TRUE /\ left' = Pieces /\ session' = session + 1
              /\ SetPtt(TRUE)
              /\ UNCHANGED <<open, linked, holder, queue, down, radio, turns, lost, silent, closed>>

\* Mutant: the frames not handed over are kept.
StopTxKeepsFrames ==
    /\ tx
    /\ tx' = FALSE /\ left' = left
    /\ IF linked THEN SetPtt(FALSE) ELSE UNCHANGED <<requested, seq, pending, up>>
    /\ UNCHANGED <<session, open, linked, holder, queue, down, radio, turns, lost, silent, closed>>

\* Mutant: a release is sent only for a PTT that is still requested.
StopTxTrusting ==
    /\ tx
    /\ tx' = FALSE /\ left' = 0
    /\ IF linked /\ requested THEN SetPtt(FALSE) ELSE UNCHANGED <<requested, seq, pending, up>>
    /\ UNCHANGED <<session, open, linked, holder, queue, down, radio, turns, lost, silent, closed>>

(* decoPortStopTx: the operator stops, or the waveform is over. *)
StopTx == /\ tx
          /\ tx' = FALSE /\ left' = 0
          /\ IF linked THEN SetPtt(FALSE) ELSE UNCHANGED <<requested, seq, pending, up>>
          /\ UNCHANGED <<session, open, linked, holder, queue, down, radio, turns, lost, silent, closed>>

(* decoPortPumpTxFrames: what sendTxAudio is given while another operator   *)
(* has the turn is dropped, what it is given while audio is being sent is   *)
(* put behind that.  With the link lost the rest is given up.               *)
Pump == /\ left > 0
        /\ left' = IF linked THEN left - 1 ELSE 0
        /\ queue' = IF linked /\ ~holder THEN Append(queue, session) ELSE queue
        /\ UNCHANGED <<tx, session, open, linked, requested, holder, pending, seq, outside>>

LoseTurn == requested' = FALSE /\ queue' = <<>>

(* onTxTick *)
TxTick == /\ queue # <<>>
          /\ queue' = Tail(queue)
          /\ UNCHANGED <<open, linked, requested, holder, pending, seq, bridge, outside>>

(* onWatch: three seconds without audio. *)
Watch == /\ requested /\ queue = <<>> /\ (left = 0 \/ ~linked)
         /\ SetPtt(FALSE)
         /\ UNCHANGED <<open, linked, holder, queue, bridge, down, radio, turns, lost, silent, closed>>

(* onWatch forgets a command that has not been answered for three seconds. *)
Forget == /\ \E s \in pending : pending' = pending \ {s}
          /\ UNCHANGED <<open, linked, requested, holder, queue, seq, bridge, outside>>

\* Mutant: a notice is only shown.
HandleTxStateShown(busy) == holder' = busy /\ UNCHANGED <<requested, queue>>

HandleTxState(busy) ==
    /\ holder' = busy
    /\ IF busy /\ ~holder /\ (requested \/ queue # <<>>)
       THEN LoseTurn ELSE UNCHANGED <<requested, queue>>

(* handleCatResponse, of a PTT command *)
HandleCatResponse(r) ==
    /\ pending' = pending \ {r.seq}
    /\ IF r.seq \in pending /\ r.refused THEN LoseTurn ELSE UNCHANGED <<requested, queue>>
    /\ UNCHANGED holder

(* onDatagrams *)
OnDatagrams == /\ down # <<>>
               /\ down' = Tail(down)
               /\ IF ~open THEN UNCHANGED <<requested, queue, holder, pending>>
                  ELSE IF Head(down).kind = "state"
                  THEN HandleTxState(Head(down).busy) /\ UNCHANGED pending
                  ELSE HandleCatResponse(Head(down))
               /\ UNCHANGED <<open, linked, seq, bridge, up, radio, turns, lost, silent, closed>>

Another == lost + silent + closed < Mishaps

(* onWatch: the relay is silent; onDatagrams: it answers again. *)
Silent == /\ Another /\ linked
          /\ linked' = FALSE /\ silent' = silent + 1
          /\ UNCHANGED <<open, requested, holder, queue, pending, seq, bridge,
                         up, down, radio, turns, lost, closed>>

Back == /\ open /\ ~linked
        /\ linked' = TRUE
        /\ UNCHANGED <<open, requested, holder, queue, pending, seq, bridge, outside>>

\* Mutant: the relay is left without a word.
CloseSilently == /\ Another /\ open
                 /\ closed' = closed + 1
                 /\ open' = FALSE /\ linked' = FALSE /\ requested' = FALSE
                 /\ holder' = FALSE /\ queue' = <<>> /\ pending' = {}
                 /\ UNCHANGED <<seq, bridge, up, down, radio, turns, lost, silent>>

(* closeRelay *)
Close == /\ Another /\ open
         /\ closed' = closed + 1
         /\ open' = FALSE /\ linked' = FALSE /\ requested' = FALSE
         /\ holder' = FALSE /\ queue' = <<>> /\ pending' = {}
         /\ LET k == IF requested /\ linked THEN 3 ELSE 0
            IN /\ seq' = seq + k
               /\ up' = up \o [i \in 1 .. k |-> [on |-> FALSE, seq |-> seq + i]]
         /\ UNCHANGED <<bridge, down, radio, turns, lost, silent>>

(* The connection to the relay is made again. *)
Reopen == /\ ~open /\ open' = TRUE
          /\ UNCHANGED <<linked, requested, holder, queue, pending, seq, bridge, outside>>

-----------------------------------------------------------------------------
(* The relay and the station. *)
Obey == /\ up # <<>>
        /\ up' = Tail(up)
        /\ LET c == Head(up)
               refused == radio = "other"
           IN /\ radio' = IF refused THEN radio ELSE IF c.on THEN "us" ELSE "none"
              /\ down' = Append(down, [kind |-> "reply", seq |-> c.seq, refused |-> refused])
        /\ UNCHANGED <<link, bridge, turns, lost, silent, closed>>

TakeTurn == /\ radio = "none" /\ turns < Turns
            /\ turns' = turns + 1
            /\ radio' = "other"
            /\ down' = Append(down, [kind |-> "state", busy |-> TRUE])
            /\ UNCHANGED <<link, bridge, up, lost, silent, closed>>

EndTurn == /\ radio = "other" /\ radio' = "none"
           /\ down' = Append(down, [kind |-> "state", busy |-> FALSE])
           /\ UNCHANGED <<link, bridge, up, turns, lost, silent, closed>>

LoseDatagram == /\ Another
                /\ lost' = lost + 1
                /\ \/ up # <<>> /\ up' = Tail(up) /\ UNCHANGED down
                   \/ down # <<>> /\ down' = Tail(down) /\ UNCHANGED up
                /\ UNCHANGED <<link, bridge, radio, turns, silent, closed>>

PttNext == \/ SendTxWave \/ StopTx \/ Pump \/ TxTick \/ Watch \/ Forget \/ OnDatagrams
           \/ Silent \/ Back \/ Close \/ Reopen
           \/ Obey \/ TakeTurn \/ EndTurn \/ LoseDatagram

(* The timers of the link and of the bridge run, the one that ends a        *)
(* transmission among them, and datagrams that are not lost arrive.  The    *)
(* other operator need not ever stop.                                       *)
Fairness == WF_pttVars(StopTx) /\ WF_pttVars(Pump) /\ WF_pttVars(TxTick)
            /\ WF_pttVars(Watch) /\ WF_pttVars(OnDatagrams) /\ WF_pttVars(Obey)

PttSpec == PttInit /\ [][PttNext]_pttVars /\ Fairness

-----------------------------------------------------------------------------
PttTypeOK ==
    /\ {open, linked, requested, holder, tx} \subseteq BOOLEAN
    /\ queue \in Seq(1 .. Sessions) /\ Len(queue) <= Sessions * Pieces
    /\ pending \subseteq 1 .. seq
    /\ left \in 0 .. Pieces /\ session \in 0 .. Sessions /\ (left > 0 => tx)
    /\ radio \in {"us", "other", "none"}
    /\ turns \in 0 .. Turns /\ {lost, silent, closed} \subseteq 0 .. Mishaps
    /\ linked \/ requested => open

(* While another operator is known to have the turn, nothing is asked for   *)
(* and no audio is kept that would go out when that one stops               *)
(* (handleTxState, setPtt, sendTxAudio).                                    *)
TurnRespected == holder => ~requested /\ queue = <<>>

(* What the timers, the operator and the relay leave true of a turn.        *)
TurnInv == PttTypeOK /\ TurnRespected

(* A radio that is on the air for this program without any audio is let go: *)
(* "PTT acceso senza audio che lo giustifichi: si molla" (onWatch), as      *)
(* long as the release can reach it.  A release is sent once and not        *)
(* repeated, never while the relay is silent, and not by closeRelay when    *)
(* the notice of another operator's turn has cleared m_pttRequested; these  *)
(* are the exceptions.                                                      *)
IdleIsReleased ==
    (radio = "us" /\ queue = <<>>)
        ~> \/ radio # "us" \/ queue # <<>>
           \/ lost > 0 \/ silent > 0 \/ (closed > 0 /\ turns > 0)
=============================================================================

---------------------------- MODULE SstvTxBridge ----------------------------
(***************************************************************************)
(* The SSTV part of DecodiumBridge (src/src/bridge/DecodiumBridgeSstv.cpp) *)
(* around the coordinator: the hooks, the 20 ms timer, the callbacks       *)
(* posted to the owner thread, the ownership of the transmit path, the     *)
(* sound output, and the CAT worker with the radio behind it.              *)
(*                                                                         *)
(* The bridge sends PTT commands into the queue of the CAT worker thread   *)
(* and learns of the radio's PTT from reports the worker sends back        *)
(* (DecodiumTransceiverManager::setRigPtt, m_pttActive): a command is not  *)
(* done when it is sent, and the last report can be out of date.  The CAT  *)
(* connection itself does not break in this model.                         *)
(***************************************************************************)
EXTENDS SstvTxCoordinator, Sequences

CONSTANTS
    Vox,            \* the audio keys the radio, or there is none: no CAT PTT
    MaxGap,         \* longest delay between two calls (a bound)
    MaxStarts,      \* sessions begun in one behaviour (a bound)
    MaxQueue        \* commands that wait for the CAT worker (a bound)

ASSUME BridgeAssumption ==
    Vox \in BOOLEAN /\ MaxGap \in Nat /\ MaxStarts \in Nat
    /\ MaxQueue \in Nat

VARIABLES
    machine, coordinator,   \* m_sstvTxCoordinator
    owns,       \* m_sstvOwnsBridgeTx, and with it m_transmitting
    posted,     \* callbacks on their way to the owner thread
    due,        \* the 20 ms timer has fired, its handler has not run
    playing,    \* the tracked playback: its session, the frames played
    cat,        \* PTT commands queued for the CAT worker
    keyed,      \* the radio transmits
    report,     \* the PTT report on its way to the bridge, if any
    fb,         \* m_pttActive: the last report to arrive
    down        \* m_sstvTxShuttingDown

bridgeVars == <<machine, coordinator, owns, posted, due, playing, cat, keyed,
                report, fb, down>>

Silence == [session |-> 0, heard |-> 0]

BridgeInit ==
    \* initialiseSstvTx has enabled the coordinator
    /\ machine = [NewMachine EXCEPT !.enabled = TRUE, !.state = "Idle"]
    /\ coordinator = NewCoordinator
    /\ owns = FALSE /\ posted = {} /\ due = FALSE /\ playing = Silence
    /\ cat = <<>> /\ keyed = FALSE /\ report = {} /\ fb = FALSE
    /\ down = FALSE

\* requestPttOn: canStart has found the path free; requestPttOff always
\* queues its command; detachAudio always stops the tracked playback
HookAnswers == [on : {TRUE}, off : {TRUE}, start : BOOLEAN, detach : {TRUE}]

\* What the hooks called in a run did, after the callback "handled"
Settle(run, handled) == \E y \in {run} :
    /\ machine' = y.tx /\ coordinator' = y.co
    /\ owns' = IF "on" \in y.calls THEN TRUE ELSE owns /\ ~y.over
    /\ playing' = IF "detach" \in y.calls THEN Silence
                  ELSE IF "start" \in y.calls
                  THEN [session |-> y.co.session, heard |-> 0]
                  ELSE playing
    /\ posted' =
         (posted \ handled)
         \cup (IF "on" \in y.calls /\ Vox
               THEN {<<"confirmed", y.co.session>>} ELSE {})
         \cup (IF "off" \in y.calls /\ ~fb
               THEN {<<"released", y.co.session>>} ELSE {})
    /\ cat' = cat \o (IF "on" \in y.calls /\ ~Vox THEN <<TRUE>> ELSE <<>>)
                  \o (IF "off" \in y.calls THEN <<FALSE>> ELSE <<>>)
    /\ Len(cat') <= MaxQueue

Radio == <<keyed, report, fb>>

\* sstvTxPreflightBlockers, of which the queryPreflight hook asks the same
CanStart == ~owns /\ (Vox \/ ~fb) /\ ~down

\* startSstvTx: the session before is let to expire first; built is whether
\* the audio of the new one could be built
StartSstvTx(dt, h, built, fskId) ==
    LET pf == [ok |-> built, release |-> ~Vox, fskId |-> fskId] IN
    /\ CanStart /\ machine.sessions < MaxStarts
    /\ \E ticked \in {Tick(Run(machine, coordinator, dt), h)} :
           Settle(Start(ticked, h, pf), {})
    /\ UNCHANGED <<Radio, due, down>>

CancelSstvTx(dt, h) ==
    /\ ~down /\ Active(machine)
    /\ Settle(Cancel(Run(machine, coordinator, dt), h), {})
    /\ UNCHANGED <<Radio, due, down>>

\* The connected radio answers for the session: confirmation, then release
PollPtt(x, h) ==
    LET confirmed == IF x.tx.state = "WaitingForPtt" /\ (Vox \/ fb)
                     THEN NotifyPttConfirmed(x, h, x.tx.session) ELSE x
    IN  IF confirmed.tx.state = "ReleasingPtt" /\ ~fb
        THEN NotifyPttReleased(confirmed, h, confirmed.tx.session)
        ELSE confirmed

\* What SoundOutput says of the session; broken is whether it or the device
\* has failed
PlaybackProgress(broken) ==
    [ frames |-> playing.heard, complete |-> playing.heard = Total,
      failed |-> broken \/ playing.session # machine.session ]

\* The timer: every call reads the same clock
TickSstvTx(dt, h, broken) ==
    /\ due /\ due' = FALSE
    /\ \E polled \in {PollPtt(Run(machine, coordinator, dt), h)} :
       \E ticked \in {Tick(polled, h)} :
           Settle(IF ticked.co.attached /\ playing # Silence
                  THEN NotifyPlayback(ticked, h, machine.session,
                                      PlaybackProgress(broken))
                  ELSE ticked, {})
    /\ UNCHANGED <<Radio, down>>

\* A posted callback reaches the owner thread
Deliver(dt, h) ==
    /\ ~down
    /\ \E callback \in posted :
        LET x == Run(machine, coordinator, dt)
            sid == callback[2]
        IN  Settle(CASE callback[1] = "confirmed" ->
                          NotifyPttConfirmed(x, h, sid)
                     [] callback[1] = "released" ->
                          NotifyPttReleased(x, h, sid)
                     [] OTHER -> NotifyAudioError(x, h, sid), {callback})
    /\ UNCHANGED <<Radio, due, down>>

\* Mutant: the coordinator alone is trusted with the radio
ShutdownSstvTxTrusting(h) ==
    /\ ~down /\ down' = TRUE
    /\ machine' = NewMachine /\ coordinator' = NewCoordinator
    /\ owns' = FALSE /\ playing' = Silence /\ posted' = {} /\ due' = FALSE
    /\ UNCHANGED <<cat, Radio>>

\* shutdownSstvTx: the coordinator disables itself, and is destroyed - which
\* shuts it down again - before its radio need have answered; a radio still
\* owned gets one more OFF
ShutdownSstvTx(h) ==
    /\ ~down /\ down' = TRUE
    /\ \E closed \in {Shutdown(Run(machine, coordinator, 0), h)} :
       \E heard \in {IF closed.tx.state = "ReleasingPtt" /\ ~fb
                     THEN NotifyPttReleased(closed, h, closed.tx.session)
                     ELSE closed} :
       \E gone \in {Shutdown(heard, h)} :
           cat' = cat \o (IF "off" \in gone.calls THEN <<FALSE>> ELSE <<>>)
                      \o (IF owns /\ ~heard.over /\ ~Vox
                          THEN <<FALSE>> ELSE <<>>)
    /\ machine' = NewMachine /\ coordinator' = NewCoordinator
    /\ owns' = FALSE /\ playing' = Silence /\ posted' = {} /\ due' = FALSE
    /\ UNCHANGED Radio

Owner == <<machine, coordinator, owns, posted, due, down>>

TimerFires ==
    /\ ~down /\ ~due /\ due' = TRUE
    /\ UNCHANGED <<machine, coordinator, owns, posted, down, playing, cat,
                   Radio>>

\* The sound card plays on
Play ==
    /\ playing # Silence /\ playing.heard < Total
    /\ playing' = [playing EXCEPT !.heard = @ + 1]
    /\ UNCHANGED <<Owner, cat, Radio>>

\* SoundOutput reports an error or an underrun of the session
SoundFails ==
    /\ playing # Silence
    /\ posted' = posted \cup {<<"error", playing.session>>}
    /\ UNCHANGED <<machine, coordinator, owns, due, down, playing, cat,
                   Radio>>

\* The CAT worker executes the next command
Execute ==
    /\ cat # <<>>
    /\ cat' = Tail(cat) /\ keyed' = Head(cat)
    /\ UNCHANGED <<Owner, playing, report, fb>>

\* It polls the radio, and its report arrives at the bridge
Poll ==
    /\ report = {} /\ keyed # fb
    /\ report' = {keyed}
    /\ UNCHANGED <<Owner, playing, cat, keyed, fb>>

Arrive ==
    /\ report # {}
    /\ fb' \in report /\ report' = {}
    /\ UNCHANGED <<Owner, playing, cat, keyed>>

BridgeNext ==
    \/ \E dt \in 0..MaxGap, h \in HookAnswers, built, fskId \in BOOLEAN :
           StartSstvTx(dt, h, built, fskId)
    \/ \E dt \in 0..MaxGap, h \in HookAnswers :
           CancelSstvTx(dt, h) \/ Deliver(dt, h)
    \* the clock has moved on since the last time-out of the timer
    \/ \E dt \in 1..MaxGap, h \in HookAnswers, broken \in BOOLEAN :
           TickSstvTx(dt, h, broken)
    \/ \E h \in HookAnswers : ShutdownSstvTx(h)
    \/ TimerFires \/ Play \/ SoundFails \/ Execute \/ Poll \/ Arrive

(* The timer runs until shutdown, the owner's event loop turns (so that    *)
(* a timer that fired is handled), and so does the CAT worker's, with a    *)
(* radio that answers.  Nothing is assumed of the operator, of errors, of  *)
(* the posted callbacks, and not even that the audio advances.             *)
Fairness ==
    /\ WF_bridgeVars(TimerFires) /\ []<>(~due)
    /\ WF_bridgeVars(Execute) /\ WF_bridgeVars(Poll) /\ WF_bridgeVars(Arrive)

BridgeSpec == BridgeInit /\ [][BridgeNext]_bridgeVars /\ Fairness

\* The same on a day when all works: audio plays to its end, callbacks arrive
WorkingSpec == BridgeSpec /\ WF_bridgeVars(Play) /\ []<>(posted = {})

-----------------------------------------------------------------------------
\* Every field stays in its range.
BridgeTypeOK ==
    /\ machine \in Machines /\ coordinator \in Coordinators
    /\ owns \in BOOLEAN /\ down \in BOOLEAN
    /\ posted \subseteq ({"confirmed", "released", "error"}
                           \X (1..MaxStarts))
    /\ playing \in [session : 0..MaxStarts, heard : 0..Total]
    /\ cat \in Seq(BOOLEAN)
    /\ keyed \in BOOLEAN /\ fb \in BOOLEAN /\ report \subseteq BOOLEAN

(* The sound output plays nothing but the audio of the one session that    *)
(* owns the transmit path, and is silent once that session is over.        *)
PcmOnlyOwned ==
    playing # Silence => owns /\ Active(machine) /\ playing.session = machine.session

(* Once a session is over, however it ended and whatever the feedback said *)
(* when, an OFF is the last command of a radio that is, or is about to be, *)
(* keyed.                                                                  *)
OffHasTheLastWord ==
    (~Active(machine) /\ (keyed \/ \E i \in DOMAIN cat : cat[i])) =>
        cat # <<>> /\ ~cat[Len(cat)]

(* What every call, callback and report of the CAT leaves true.            *)
BridgeInv == BridgeTypeOK /\ PcmOnlyOwned /\ OffHasTheLastWord

(* The radio never stays keyed.                                            *)
RadioIsReleased == keyed ~> ~keyed

(* "Every path asserts ... restoration of the previous RX state"           *)
(* (docs/sstv/TEST_STRATEGY.md): the transmit path comes back, whether or  *)
(* not the audio ever ends or the radio ever answers.                      *)
OwnershipReturned == owns ~> ~owns
=============================================================================

--------------------------- MODULE SstvTxSession ---------------------------
(***************************************************************************)
(* The SSTV transmit coordinator in any environment that honours its       *)
(* hooks: hooks answer what they like, callbacks come from this session or *)
(* an old one, at any moment, and the clock may run backwards.  Of the     *)
(* environment only two things are taken for granted: SoundOutput pulls    *)
(* samples from the device of a session from startAudio on - even from one *)
(* whose start it reported to have failed - until detachAudio answered     *)
(* true, or until it stopped by itself; and it reports a detach as done    *)
(* only when it has stopped.                                               *)
(***************************************************************************)
EXTENDS SstvTxCoordinator

CONSTANTS
    MaxDelay,       \* longest delay between two calls (a bound)
    MaxSessions     \* sessions begun in one behaviour (a bound)

ASSUME SessionAssumption == MaxDelay \in Nat /\ MaxSessions \in Nat

VARIABLES
    tx,         \* stateMachine_
    co,         \* the coordinator's own fields
    sound       \* the session SoundOutput pulls from, or 0

vars == <<tx, co, sound>>

Init == tx = NewMachine /\ co = NewCoordinator /\ sound = 0

\* Where the hooks that a method called have left SoundOutput
SoundAfter(x, h) ==
    IF "detach" \in x.calls /\ h.detach THEN {0}
    ELSE IF "start" \in x.calls
    THEN {x.co.session} \cup (IF h.start THEN {} ELSE {0})
    ELSE {sound}

\* The owner thread runs a method, which is handed a run record and answers;
\* only start() calls requestPttOn
CallWith(answers, Method(_, _)) ==
    \E dt \in -1..MaxDelay, h \in answers :
        LET x == Method(Run(tx, co, dt), h) IN
        tx' = x.tx /\ co' = x.co /\ sound' \in SoundAfter(x, h)

Call(Method(_, _)) == CallWith({h \in Answers : h.on}, Method)

Sessions == 0..tx.sessions

CallEnable == LET M(x, h) == Enable(x) IN Call(M)
CallTick == Call(Tick)
CallStart ==
    /\ tx.sessions < MaxSessions
    /\ \E pf \in Preflights : LET M(x, h) == Start(x, h, pf) IN CallWith(Answers, M)
CallCancel == Call(Cancel)
CallShutdown == Call(Shutdown)
PttConfirmed ==
    \E sid \in Sessions :
        LET M(x, h) == NotifyPttConfirmed(x, h, sid) IN Call(M)
PttReleased ==
    \E sid \in Sessions :
        LET M(x, h) == NotifyPttReleased(x, h, sid) IN Call(M)
Playback ==
    \E sid \in Sessions, p \in Reports :
        LET M(x, h) == NotifyPlayback(x, h, sid, p) IN Call(M)
AudioError ==
    \E sid \in Sessions :
        LET M(x, h) == NotifyAudioError(x, h, sid) IN Call(M)
AudioDetached ==
    \E sid \in Sessions \ {sound} :
        LET M(x, h) == NotifyAudioDetached(x, h, sid) IN Call(M)

\* SoundOutput stops by itself: a device error, or the detach it was asked for
SoundStops == sound # 0 /\ sound' = 0 /\ UNCHANGED <<tx, co>>

Next ==
    \/ CallEnable \/ CallTick \/ CallStart \/ CallCancel \/ CallShutdown
    \/ PttConfirmed \/ PttReleased \/ Playback
    \/ AudioError \/ AudioDetached \/ SoundStops

Spec == Init /\ [][Next]_vars

-----------------------------------------------------------------------------
\* Every field stays in its range.
TypeOK == tx \in Machines /\ co \in Coordinators /\ sound \in Sessions

(* SoundOutput never pulls from a device whose lease is gone: as long as it *)
(* may call into the device of a session, the coordinator owns that very    *)
(* device (audioDevice_ is a shared_ptr reset by releaseAudioLease).        *)
LeaseWhilePulled ==
    sound # 0 =>
        co.device /\ co.startAttempted /\ co.session = sound

(* A session is said, or about to be said, to have completed only when all *)
(* of its samples were played and SoundOutput has let go of its device.    *)
CompletedInFull ==
    "Completed" \in {tx.state, tx.deferred} =>
        co.complete /\ co.played = Total /\ ~co.device /\ sound = 0

(* No PCM before approval: a device is handed out only to a session that   *)
(* waits for its radio, and a radio with a silent lead had been confirmed  *)
(* in an earlier call.                                                     *)
PcmAfterApproval ==
    [][sound' \notin {0, sound} =>
         /\ tx.state = "WaitingForPtt" /\ sound' = tx.session
         /\ co.needsRelease /\ LeadDelay > 0 => tx.confirmed]_vars

(* What every call and callback of the session leaves true.                *)
SessionInv == TypeOK /\ LeaseWhilePulled /\ CompletedInFull

Promise ==
    INSTANCE SstvTxPromise WITH
        phase <- IF tx.state = "ReleasingPtt" THEN "releasing"
                 ELSE IF ~Active(tx)
                 THEN IF tx.state = "Disabled" THEN "off" ELSE "free"
                 ELSE IF tx.releaseRequired THEN "keyed" ELSE "open",
        owed <- tx.deferred,
        verdict <- IF tx.state \in Terminals THEN tx.state ELSE "None"

(* Whatever the order of callbacks, timers and hook failures, a keyed      *)
(* radio is given back through its acknowledged release, and the verdict   *)
(* is the worst of what happened.                                          *)
PromiseKept == Promise!Spec
=============================================================================

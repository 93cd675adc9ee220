------------------------- MODULE SstvTxCoordinator -------------------------
(***************************************************************************)
(* SstvTxCoordinator (src/src/sstv/integration/SstvTxCoordinator.cpp): the *)
(* owner-thread object that turns accepted transitions of the state        *)
(* machine into effects - key the radio, start and detach the audio output *)
(* - and feeds the answers back.                                           *)
(*                                                                         *)
(* A public method runs to completion on the owner thread, and may         *)
(* dispatch several events and call several hooks on the way.  It is an    *)
(* operator on a run record:                                               *)
(*   tx     the state machine          co     the coordinator's fields     *)
(*   dt     nowMs - lastEventAtMs      calls  the hooks called so far      *)
(*   ok     the bool of the last call inside the method                    *)
(*   over   stateChanged has shown a session over and its lease free       *)
(* A hook is called at most once within one method, so that its answers    *)
(* are one record of Booleans, chosen when the method is entered.          *)
(***************************************************************************)
EXTENDS SstvTxStateMachine

CONSTANTS
    LeadDelay, HangDelay, \* pttLeadDelayMs, pttTailDelayMs
    Retry,              \* pttReleaseRetryMs
    HeaderEnd, ImageEnd, ProtocolEnd, Total     \* the audio plan, in frames

\* validateConfig and the phase boundaries of a source
ASSUME CoordinatorAssumption ==
    /\ LeadDelay \in 0..(Timeout["WaitingForPtt"] - 1)
    /\ HangDelay \in 0..(Timeout["TailDelay"] - 1)
    /\ Retry \in 1..Timeout["ReleasingPtt"]
    /\ {HeaderEnd, ImageEnd, ProtocolEnd, Total} \subseteq Nat
    /\ HeaderEnd < ImageEnd /\ ImageEnd <= ProtocolEnd /\ ProtocolEnd <= Total

Coordinators ==
    [ device : BOOLEAN,             \* audioDevice_, the lease, is held
      startAttempted : BOOLEAN, attached : BOOLEAN,
      detachAttempted : BOOLEAN, detachPending : BOOLEAN,
      played : 0..Total, complete : BOOLEAN,
      offAttempted : BOOLEAN,       \* pttOffAttempted_
      offAge : 0..MaxAge,           \* lastEventAtMs - pttOffLastAttemptAtMs_
      needsRelease : BOOLEAN,       \* pttReleaseRequired_
      session : Nat ]               \* activeSessionId_

NewCoordinator ==
    [ device |-> FALSE, startAttempted |-> FALSE, attached |-> FALSE,
      detachAttempted |-> FALSE, detachPending |-> FALSE,
      played |-> 0, complete |-> FALSE, offAttempted |-> FALSE, offAge |-> 0,
      needsRelease |-> TRUE, session |-> 0 ]

\* The hooks' answers: requestPttOn, requestPttOff, startAudio, detachAudio
Answers == [on : BOOLEAN, off : BOOLEAN, start : BOOLEAN, detach : BOOLEAN]

\* queryPreflight: may this session start (audio output and PTT path ready,
\* nothing else transmitting, source built), has it a radio to release, and
\* has its plan an FSK ID
Preflights == [ok : BOOLEAN, release : BOOLEAN, fskId : BOOLEAN]

\* SstvTxPlaybackProgress; of a failed one nothing else is read
Reports ==
    [frames : 0..(Total + 1), complete : BOOLEAN, failed : {FALSE}]
    \cup [frames : {0}, complete : {FALSE}, failed : {TRUE}]

Run(tx, co, dt) ==
    [ tx |-> tx, co |-> co, dt |-> dt, calls |-> {}, ok |-> TRUE,
      over |-> FALSE ]

Return(x, ok) == [x EXCEPT !.ok = ok]
Calling(x, hook) == [x EXCEPT !.calls = @ \cup {hook}]

-----------------------------------------------------------------------------
(* The private helpers.                                                    *)

\* publishState: the observer sees the states in between, too
Publish(x) ==
    [x EXCEPT !.over = \/ @
                       \/ /\ x.tx.state \in Terminals \cup {"Disabled"}
                          /\ ~x.co.device]

Saturate(age) == IF age > MaxAge THEN MaxAge ELSE age

\* The state machine's clock follows a reading that moved on
Answered(x, d) ==
    LET moved == IF x.dt > 0 THEN x.dt ELSE 0
    IN  Publish([x EXCEPT !.tx = d.tx,
                          !.ok = d.ok /\ InvariantsHold(d.tx),
                          !.dt = @ - moved,
                          !.co.offAge = IF x.co.offAttempted
                                        THEN Saturate(@ + moved) ELSE 0])

\* dispatch()
Do(x, ev) == Answered(x, Dispatch(x.tx, x.dt, ev))

ReleaseLease(x) ==
    [x EXCEPT !.co.attached = FALSE, !.co.detachPending = FALSE,
              !.co.device = FALSE]

\* The hook is asked once; until it or notifyAudioDetached() confirms, the
\* lease is held
DetachAudio(x, h) ==
    IF ~x.co.device THEN Return(x, TRUE)
    ELSE IF ~x.co.startAttempted THEN Return(ReleaseLease(x), TRUE)
    ELSE IF x.co.detachAttempted THEN Return(x, FALSE)
    ELSE LET asked == [Calling(x, "detach") EXCEPT
                         !.co.detachAttempted = TRUE,
                         !.co.detachPending = TRUE]
         IN  IF h.detach THEN Return(Publish(ReleaseLease(asked)), TRUE)
             ELSE Return(Publish(asked), FALSE)

AskOff(x) == [Calling(x, "off") EXCEPT
                !.co.offAttempted = TRUE,
                !.co.offAge = IF x.dt < 0 THEN Saturate(-x.dt) ELSE 0]

OffIsRecent(x) == x.co.offAttempted /\ x.co.offAge + x.dt < Retry

\* Mutant: a dispatched OFF command is taken for the release
RequestPttReleaseTrusting(x, h) ==
    IF x.tx.state # "ReleasingPtt" THEN x
    ELSE IF OffIsRecent(x) THEN x
    ELSE Do(AskOff(x), Event(IF h.off THEN "PttReleased" ELSE "Failure"))

\* An OFF command may be repeated, at most once per Retry, until the radio
\* is known to be released; VOX and audio-only have nothing to wait for
RequestPttRelease(x, h) ==
    IF x.tx.state # "ReleasingPtt" THEN x
    ELSE IF ~x.tx.releaseRequired THEN Do(x, Event("PttReleased"))
    ELSE IF OffIsRecent(x) THEN x
    ELSE IF h.off THEN Publish(AskOff(x))
    ELSE Do(AskOff(x), Event("Failure"))

\* What fail() and cancel() do after they have detached the audio
AfterEnd(x, h) ==
    Publish(IF x.tx.state = "ReleasingPtt" THEN RequestPttRelease(x, h)
            ELSE IF x.tx.state \in Terminals /\ ~x.co.detachPending
            THEN ReleaseLease(x)
            ELSE x)

Fail(x, h) ==
    LET failed == IF Active(x.tx) THEN Do(x, Event("Failure")) ELSE x
    IN  Return(AfterEnd(DetachAudio(failed, h), h), FALSE)

\* A dispatch is rejected here by a broken clock only, which ends the
\* session; the effects use the last good reading
Rejected(x, h) ==
    LET safe == [x EXCEPT !.dt = 0] IN
    IF x.tx.state = "ReleasingPtt"
    THEN Return(RequestPttRelease(DetachAudio(safe, h), h), FALSE)
    ELSE Return(x, FALSE)

AskStart(x) == [Calling(x, "start") EXCEPT
                  !.co.startAttempted = TRUE, !.co.attached = TRUE]

StartLed(led, h) ==
    IF led.ok /\ h.start THEN Return(Publish(AskStart(led)), TRUE)
    ELSE Fail(IF led.ok THEN AskStart(led) ELSE led, h)

StartAudio(x, h) ==
    IF \/ x.co.startAttempted \/ ~x.co.device
       \/ x.tx.state # "WaitingForPtt" \/ ~x.tx.confirmed
    THEN Return(x, FALSE)
    ELSE StartLed(Do(x, Event("LeadElapsed")), h)

-----------------------------------------------------------------------------
(* The public methods.                                                     *)

Enable(x) == IF x.tx.enabled \/ x.tx.state # "Disabled" THEN Return(x, FALSE)
             ELSE Do(x, Event("Enable"))

\* pttConfirmedAtMs_ is when the confirmed WaitingForPtt was entered.  Only
\* a radio that reports its PTT is given the silent lead.
LeadOver(x) == ~x.co.needsRelease \/ x.tx.age >= LeadDelay

\* Mutant: the tail is timed from a phase change, not from the drained output
TailOverEarly(x) == x.tx.age >= (IF x.co.needsRelease THEN HangDelay ELSE 0)

TailOver(x) == /\ x.co.complete
               /\ x.tx.age >= (IF x.co.needsRelease THEN HangDelay ELSE 0)

\* Mutant: a watchdog that closes the barrier leaves the effects to later
TickForgetsExpiry(x, h) == Do(x, Event("Tick"))

Tailed(y, h) == IF y.ok THEN Return(RequestPttRelease(y, h), TRUE)
                ELSE Fail(y, h)

\* What follows from the state that the event of a tick, sent in the state
\* "before", has led to
Ticked(before, y, h) ==
    LET state == y.tx.state IN
    IF ~y.ok THEN Rejected(y, h)
    ELSE IF state = "ReleasingPtt" /\ before # "ReleasingPtt"
    THEN Return(RequestPttRelease(DetachAudio(y, h), h), TRUE)
    ELSE IF state \in {"Error", "Cancelled", "Disabled"}
    THEN Return(IF y.co.startAttempted THEN y ELSE ReleaseLease(y), TRUE)
    ELSE IF state = "WaitingForPtt" /\ y.tx.confirmed /\ LeadOver(y)
    THEN StartAudio(y, h)
    ELSE IF state = "TailDelay" /\ TailOver(y)
    THEN Tailed(Do(y, Event("TailElapsed")), h)
    ELSE IF state = "ReleasingPtt"
    THEN Return(RequestPttRelease(y, h), TRUE)
    ELSE y

Tick(x, h) == Ticked(x.tx.state, Do(x, Event("Tick")), h)

\* clearForNewSession: a fresh lease and nothing attempted yet
NewSession(x, release) ==
    [x EXCEPT !.co = [NewCoordinator EXCEPT !.device = TRUE,
                                            !.needsRelease = release]]

Refuses(x, pf) ==
    ~x.ok \/ ~x.tx.enabled \/ Active(x.tx) \/ x.co.device \/ ~pf.ok

Then(x, ev) == IF x.ok THEN Do(x, ev) ELSE x

\* From the prepared session to the request for its radio
Requested(x, pf) ==
    LET named == [x EXCEPT !.co.session = x.tx.session]
        encoded == Then(Then(named, Event("ImagePrepared")),
                        EncodingCompleteEvent(TRUE, pf.fskId))
    IN  Then(Then(encoded, Event("Request")),
             PttRequestDispatchedEvent(pf.release))

RequestOn(x, h) ==
    IF x.ok /\ h.on THEN Return(Publish(Calling(x, "on")), TRUE)
    ELSE Fail(IF x.ok THEN Calling(x, "on") ELSE x, h)

Begin(x, h, pf) == IF x.ok THEN RequestOn(Requested(x, pf), h)
                   ELSE Return(Publish(ReleaseLease(x)), FALSE)

StartTicked(t, h, pf) ==
    IF Refuses(t, pf) THEN Return(t, FALSE)
    ELSE Begin(Do(NewSession(t, pf.release), PrepareEvent(TRUE)), h, pf)

\* start() and startPrepared(), which differ in how the audio is built
Start(x, h, pf) == StartTicked(Tick(x, h), h, pf)

\* Mutant: any session will do
MatchesAny(x, sid) == sid # 0

\* sessionMatches: a callback of another session is counted and dropped
Matches(x, sid) == sid # 0 /\ sid = x.co.session

\* Mutant: audio starts as soon as the radio answers
NoLeadAtAll(x) == TRUE

\* VOX has no confirmation to wait for: its audio carries a pre-key tone
NoLead(x) == ~x.co.needsRelease \/ LeadDelay = 0

Confirmed(y, h) ==
    IF ~y.ok THEN Rejected(y, h)
    ELSE IF NoLead(y) THEN StartAudio(y, h)
    ELSE Return(y, TRUE)

NotifyPttConfirmed(x, h, sid) ==
    IF ~Matches(x, sid) \/ x.tx.state # "WaitingForPtt" \/ x.tx.confirmed
    THEN Return(x, FALSE)
    ELSE Confirmed(Do(x, Event("PttConfirmed")), h)

\* Mutant: a count past the end of the plan is accepted
PlausibleUnbounded(x, p) ==
    /\ ~p.failed /\ p.frames >= x.co.played
    /\ p.complete => p.frames >= Total

\* The contract of SstvTxPlaybackProgress
Plausible(x, p) ==
    /\ ~p.failed /\ p.frames >= x.co.played /\ p.frames <= Total
    /\ p.complete => p.frames = Total

\* A frame count passes as many phases as it covers
Advanced(x, frames) ==
    LET Pass(y, state, end, ev) ==
            IF y.ok /\ y.tx.state = state /\ frames >= end
            THEN Do(y, Event(ev)) ELSE y
        start == Publish(Return([x EXCEPT !.co.played = frames], TRUE))
        header == Pass(start, "TransmittingHeader", HeaderEnd,
                       "HeaderComplete")
        image == Pass(header, "TransmittingImage", ImageEnd, "ImageComplete")
    IN  Pass(image, "TransmittingFskId", ProtocolEnd, "FskIdComplete")

OrFail(x, h) == IF x.ok THEN x ELSE Fail(x, h)

\* The last sample ends the audio, which the tail waits for
Played(y, h, complete) ==
    IF y.ok /\ complete /\ y.tx.state = "TailDelay"
    THEN OrFail(DetachAudio([y EXCEPT !.co.complete = TRUE], h), h)
    ELSE OrFail(y, h)

NotifyPlayback(x, h, sid, p) ==
    IF \/ ~Matches(x, sid) \/ ~x.co.startAttempted
       \/ ~x.co.attached \/ x.co.detachPending
    THEN Return(x, FALSE)
    ELSE IF ~Plausible(x, p) THEN Fail(x, h)
    ELSE Played(Advanced(x, p.frames), h, p.complete)

\* notifyAudioError and notifyAudioUnderrun
NotifyAudioError(x, h, sid) ==
    IF ~Matches(x, sid) \/ (~Active(x.tx) /\ ~x.co.device)
    THEN Return(x, FALSE) ELSE Fail(x, h)

Detached(t) == IF t.ok THEN Publish(ReleaseLease(t)) ELSE t

NotifyAudioDetached(x, h, sid) ==
    IF ~Matches(x, sid) \/ ~x.co.detachPending \/ x.dt < 0
    THEN Return(x, FALSE)
    ELSE Detached(Tick(x, h))

Released(y, h) ==
    IF ~y.ok THEN Return(RequestPttRelease([y EXCEPT !.dt = 0], h), FALSE)
    ELSE Publish(IF y.co.startAttempted THEN y ELSE ReleaseLease(y))

NotifyPttReleased(x, h, sid) ==
    IF ~Matches(x, sid) \/ x.tx.state # "ReleasingPtt" THEN Return(x, FALSE)
    ELSE Released(Do(x, Event("PttReleased")), h)

\* Mutant: a cancelled session leaves its audio to the release of its radio
EndedPlayingOn(y, h) == IF y.ok THEN Return(AfterEnd(y, h), TRUE)
                        ELSE Rejected(y, h)

Ended(y, h) == IF y.ok THEN Return(AfterEnd(DetachAudio(y, h), h), TRUE)
               ELSE Rejected(y, h)

Cancel(x, h) ==
    IF ~Active(x.tx) THEN Return(x, FALSE)
    ELSE Ended(Do(x, Event("Cancel")), h)

Close(z, h) ==
    Publish(IF z.tx.state = "ReleasingPtt" THEN RequestPttRelease(z, h)
            ELSE IF z.tx.state = "Disabled" /\ ~z.co.detachPending
            THEN ReleaseLease(z)
            ELSE z)

Disabled(y, h) == IF y.ok THEN Return(Close(DetachAudio(y, h), h), TRUE)
                  ELSE Rejected(y, h)

\* shutdown(), which the destructor runs too
Shutdown(x, h) ==
    IF x.tx.state = "Disabled" THEN Return(x, TRUE)
    ELSE Disabled(IF x.tx.enabled THEN Do(x, Event("Disable"))
                  ELSE Return(x, TRUE), h)
=============================================================================

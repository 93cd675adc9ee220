----------------------------- MODULE CatTransceiver ----------------------------
(***************************************************************************)
(* The transceiver that runs in the CAT worker's thread                    *)
(* (src/Transceiver: TransceiverBase, PollingTransceiver and, of           *)
(* HamlibTransceiver, the dial and the PTT), as functions of a record m:   *)
(*   m.w    the transceiver object,                                        *)
(*   m.rig  the radio and its port,                                        *)
(*   m.out  what the object has signalled, oldest first.                   *)
(*                                                                         *)
(* A command has an outcome: whether the radio obeys it and whether its    *)
(* answer is heard.  The radio obeys later (rig.dialTo, rig.txTo), and a   *)
(* poll reads what it does now.  Mode, split, standby, meters and the      *)
(* audio of TCI radios are left out.                                       *)
(***************************************************************************)
EXTENDS Integers, Sequences

CONSTANTS
    Tolerated,  \* transient_io_poll_failures_to_tolerate
    Bursts      \* reads of the power meter scheduled by a PTT on

PollsToStabilize == 3

Idle == [online |-> FALSE, frequency |-> 0, ptt |-> FALSE]

NewTransceiver ==
    [requested |-> Idle, actual |-> Idle, last |-> Idle,   \* TransceiverBase
     seq |-> 0,                      \* last_sequence_number_
     next |-> Idle, signalled |-> Idle, retries |-> 0, failures |-> 0,
     polling |-> FALSE,              \* not polling_stopped_
     fast |-> FALSE,                 \* tx_fast_active_
     pttOn |-> FALSE,                \* ptt_on_
     bursts |-> 0]

Report(kind, state, seq) == [kind |-> kind, state |-> state, seq |-> seq]
Signal(m, kind) == [m EXCEPT !.out = Append(@, Report(kind, Idle, 0))]

(* What can become of a command: obeyed or not, answered or not, and without *)
(* an answer an error that is or is not among those do_frequency tolerates.  *)
Outcomes == {o \in [heard : BOOLEAN, obeyed : BOOLEAN, fatal : BOOLEAN] :
                (o.heard => o.obeyed) /\ (o.fatal => ~o.heard)}
Well == [heard |-> TRUE, obeyed |-> TRUE, fatal |-> FALSE]

-----------------------------------------------------------------------------
(* PollingTransceiver::do_pre_update: a change is withheld while the state   *)
(* expected has not come.                                                    *)
Withheld(w) == w.retries > 0 /\ w.actual # w.next

UpdateComplete(m, force) ==
    IF force \/ (~Withheld(m.w) /\ m.w.actual # m.w.last)
    THEN [m EXCEPT !.out = Append(@, Report("update", m.w.actual, m.w.seq)),
                   !.w = [@ EXCEPT !.last = m.w.actual]]
    ELSE m

Expect(w, state) ==
    IF state = w.next THEN w ELSE [w EXCEPT !.next = state, !.retries = PollsToStabilize]

TrackPtt(w, on, armed) ==
    [w EXCEPT !.pttOn = on, !.actual = [@ EXCEPT !.ptt = on],
              !.bursts = IF armed THEN Bursts ELSE @]

Order(rig, on) == [rig EXCEPT !.txTo = on, !.ours = on]

(* HamlibTransceiver::do_ptt; an ON whose answer is not heard throws, and    *)
(* SetOnline sees to that.                                                   *)
DoPtt(m, on, o) ==
    LET believed == IF o.heard /\ m.rig.open THEN on ELSE m.w.pttOn
        done     == o.obeyed /\ m.rig.open
    IN [m EXCEPT !.w = TrackPtt(@, believed, on /\ o.heard),
                 !.rig = IF done THEN Order(@, on) ELSE @]

ExpectPtt(w, on) ==
    LET changed  == w.next.ptt # on
        expected == Expect(w, [w.next EXCEPT !.ptt = on])
    IN [expected EXCEPT !.fast = IF changed /\ w.polling THEN on ELSE @]

DoPostPtt(m, on) == [m EXCEPT !.w = ExpectPtt(@, on)]

TrackDial(w, f) == [w EXCEPT !.actual = [@ EXCEPT !.frequency = f],
                             !.requested = [@ EXCEPT !.frequency = f]]

Tune(rig, f, o, changes) ==
    [rig EXCEPT !.since = IF ~o.heard THEN PollsToStabilize ELSE IF changes THEN 0 ELSE @,
                !.dialTo = IF o.obeyed THEN f ELSE @]

(* An error that is tolerated: the dial is then left to the poll.  Any other *)
(* throws, and SetOnline sees to that.                                       *)
DoFrequency(m, f, o) ==
    [m EXCEPT !.w = IF o.heard THEN TrackDial(@, f) ELSE @,
              !.rig = Tune(@, f, o, m.w.next.frequency # f)]

\* Mutant: no polls are granted to a new frequency.
DoPostFrequencyHasty(m, f) == [m EXCEPT !.w.next.frequency = f]

ExpectDial(w, f) == Expect(w, [w.next EXCEPT !.frequency = f])
DoPostFrequency(m, f) == [m EXCEPT !.w = ExpectDial(@, f)]

-----------------------------------------------------------------------------
Halted(w) == [w EXCEPT !.polling = FALSE, !.actual = Idle, !.requested = Idle]
Closed(rig) == [rig EXCEPT !.open = FALSE]

(* TransceiverBase::shutdown with do_stop, which asks once more for the      *)
(* release of a PTT still believed on: rel is the outcome of both.           *)
Shutdown(m, rel) ==
    LET released == IF m.w.requested.online THEN DoPostPtt(DoPtt(m, FALSE, rel), FALSE) ELSE m
    IN UpdateComplete([released EXCEPT !.w = Halted(@), !.rig = Closed(@)], FALSE)

Offline(m, kind, rel) == Shutdown(Signal(m, kind), rel)

Started(w, dial, on) ==
    LET tracked == TrackDial(w, dial)
    IN [tracked EXCEPT !.pttOn = on,
                       !.actual = [@ EXCEPT !.ptt = on],
                       !.polling = TRUE,
                       !.next = [@ EXCEPT !.online = TRUE],
                       !.retries = IF w.next.online THEN @ ELSE PollsToStabilize]

Opened(rig, o) ==
    [rig EXCEPT !.open = TRUE, !.ours = FALSE,
                !.txTo = IF o.obeyed THEN FALSE ELSE @, !.since = PollsToStabilize]

(* do_start when the port opens: whatever was keyed is told to release, the  *)
(* dial is read, the polls begin, and a first one reads the PTT as it still  *)
(* is (and once more the dial).                                              *)
DoStart(m, o) == [m EXCEPT !.w = Started(@, m.rig.dial, m.rig.tx \/ m.rig.mic),
                           !.rig = Opened(@, o)]

BroughtUp(w) == [w EXCEPT !.actual = [@ EXCEPT !.online = TRUE],
                      !.requested = [@ EXCEPT !.online = TRUE]]

Startup(m, opens, o, rel) ==
    LET m1 == [m EXCEPT !.w = BroughtUp(@)]
    IN IF opens THEN DoStart(m1, o) ELSE Offline(m1, "failure", rel)

\* Mutant: the session that has begun is told only when nothing is withheld.
StartUnforced(m, seq, opens, o, rel) ==
    UpdateComplete(Startup(Shutdown([m EXCEPT !.w.seq = seq], rel), opens, o, rel), FALSE)

Start(m, seq, opens, o, rel) ==
    UpdateComplete(Startup(Shutdown([m EXCEPT !.w.seq = seq], rel), opens, o, rel), TRUE)

-----------------------------------------------------------------------------
(* TransceiverBase::set, its part for the dial: first PTT off, then the      *)
(* dial, then PTT on.                                                        *)
SetFrequency(m, f, o) ==
    IF f = 0 THEN m
    ELSE IF f = m.w.actual.frequency THEN [m EXCEPT !.w.requested.frequency = f]
    ELSE IF f = m.w.requested.frequency THEN m
    ELSE LET m1 == DoPostFrequency(DoFrequency(m, f, o), f)
         IN [m1 EXCEPT !.w.requested.frequency = m1.w.actual.frequency]

Tunes(w, f) == f \notin {0, w.actual.frequency, w.requested.frequency}

SetOnline(m, s, o, rel) ==
    LET off == ~s.ptt /\ m.w.requested.ptt
        on  == s.ptt /\ ~m.w.requested.ptt
        m1  == IF off THEN DoPostPtt(DoPtt(m, FALSE, o), FALSE) ELSE m
        m2  == SetFrequency(m1, s.frequency, o)
        m3  == IF on THEN DoPtt(m2, TRUE, o) ELSE m2
        m4  == IF on THEN DoPostPtt(m3, TRUE) ELSE m3
    IN IF o.fatal /\ Tunes(m1.w, s.frequency)
       THEN Offline(UpdateComplete([m1 EXCEPT !.rig = m2.rig], TRUE), "failure", rel)
       ELSE IF on /\ ~o.heard
       THEN Offline(UpdateComplete([m2 EXCEPT !.rig = m3.rig], TRUE), "pttFailure", rel)
       ELSE UpdateComplete(IF on \/ off THEN [m4 EXCEPT !.w.requested.ptt = m4.w.actual.ptt]
                           ELSE m4, TRUE)

Set(m, s, seq, opens, o, rel) ==
    LET m0 == [m EXCEPT !.w.seq = seq]
        m1 == IF s.online = m.w.requested.online THEN m0
              ELSE IF s.online THEN Startup(Shutdown(m0, rel), opens, o, rel)
              ELSE Shutdown(m0, rel)
    IN IF seq < m.w.seq THEN m
       ELSE IF m1.w.requested.online THEN SetOnline(m1, s, o, rel)
       ELSE UpdateComplete(m1, TRUE)

-----------------------------------------------------------------------------
\* Mutant: what the poll reads of the PTT is tracked like the dial.
DoPollTracking(m, got) ==
    LET on == m.rig.tx \/ m.rig.mic
    IN [m EXCEPT !.w.actual.frequency = m.rig.dial, !.w.requested.frequency = m.rig.dial,
                 !.w.pttOn = on, !.w.actual.ptt = on, !.w.requested.ptt = on]

(* do_poll.  The dial is not read while transmitting; "dial" is a poll that  *)
(* fails after having read it.                                               *)
Receiving(w) == ~w.pttOn /\ ~w.actual.ptt

DoPoll(m, got) ==
    LET on == m.rig.tx \/ m.rig.mic
        m1 == IF Receiving(m.w)
              THEN [m EXCEPT !.w = TrackDial(@, m.rig.dial)]
              ELSE m
    IN IF got = "dial" THEN m1
       ELSE [m1 EXCEPT !.w = TrackPtt(@, on, FALSE)]

\* Mutant: an expected state that does not come is never given up.
SignalsPatient(w) == IF w.retries > 0 THEN w.actual = w.next ELSE w.actual # w.signalled

\* Mutant: a change nobody asked for is not signalled.
SignalsOnlyExpected(w) == w.retries > 0 /\ (w.actual = w.next \/ w.retries = 1)

(* The poll signals what was expected, what has come instead of it, or a     *)
(* change nobody asked for.                                                  *)
Signals(w) == IF w.retries > 0 THEN w.actual = w.next \/ w.retries = 1
              ELSE w.actual # w.signalled

Stable(w) == [w EXCEPT !.retries = 0, !.next = w.actual, !.signalled = w.actual]

Polled(rig, receiving) ==
    [rig EXCEPT !.since = IF receiving /\ @ < PollsToStabilize THEN @ + 1 ELSE PollsToStabilize]

HandleTimeout(m, got, rel) ==
    LET m1 == IF got = "none" THEN m ELSE DoPoll(m, got)
        read == [m1 EXCEPT !.w = [@ EXCEPT !.failures = 0],
                           !.rig = Polled(@, Receiving(m.w))]
    IN IF got = "all"
       THEN IF Signals(read.w)
            THEN UpdateComplete([read EXCEPT !.w = Stable(@)], TRUE)
            ELSE [read EXCEPT !.w.retries = IF @ > 0 THEN @ - 1 ELSE 0]
       ELSE IF m.w.failures + 1 < Tolerated THEN [m1 EXCEPT !.w.failures = @ + 1]
       ELSE Offline([m1 EXCEPT !.w.failures = 0], "failure", rel)

(* poll_transmit_telemetry(true): a read of the meters, one of those a PTT   *)
(* on has scheduled.                                                         *)
PollTransmitTelemetry(m) == UpdateComplete([m EXCEPT !.w.bursts = @ - 1], TRUE)
=============================================================================

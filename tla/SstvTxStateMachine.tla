------------------------- MODULE SstvTxStateMachine -------------------------
(***************************************************************************)
(* The deterministic authority of the SSTV transmit lifecycle,             *)
(* src/src/sstv/tx/SstvTxStateMachine.cpp.  The class has no effects: one  *)
(* call, dispatch(nowMs, event), maps its fields to new fields and says    *)
(* whether the event was accepted.  It is an operator on a record here, so *)
(* that the modules of its callers can dispatch several events within one  *)
(* handler, as the callers do.                                             *)
(*                                                                         *)
(* Time.  nowMs is given as its distance dt from the last reading the      *)
(* machine saw (lastEventAtMs): dt < 0 is a clock that ran backwards, and  *)
(* the age of the current state (now - stateEnteredAtMs) is kept in place  *)
(* of the two absolute instants.  An age saturates at MaxAge, which no     *)
(* comparison of the code can tell from a longer one.                      *)
(***************************************************************************)
EXTENDS Integers

CONSTANTS
    Timeout,        \* timeoutForState: the budget of each timed state
    MaxAge          \* ages saturate here

\* SstvTxState, by the groups the code tests
PrePttStates == {"PreparingImage", "Encoding", "Ready", "RequestingPtt"}
AudioStates == {"TransmittingHeader", "TransmittingImage",
                "TransmittingFskId", "TailDelay"}
OnAirStates == {"WaitingForPtt", "ReleasingPtt"} \cup AudioStates
Terminals == {"Completed", "Cancelled", "Error"}
States == {"Disabled", "Idle"} \cup PrePttStates \cup OnAirStates \cup Terminals

\* Only Ready, the idle states and the terminal states have no budget
TimedStates == (PrePttStates \ {"Ready"}) \cup OnAirStates

\* DeferredTerminal: the outcome that waits for the radio, or None
Deferrable == Terminals \cup {"Disabled"}
Deferred == Deferrable \cup {"None"}

ASSUME MachineAssumption ==
    /\ MaxAge \in Nat
    /\ Timeout \in [TimedStates -> 1..MaxAge]

Machines ==
    [ state : States, enabled : BOOLEAN, age : 0..MaxAge,
      deferred : Deferred,
      requested : BOOLEAN,          \* pttRequestDispatched
      confirmed : BOOLEAN,          \* pttConfirmed
      releaseRequired : BOOLEAN, audioStarted : BOOLEAN,
      fskId : BOOLEAN,              \* fskIdEnabled
      session : Nat,                \* currentSessionId, 0 when there is none
      sessions : Nat ]              \* nextSessionId_

NewMachine ==
    [ state |-> "Disabled", enabled |-> FALSE, age |-> 0, deferred |-> "None",
      requested |-> FALSE, confirmed |-> FALSE, releaseRequired |-> FALSE,
      audioStarted |-> FALSE, fskId |-> FALSE, session |-> 0, sessions |-> 0 ]

-----------------------------------------------------------------------------
(* The events.  The ones that carry nothing are told apart by their type   *)
(* alone; SstvTxFailure's code and text are left out.                      *)

Event(type) == [type |-> type]
PrepareEvent(valid) == [type |-> "Prepare", valid |-> valid]
EncodingCompleteEvent(valid, fskId) ==
    [type |-> "EncodingComplete", valid |-> valid, fskId |-> fskId]
PttRequestDispatchedEvent(release) ==
    [type |-> "PttRequestDispatched", release |-> release]

PlainEvents ==
    {"Enable", "Disable", "Reset", "Tick", "ImagePrepared", "Request",
     "PttConfirmed", "LeadElapsed", "HeaderComplete", "ImageComplete",
     "FskIdComplete", "TailElapsed", "PttReleased", "Cancel", "Failure"}

Events ==
    {Event(type) : type \in PlainEvents}
    \cup {PrepareEvent(valid) : valid \in BOOLEAN}
    \cup {EncodingCompleteEvent(valid, fskId) : valid, fskId \in BOOLEAN}
    \cup {PttRequestDispatchedEvent(release) : release \in BOOLEAN}

\* Accepted in any phase, even one whose budget has run out
UrgentEvents == {"PttReleased", "Failure", "Cancel", "Disable", "Reset"}

-----------------------------------------------------------------------------

Active(m) == m.state \in PrePttStates \cup OnAirStates

\* invariantsHold(): every caller requires it after each dispatch
InvariantsHold(m) ==
    /\ m.state = "Disabled" => ~m.enabled
    /\ m.state \notin {"Disabled", "ReleasingPtt"} => m.enabled
    /\ m.confirmed => m.requested
    /\ m.audioStarted => m.confirmed
    /\ m.releaseRequired => m.requested
    /\ m.state = "ReleasingPtt" <=> m.deferred # "None"
    /\ m.state \in Terminals =>
          ~m.releaseRequired /\ ~m.confirmed /\ ~m.audioStarted

\* transitionTo: entering a state, again or anew, restarts its budget
Enter(m, state) == [m EXCEPT !.state = state, !.age = 0]

ClearSession(m) ==
    [m EXCEPT !.session = 0, !.fskId = FALSE, !.requested = FALSE,
              !.confirmed = FALSE, !.releaseRequired = FALSE,
              !.audioStarted = FALSE, !.deferred = "None"]

BeginSession(m) ==
    LET fresh == ClearSession(m) IN
    Enter([fresh EXCEPT !.sessions = @ + 1, !.session = m.sessions + 1],
          "PreparingImage")

\* Mutant: the flags of the transmission survive its end
EnterTerminalKeepsFlags(m, outcome) ==
    Enter([m EXCEPT !.releaseRequired = FALSE, !.deferred = "None"], outcome)

EnterTerminal(m, outcome) ==
    LET ended == IF outcome = "Disabled" THEN ClearSession(m) ELSE m IN
    Enter([ended EXCEPT !.releaseRequired = FALSE, !.confirmed = FALSE,
                        !.requested = FALSE, !.audioStarted = FALSE,
                        !.deferred = "None"],
          outcome)

\* Mutant: a failure, a timeout or a broken clock ends the wait for the
\* acknowledgement
RequestTerminalEscapes(m, outcome) ==
    IF m.releaseRequired /\ (m.state # "ReleasingPtt" \/ outcome = "Cancelled")
    THEN Enter([m EXCEPT !.deferred = IF @ = "None" THEN outcome ELSE @],
               "ReleasingPtt")
    ELSE EnterTerminal(m, outcome)

\* Mutant: the last outcome asked for wins
RequestTerminalForgets(m, outcome) ==
    IF m.state = "ReleasingPtt" \/ m.releaseRequired
    THEN Enter([m EXCEPT !.deferred = outcome], "ReleasingPtt")
    ELSE EnterTerminal(m, outcome)

\* Behind the barrier an outcome can only be refined; a radio that may be
\* keyed puts the outcome behind the barrier; otherwise it takes effect.
RequestTerminal(m, outcome) ==
    IF m.state = "ReleasingPtt"
    THEN LET refined == IF /\ m.deferred # "Disabled"
                           /\ outcome = "Error" \/ m.deferred = "None"
                        THEN outcome ELSE m.deferred
         IN  Enter([m EXCEPT !.deferred = refined], "ReleasingPtt")
    ELSE IF m.releaseRequired
    THEN Enter([m EXCEPT !.deferred = outcome], "ReleasingPtt")
    ELSE EnterTerminal(m, outcome)

\* Mutant: audio is trusted to end by itself
ExpiredBeforeAudio(m) ==
    m.state \in TimedStates \ AudioStates /\ m.age >= Timeout[m.state]

Expired(m) == m.state \in TimedStates /\ m.age >= Timeout[m.state]

\* Mutant: the budget is measured from the start of the session
ElapseUncapped(m, dt) == [m EXCEPT !.age = @ + dt]

\* Time passes; the age of a state without a budget is of no consequence
Elapse(m, dt) ==
    [m EXCEPT !.age = IF m.state \notin TimedStates THEN 0
                      ELSE IF @ + dt > MaxAge THEN MaxAge ELSE @ + dt]

-----------------------------------------------------------------------------
(* dispatch().  An answer is the new record and whether the event was      *)
(* accepted; a rejected event can still have changed the record, as a      *)
(* clock regression and a rejected Prepare do.                             *)

Accept(m) == [tx |-> m, ok |-> TRUE]
Reject(m) == [tx |-> m, ok |-> FALSE]
When(condition, m, next) == IF condition THEN Accept(next) ELSE Reject(m)

\* The release acknowledgement and the fail-safe events outrank a timeout
Urgent(m, type) ==
    CASE type = "PttReleased" ->
           When(m.state = "ReleasingPtt", m,
                EnterTerminal(m, IF m.deferred = "None" THEN "Error"
                                 ELSE m.deferred))
      [] type = "Failure" -> When(Active(m), m, RequestTerminal(m, "Error"))
      [] type = "Cancel"  -> When(Active(m), m, RequestTerminal(m, "Cancelled"))
      [] type = "Disable" ->
           LET off == [m EXCEPT !.enabled = FALSE] IN
           When(m.enabled, m,
                IF ~m.releaseRequired
                THEN Enter(ClearSession(off), "Disabled")
                ELSE IF m.state = "ReleasingPtt"
                THEN [off EXCEPT !.deferred = "Disabled"]
                ELSE Enter([off EXCEPT !.deferred = "Disabled"],
                           "ReleasingPtt"))
      [] OTHER ->   \* Reset
           When(m.enabled /\ ~Active(m) /\ ~m.releaseRequired, m,
                Enter(ClearSession(m), "Idle"))

\* A Prepare first resets a terminal state, whether or not it is then valid
Prepare(m, valid) ==
    LET idle == IF m.state \in Terminals THEN Enter(ClearSession(m), "Idle")
                ELSE m
    IN  When(idle.enabled /\ idle.state = "Idle" /\ valid, idle,
             BeginSession(idle))

\* The session moves one phase on, and only from the phase before
Ordinary(m, ev) ==
    CASE ev.type = "Enable" ->
           When(~m.enabled /\ m.state = "Disabled", m,
                Enter([ClearSession(m) EXCEPT !.enabled = TRUE], "Idle"))
      [] ev.type = "Tick" -> Accept(m)
      [] ev.type = "Prepare" -> Prepare(m, ev.valid)
      [] ev.type = "ImagePrepared" ->
           When(m.state = "PreparingImage", m, Enter(m, "Encoding"))
      [] ev.type = "EncodingComplete" ->
           When(m.state = "Encoding" /\ ev.valid, m,
                Enter([m EXCEPT !.fskId = ev.fskId], "Ready"))
      [] ev.type = "Request" ->
           When(m.state = "Ready", m, Enter(m, "RequestingPtt"))
      [] ev.type = "PttRequestDispatched" ->
           When(m.state = "RequestingPtt", m,
                Enter([m EXCEPT !.requested = TRUE,
                                !.releaseRequired = ev.release],
                      "WaitingForPtt"))
      [] ev.type = "PttConfirmed" ->   \* the lead delay has its own budget
           When(m.state = "WaitingForPtt" /\ m.requested /\ ~m.confirmed, m,
                Enter([m EXCEPT !.confirmed = TRUE], "WaitingForPtt"))
      [] ev.type = "LeadElapsed" ->
           When(m.state = "WaitingForPtt" /\ m.confirmed, m,
                Enter([m EXCEPT !.audioStarted = TRUE],
                      "TransmittingHeader"))
      [] ev.type = "HeaderComplete" ->
           When(m.state = "TransmittingHeader", m,
                Enter(m, "TransmittingImage"))
      [] ev.type = "ImageComplete" ->
           When(m.state = "TransmittingImage", m,
                Enter(m, IF m.fskId THEN "TransmittingFskId"
                         ELSE "TailDelay"))
      [] ev.type = "FskIdComplete" ->
           When(m.state = "TransmittingFskId", m, Enter(m, "TailDelay"))
      [] OTHER ->   \* TailElapsed
           When(m.state = "TailDelay", m,
                Enter([m EXCEPT !.deferred = "Completed"], "ReleasingPtt"))

\* An expired budget consumes the event and counts as accepted
Dispatch(m, dt, ev) ==
    IF dt < 0
    THEN Reject(IF m.state = "Disabled" THEN m ELSE RequestTerminal(m, "Error"))
    ELSE LET n == Elapse(m, dt) IN
         IF ev.type \in UrgentEvents THEN Urgent(n, ev.type)
         ELSE IF Expired(n) THEN Accept(RequestTerminal(n, "Error"))
         ELSE Ordinary(n, ev)
=============================================================================

-------------------------- MODULE SstvTxSessionProofs --------------------------
(***************************************************************************)
(* What holds of an SSTV transmit session in any environment, for every    *)
(* budget, delay, audio plan and number of sessions.  The state machine    *)
(* below the coordinator is good because SstvTxLifecycleProofs shows that  *)
(* every dispatch keeps it so.  On top of that each helper of the          *)
(* coordinator has a lemma about the run record it is handed, in the order *)
(* in which SstvTxCoordinator defines them, up to the public methods.      *)
(*                                                                         *)
(* The second half is about the same coordinator below the bridge, whose   *)
(* hooks, timer, audio device and CAT link are those of SstvTxBridge.      *)
(***************************************************************************)
EXTENDS SstvTxSession, SstvTxBridge, SequenceTheorems, TLAPS

Lifecycle == INSTANCE SstvTxLifecycleProofs

Good(m) == Lifecycle!Good(m)

-----------------------------------------------------------------------------
(* The state machine.  Lifecycle's operators are the ones of this module.  *)
LEMMA SameDispatch ==
    ASSUME NEW m, NEW dt, NEW ev
    PROVE  Lifecycle!Dispatch(m, dt, ev) = Dispatch(m, dt, ev)
  BY DEF Dispatch, Elapse, Urgent, Ordinary, Prepare, Expired, RequestTerminal,
     EnterTerminal, ClearSession, BeginSession, Enter, Accept, Reject, When,
     Active, PrePttStates, AudioStates, OnAirStates, Terminals, TimedStates,
     UrgentEvents, Lifecycle!Dispatch, Lifecycle!Elapse, Lifecycle!Urgent,
     Lifecycle!Ordinary, Lifecycle!Prepare, Lifecycle!Expired,
     Lifecycle!RequestTerminal, Lifecycle!EnterTerminal,
     Lifecycle!ClearSession, Lifecycle!BeginSession, Lifecycle!Enter,
     Lifecycle!Accept, Lifecycle!Reject, Lifecycle!When, Lifecycle!Active,
     Lifecycle!PrePttStates, Lifecycle!AudioStates, Lifecycle!OnAirStates,
     Lifecycle!Terminals, Lifecycle!TimedStates, Lifecycle!UrgentEvents

LEMMA SameSets ==
    /\ Lifecycle!Machines = Machines
    /\ Lifecycle!Events = Events
    /\ Lifecycle!NewMachine = NewMachine
    /\ Lifecycle!MachineAssumption <=> MachineAssumption
  BY DEF PrePttStates, AudioStates, OnAirStates, Terminals, TimedStates, States,
     Deferrable, Deferred, Machines, NewMachine, MachineAssumption, Events,
     PlainEvents, Event, PrepareEvent, EncodingCompleteEvent,
     PttRequestDispatchedEvent, Lifecycle!PrePttStates, Lifecycle!AudioStates,
     Lifecycle!OnAirStates, Lifecycle!Terminals, Lifecycle!TimedStates,
     Lifecycle!States, Lifecycle!Deferrable, Lifecycle!Deferred,
     Lifecycle!Machines, Lifecycle!NewMachine, Lifecycle!MachineAssumption,
     Lifecycle!Events, Lifecycle!PlainEvents, Lifecycle!Event,
     Lifecycle!PrepareEvent, Lifecycle!EncodingCompleteEvent,
     Lifecycle!PttRequestDispatchedEvent

\* What the lifecycle's invariant says, in the words of this module
LEMMA GoodMeans ==
    ASSUME NEW m
    PROVE  Good(m) <=>
             /\ m \in Machines
             /\ InvariantsHold(m)
             /\ m.audioStarted => m.state \in AudioStates \cup {"ReleasingPtt"}
             /\ m.state \in AudioStates => m.audioStarted
             /\ m.confirmed => m.state \in OnAirStates
             /\ m.requested => m.state \in OnAirStates
             /\ m.state \in {"WaitingForPtt"} \cup AudioStates => m.requested
             /\ Active(m) => m.session > 0
             /\ m.session \in 0..m.sessions
             /\ m.deferred = "Disabled" <=> m.state = "ReleasingPtt" /\ ~m.enabled
             /\ m.deferred \in {"Cancelled", "Disabled"} => m.releaseRequired
  BY SameSets DEF Good, Lifecycle!Good, Lifecycle!MachineInv,
     InvariantsHold, Active, PrePttStates, AudioStates, OnAirStates, Terminals,
     Lifecycle!InvariantsHold, Lifecycle!Active, Lifecycle!PrePttStates,
     Lifecycle!AudioStates, Lifecycle!OnAirStates, Lifecycle!Terminals

LEMMA AlwaysGood ==
    ASSUME NEW m, Good(m), NEW dt \in Int, NEW ev \in Events
    PROVE  /\ Good(Dispatch(m, dt, ev).tx)
           /\ InvariantsHold(Dispatch(m, dt, ev).tx)
<1>1. Lifecycle!Good(Lifecycle!Dispatch(m, dt, ev).tx)
  <2>1. Lifecycle!MachineAssumption /\ ev \in Lifecycle!Events
    BY MachineAssumption, SameSets
  <2>2. Lifecycle!Good(m)
    BY DEF Good
  <2> QED BY <2>1, <2>2, SessionAssumption, Lifecycle!DispatchGood
<1>2. Good(Dispatch(m, dt, ev).tx)
  BY <1>1, SameDispatch DEF Good
<1> QED BY <1>2, GoodMeans

-----------------------------------------------------------------------------
(* What each event does to the machine, up to its age.                     *)
SameBut(m, n) == n \in Machines /\ n = [m EXCEPT !.age = n.age]

\* n is what m comes to when its session is to end with outcome
Ends(m, n, outcome) ==
    /\ n.session = m.session /\ n.sessions = m.sessions /\ n.enabled = m.enabled
    /\ IF m.state = "ReleasingPtt"
       THEN /\ n.state = "ReleasingPtt" /\ n.releaseRequired = m.releaseRequired
            /\ n.deferred = IF m.deferred # "Disabled" /\ outcome = "Error"
                            THEN outcome ELSE m.deferred
       ELSE IF m.releaseRequired
       THEN n.state = "ReleasingPtt" /\ n.releaseRequired /\ n.deferred = outcome
       ELSE n.state = outcome /\ ~n.releaseRequired /\ n.deferred = "None"

LEMMA TimePasses ==
    ASSUME NEW m, Good(m), NEW dt \in Nat
    PROVE  Good(Elapse(m, dt)) /\ SameBut(m, Elapse(m, dt))
<1> DEFINE a == IF m.state \notin TimedStates THEN 0
                ELSE IF m.age + dt > MaxAge THEN MaxAge ELSE m.age + dt
           n == [m EXCEPT !.age = a]
<1>1. m \in Machines
  BY GoodMeans
<1>2. a \in 0..MaxAge
  BY <1>1, MachineAssumption DEF MachineAssumption, Machines
<1>3. Elapse(m, dt) = n
  BY <1>1 DEF Elapse, Machines
<1> HIDE DEF a
<1>4. n \in Machines
  BY <1>1, <1>2 DEF Machines
<1>5. Good(n)
  BY <1>1, <1>4, GoodMeans DEF Machines, InvariantsHold, Active
<1>6. SameBut(m, n)
  BY <1>1, <1>4 DEF SameBut, Machines
<1> QED BY <1>3, <1>5, <1>6

LEMMA SessionEnds ==
    ASSUME NEW m, Good(m), m.state # "Disabled",
           NEW outcome \in {"Error", "Cancelled"}
    PROVE  Ends(m, RequestTerminal(m, outcome), outcome)
<1>1. m \in Machines /\ InvariantsHold(m)
  BY GoodMeans
<1>2. CASE m.state = "ReleasingPtt"
  BY <1>1, <1>2 DEF RequestTerminal, Enter, Machines, Ends, InvariantsHold
<1>3. CASE m.state # "ReleasingPtt" /\ m.releaseRequired
  BY <1>1, <1>3 DEF RequestTerminal, Enter, Machines, Ends
<1>4. CASE m.state # "ReleasingPtt" /\ ~m.releaseRequired
  BY <1>1, <1>4 DEF RequestTerminal, EnterTerminal, Enter, Machines, Ends
<1> QED BY <1>2, <1>3, <1>4

\* An end that comes after some time is an end of what was there before.
LEMMA EndsLater ==
    ASSUME NEW m \in Machines, NEW k, SameBut(m, k), NEW n, NEW outcome
    PROVE  Ends(k, n, outcome) <=> Ends(m, n, outcome)
<1>1. /\ k.state = m.state /\ k.session = m.session /\ k.sessions = m.sessions
      /\ k.enabled = m.enabled /\ k.releaseRequired = m.releaseRequired
      /\ k.deferred = m.deferred
  BY DEF SameBut, Machines
<1> QED BY <1>1 DEF Ends

LEMMA ClockBroken ==
    ASSUME NEW m, Good(m), NEW dt \in Int, dt < 0, NEW ev
    PROVE  /\ ~Dispatch(m, dt, ev).ok
           /\ IF m.state = "Disabled" THEN Dispatch(m, dt, ev).tx = m
              ELSE Ends(m, Dispatch(m, dt, ev).tx, "Error")
  BY SessionEnds DEF Dispatch, Reject

\* The budget of the phase has run out
TimesOut(m, n) == m.state \in TimedStates /\ Ends(m, n, "Error")

LEMMA TickMoves ==
    ASSUME NEW m, Good(m), NEW dt \in Nat
    PROVE  /\ Dispatch(m, dt, Event("Tick")).ok
           /\ \/ SameBut(m, Dispatch(m, dt, Event("Tick")).tx)
              \/ TimesOut(m, Dispatch(m, dt, Event("Tick")).tx)
<1> DEFINE k == Elapse(m, dt)
           d == Dispatch(m, dt, Event("Tick"))
<1>1. Good(k) /\ SameBut(m, k) /\ k.state = m.state
  BY TimePasses, GoodMeans DEF SameBut, Machines
<1>2. d = IF Expired(k) THEN Accept(RequestTerminal(k, "Error")) ELSE Accept(k)
  BY DEF Dispatch, Event, UrgentEvents, Ordinary
<1> HIDE DEF k, d
<1>3. CASE Expired(k)
  <2>1. k.state \in TimedStates /\ k.state # "Disabled"
    BY <1>3 DEF Expired, TimedStates, PrePttStates, OnAirStates, AudioStates
  <2>2. Ends(k, d.tx, "Error") /\ d.ok
    BY <1>1, <1>2, <1>3, <2>1, SessionEnds DEF Accept
  <2> QED BY <1>1, <2>1, <2>2, EndsLater, GoodMeans DEF TimesOut, d
<1>4. CASE ~Expired(k)
  BY <1>1, <1>2, <1>4 DEF Accept, d
<1> QED BY <1>3, <1>4

LEMMA FailureMoves ==
    ASSUME NEW m, Good(m), NEW dt \in Nat, Active(m),
           NEW type \in {"Failure", "Cancel"}
    PROVE  /\ Dispatch(m, dt, Event(type)).ok
           /\ Ends(m, Dispatch(m, dt, Event(type)).tx,
                   IF type = "Failure" THEN "Error" ELSE "Cancelled")
<1> DEFINE k == Elapse(m, dt)
           o == IF type = "Failure" THEN "Error" ELSE "Cancelled"
           d == Dispatch(m, dt, Event(type))
<1>1. Good(k) /\ SameBut(m, k) /\ k.state = m.state /\ m \in Machines
  BY TimePasses, GoodMeans DEF SameBut, Machines
<1>2. Active(k) /\ k.state # "Disabled"
  BY <1>1 DEF Active, PrePttStates, OnAirStates, AudioStates
<1>3. d = Accept(RequestTerminal(k, o))
  <2>1. d = Urgent(k, type)
    BY DEF Dispatch, Event, UrgentEvents
  <2> HIDE DEF k, d
  <2> QED BY <1>2, <2>1 DEF Urgent, When
<1> HIDE DEF k, d
<1>4. Ends(k, RequestTerminal(k, o), o)
  BY <1>1, <1>2, SessionEnds
<1>5. Ends(m, RequestTerminal(k, o), o)
  <2> HIDE DEF o
  <2> QED BY <1>1, <1>4, EndsLater
<1>6. d.ok /\ d.tx = RequestTerminal(k, o)
  BY <1>3 DEF Accept
<1> QED BY <1>5, <1>6 DEF d

LEMMA ReleasedMoves ==
    ASSUME NEW m, Good(m), NEW dt \in Nat, m.state = "ReleasingPtt"
    PROVE  LET d == Dispatch(m, dt, Event("PttReleased"))
               n == d.tx
           IN  /\ d.ok
               /\ n.state = m.deferred /\ m.deferred \in Deferrable
               /\ n.deferred = "None" /\ ~n.releaseRequired
               /\ n.sessions = m.sessions /\ n.enabled = m.enabled
               /\ n.session \in {0, m.session}
<1> DEFINE k == Elapse(m, dt)
           d == Dispatch(m, dt, Event("PttReleased"))
<1>1. Good(k) /\ SameBut(m, k) /\ m \in Machines /\ k \in Machines
  BY TimePasses, GoodMeans
<1>2. /\ k.state = m.state /\ k.deferred = m.deferred /\ k.enabled = m.enabled
      /\ k.session = m.session /\ k.sessions = m.sessions
  BY <1>1 DEF SameBut, Machines
<1>3. m.deferred # "None" /\ m.deferred \in Deferrable
  BY <1>1, GoodMeans DEF InvariantsHold, Machines, Deferred
<1>4. d = Accept(EnterTerminal(k, m.deferred))
  <2>1. d = Urgent(k, "PttReleased")
    BY DEF Dispatch, Event, UrgentEvents
  <2> HIDE DEF k, d
  <2> QED BY <1>2, <1>3, <2>1 DEF Urgent, When
<1> HIDE DEF k, d
<1>5. d.ok /\ d.tx = EnterTerminal(k, m.deferred)
  BY <1>4 DEF Accept
<1>6. LET n == EnterTerminal(k, m.deferred)
      IN /\ n.state = m.deferred /\ n.deferred = "None" /\ ~n.releaseRequired
         /\ n.sessions = k.sessions /\ n.enabled = k.enabled
         /\ n.session \in {0, k.session}
  BY <1>1 DEF EnterTerminal, ClearSession, Enter, Machines
<1> QED BY <1>2, <1>3, <1>5, <1>6 DEF d

LEMMA DisableMoves ==
    ASSUME NEW m, Good(m), NEW dt \in Nat, m.enabled
    PROVE  LET d == Dispatch(m, dt, Event("Disable"))
               n == d.tx
           IN  /\ d.ok /\ ~n.enabled /\ n.sessions = m.sessions
               /\ n.session \in {0, m.session}
               /\ IF m.releaseRequired
                  THEN /\ n.state = "ReleasingPtt" /\ n.deferred = "Disabled"
                       /\ n.releaseRequired /\ n.session = m.session
                  ELSE /\ n.state = "Disabled" /\ n.deferred = "None"
                       /\ ~n.releaseRequired
<1> DEFINE k == Elapse(m, dt)
           d == Dispatch(m, dt, Event("Disable"))
<1>1. Good(k) /\ SameBut(m, k) /\ m \in Machines /\ k \in Machines
  BY TimePasses, GoodMeans
<1>2. /\ k.state = m.state /\ k.enabled = m.enabled
      /\ k.releaseRequired = m.releaseRequired
      /\ k.session = m.session /\ k.sessions = m.sessions
  BY <1>1 DEF SameBut, Machines
<1>3. d = Urgent(k, "Disable")
  BY DEF Dispatch, Event, UrgentEvents
<1> HIDE DEF k, d
<1> DEFINE off == [k EXCEPT !.enabled = FALSE]
           gone == Enter(ClearSession(off), "Disabled")
           deferring == [off EXCEPT !.deferred = "Disabled"]
           closed == Enter(deferring, "ReleasingPtt")
<1>4. d.ok /\ d.tx = IF ~k.releaseRequired THEN gone
                     ELSE IF k.state = "ReleasingPtt" THEN deferring ELSE closed
  BY <1>2, <1>3 DEF Urgent, When, Accept
<1>5. /\ gone.state = "Disabled" /\ gone.deferred = "None" /\ ~gone.enabled
      /\ ~gone.releaseRequired /\ gone.session = 0 /\ gone.sessions = k.sessions
  BY <1>1 DEF ClearSession, Enter, Machines
<1>6. /\ deferring.state = k.state /\ deferring.deferred = "Disabled"
      /\ ~deferring.enabled /\ deferring.releaseRequired = k.releaseRequired
      /\ deferring.session = k.session /\ deferring.sessions = k.sessions
  BY <1>1 DEF Machines
<1>7. /\ closed.state = "ReleasingPtt" /\ closed.deferred = "Disabled"
      /\ ~closed.enabled /\ closed.releaseRequired = k.releaseRequired
      /\ closed.session = k.session /\ closed.sessions = k.sessions
  BY <1>1 DEF Enter, Machines
<1> HIDE DEF gone, deferring, closed
<1> QED BY <1>2, <1>4, <1>5, <1>6, <1>7 DEF d

LEMMA EnableMoves ==
    ASSUME NEW m, Good(m), NEW dt \in Nat, ~m.enabled, m.state = "Disabled"
    PROVE  LET n == Dispatch(m, dt, Event("Enable")).tx
           IN  /\ n.state = "Idle" /\ n.deferred = "None"
               /\ ~n.releaseRequired /\ n.sessions = m.sessions
<1> DEFINE k == Elapse(m, dt)
           d == Dispatch(m, dt, Event("Enable"))
<1>1. Good(k) /\ SameBut(m, k) /\ m \in Machines /\ k \in Machines
  BY TimePasses, GoodMeans
<1>2. k.state = m.state /\ k.enabled = m.enabled /\ k.sessions = m.sessions
  BY <1>1 DEF SameBut, Machines
<1>3. ~Expired(k)
  BY <1>2 DEF Expired, TimedStates, PrePttStates, OnAirStates, AudioStates
<1>4. d = Ordinary(k, Event("Enable"))
  BY <1>3 DEF Dispatch, Event, UrgentEvents
<1> HIDE DEF k, d
<1> DEFINE n == Enter([ClearSession(k) EXCEPT !.enabled = TRUE], "Idle")
<1>5. d.tx = n
  BY <1>2, <1>4 DEF Ordinary, Event, When, Accept
<1>6. /\ n.state = "Idle" /\ n.deferred = "None"
      /\ ~n.releaseRequired /\ n.sessions = k.sessions
  BY <1>1 DEF ClearSession, Enter, Machines
<1> HIDE DEF n
<1> QED BY <1>2, <1>5, <1>6 DEF d

LEMMA PrepareMoves ==
    ASSUME NEW m, Good(m), NEW dt \in Nat, m.enabled, ~Active(m)
    PROVE  LET d == Dispatch(m, dt, PrepareEvent(TRUE))
               n == d.tx
           IN  /\ d.ok
               /\ n.state = "PreparingImage" /\ n.deferred = "None"
               /\ ~n.releaseRequired /\ n.enabled
               /\ n.session = m.sessions + 1 /\ n.sessions = m.sessions + 1
               /\ n.age = 0
<1> DEFINE k == Elapse(m, dt)
           d == Dispatch(m, dt, PrepareEvent(TRUE))
           idle == IF k.state \in Terminals THEN Enter(ClearSession(k), "Idle")
                   ELSE k
<1>1. Good(k) /\ SameBut(m, k) /\ m \in Machines /\ k \in Machines
  BY TimePasses, GoodMeans
<1>2. k.state = m.state /\ k.enabled = m.enabled /\ k.sessions = m.sessions
  BY <1>1 DEF SameBut, Machines
<1>3. m.state \in {"Idle"} \cup Terminals
  BY <1>1, GoodMeans DEF InvariantsHold, Machines, States, Active
<1>4. ~Expired(k)
  BY <1>2, <1>3 DEF Expired, TimedStates, PrePttStates, OnAirStates,
     AudioStates, Terminals
<1>5. d = Ordinary(k, PrepareEvent(TRUE))
  BY <1>4 DEF Dispatch, PrepareEvent, UrgentEvents
<1>6. d = Prepare(k, TRUE)
  <2> HIDE DEF k, d
  <2> QED BY <1>5 DEF Ordinary, PrepareEvent
<1> HIDE DEF k, d
<1>7. idle.enabled /\ idle.state = "Idle" /\ idle.sessions = m.sessions /\ idle \in Machines
  <2>1. ClearSession(k) \in Machines
    BY <1>1 DEF ClearSession, Machines, Deferred
  <2>2. Enter(ClearSession(k), "Idle") \in Machines
    <3>1. 0 \in 0..MaxAge
      BY MachineAssumption DEF MachineAssumption
    <3> QED BY <2>1, <3>1 DEF Enter, Machines, States
  <2> DEFINE cleared == Enter(ClearSession(k), "Idle")
  <2>3. /\ cleared.enabled = k.enabled /\ cleared.state = "Idle"
        /\ cleared.sessions = k.sessions
    BY <1>1 DEF ClearSession, Enter, Machines
  <2>4. idle = cleared \/ (idle = k /\ k.state = "Idle")
    BY <1>2, <1>3
  <2> HIDE DEF cleared, idle
  <2> QED BY <1>1, <1>2, <2>2, <2>3, <2>4 DEF cleared
<1> HIDE DEF idle
<1> DEFINE n == BeginSession(idle)
<1>8. d.ok /\ d.tx = n
  BY <1>6, <1>7 DEF Prepare, When, Accept, idle
<1>9. /\ n.state = "PreparingImage" /\ n.deferred = "None"
      /\ ~n.releaseRequired /\ n.enabled
      /\ n.session = idle.sessions + 1 /\ n.sessions = idle.sessions + 1 /\ n.age = 0
  BY <1>7 DEF BeginSession, ClearSession, Enter, Machines
<1> HIDE DEF n
<1> QED BY <1>7, <1>8, <1>9 DEF d

(* The events that take a session from one phase to the next               *)
From == [ImagePrepared |-> "PreparingImage", EncodingComplete |-> "Encoding",
         Request |-> "Ready", PttRequestDispatched |-> "RequestingPtt",
         PttConfirmed |-> "WaitingForPtt", LeadElapsed |-> "WaitingForPtt",
         HeaderComplete |-> "TransmittingHeader",
         ImageComplete |-> "TransmittingImage",
         FskIdComplete |-> "TransmittingFskId", TailElapsed |-> "TailDelay"]

To == [ImagePrepared |-> {"Encoding"}, EncodingComplete |-> {"Ready"},
       Request |-> {"RequestingPtt"}, PttRequestDispatched |-> {"WaitingForPtt"},
       PttConfirmed |-> {"WaitingForPtt"}, LeadElapsed |-> {"TransmittingHeader"},
       HeaderComplete |-> {"TransmittingImage"},
       ImageComplete |-> {"TransmittingFskId", "TailDelay"},
       FskIdComplete |-> {"TailDelay"}, TailElapsed |-> {"ReleasingPtt"}]

Progress == {Event(type) : type \in DOMAIN From \ {"EncodingComplete", "PttRequestDispatched"}}
            \cup {EncodingCompleteEvent(TRUE, fskId) : fskId \in BOOLEAN}
            \cup {PttRequestDispatchedEvent(release) : release \in BOOLEAN}

Progresses(m, n, ev) ==
    /\ m.state = From[ev.type] /\ n.state \in To[ev.type]
    /\ n.session = m.session /\ n.sessions = m.sessions /\ n.enabled = m.enabled
    /\ n.deferred = IF ev.type = "TailElapsed" THEN "Completed" ELSE "None"
    /\ n.releaseRequired = IF ev.type = "PttRequestDispatched" THEN ev.release
                           ELSE m.releaseRequired

LEMMA Entered ==
    ASSUME NEW k \in Machines, NEW state
    PROVE  LET n == Enter(k, state)
           IN  /\ n.state = state /\ n.deferred = k.deferred
               /\ n.session = k.session /\ n.sessions = k.sessions
               /\ n.enabled = k.enabled /\ n.releaseRequired = k.releaseRequired
  BY DEF Enter, Machines

LEMMA ProgressTypes ==
    ASSUME NEW ev \in Progress
    PROVE  /\ ev.type \notin UrgentEvents /\ ev \in Events
           /\ \/ \E type \in {"ImagePrepared", "Request", "PttConfirmed",
                             "LeadElapsed", "HeaderComplete", "ImageComplete",
                             "FskIdComplete", "TailElapsed"} : ev = Event(type)
              \/ \E fskId \in BOOLEAN : ev = EncodingCompleteEvent(TRUE, fskId)
              \/ \E release \in BOOLEAN : ev = PttRequestDispatchedEvent(release)
<1>1. DOMAIN From = {"ImagePrepared", "EncodingComplete", "Request",
                     "PttRequestDispatched", "PttConfirmed", "LeadElapsed",
                     "HeaderComplete", "ImageComplete", "FskIdComplete",
                     "TailElapsed"}
  BY DEF From
<1> DEFINE Plain == {"ImagePrepared", "Request", "PttConfirmed", "LeadElapsed",
                     "HeaderComplete", "ImageComplete", "FskIdComplete", "TailElapsed"}
<1>2. \/ \E type \in Plain : ev = Event(type)
      \/ \E fskId \in BOOLEAN : ev = EncodingCompleteEvent(TRUE, fskId)
      \/ \E release \in BOOLEAN : ev = PttRequestDispatchedEvent(release)
  BY <1>1 DEF Progress
<1>3. ASSUME NEW type \in Plain, ev = Event(type)
      PROVE  ev.type \notin UrgentEvents /\ ev \in Events
  <2>1. type \in PlainEvents /\ type \notin UrgentEvents
    BY DEF PlainEvents, UrgentEvents
  <2> HIDE DEF Plain
  <2> QED BY <1>3, <2>1 DEF Events, Event
<1>4. ASSUME NEW fskId \in BOOLEAN, ev = EncodingCompleteEvent(TRUE, fskId)
      PROVE  ev.type \notin UrgentEvents /\ ev \in Events
  <2>1. ev.type = "EncodingComplete"
    BY <1>4 DEF EncodingCompleteEvent
  <2>2. \E valid, id \in BOOLEAN : ev = EncodingCompleteEvent(valid, id)
    <3>1. TRUE \in BOOLEAN
      OBVIOUS
    <3> QED BY <1>4, <3>1
  <2> QED BY <2>1, <2>2 DEF Events, UrgentEvents
<1>5. ASSUME NEW release \in BOOLEAN, ev = PttRequestDispatchedEvent(release)
      PROVE  ev.type \notin UrgentEvents /\ ev \in Events
  <2>1. ev.type = "PttRequestDispatched"
    BY <1>5 DEF PttRequestDispatchedEvent
  <2> QED BY <1>5, <2>1 DEF Events, UrgentEvents
<1> HIDE DEF Plain
<1>6. ev.type \notin UrgentEvents /\ ev \in Events
  BY <1>2, <1>3, <1>4, <1>5
<1> QED BY <1>2, <1>6 DEF Plain

LEMMA OrdinaryMoves ==
    ASSUME NEW k, Good(k), NEW ev \in Progress
    PROVE  LET d == Ordinary(k, ev)
           IN  \/ d = Reject(k)
               \/ d.ok /\ Progresses(k, d.tx, ev)
<1> DEFINE d == Ordinary(k, ev)
           Steps == d = Reject(k) \/ (d.ok /\ Progresses(k, d.tx, ev))
<1>1. k \in Machines /\ InvariantsHold(k)
  BY GoodMeans
<1>2. k.state # "ReleasingPtt" => k.deferred = "None"
  BY <1>1 DEF InvariantsHold, Machines
<1>3. CASE ev = Event("ImagePrepared")
  <2> DEFINE n == Enter(k, "Encoding")
  <2>1. ev.type = "ImagePrepared"
    BY <1>3 DEF Event
  <2>2. d = When(k.state = "PreparingImage", k, n)
    BY <2>1 DEF Ordinary
  <2>3. /\ n.state = "Encoding" /\ n.deferred = k.deferred
        /\ n.session = k.session /\ n.sessions = k.sessions
        /\ n.enabled = k.enabled /\ n.releaseRequired = k.releaseRequired
    BY <1>1, Entered
  <2> HIDE DEF n, d
  <2>4. Progresses(k, n, ev) \/ k.state # "PreparingImage"
    BY <1>2, <2>1, <2>3 DEF Progresses, From, To
  <2>5. d = Reject(k) \/ (k.state = "PreparingImage" /\ d.ok /\ d.tx = n)
    BY <2>2 DEF When, Accept
  <2> QED BY <2>4, <2>5 DEF d
<1>4. CASE ev = Event("Request")
  <2> DEFINE n == Enter(k, "RequestingPtt")
  <2>1. ev.type = "Request"
    BY <1>4 DEF Event
  <2>2. d = When(k.state = "Ready", k, n)
    BY <2>1 DEF Ordinary
  <2>3. /\ n.state = "RequestingPtt" /\ n.deferred = k.deferred
        /\ n.session = k.session /\ n.sessions = k.sessions
        /\ n.enabled = k.enabled /\ n.releaseRequired = k.releaseRequired
    BY <1>1, Entered
  <2> HIDE DEF n, d
  <2>4. Progresses(k, n, ev) \/ k.state # "Ready"
    BY <1>2, <2>1, <2>3 DEF Progresses, From, To
  <2>5. d = Reject(k) \/ (k.state = "Ready" /\ d.ok /\ d.tx = n)
    BY <2>2 DEF When, Accept
  <2> QED BY <2>4, <2>5 DEF d
<1>5. CASE ev = Event("PttConfirmed")
  <2> DEFINE n == Enter([k EXCEPT !.confirmed = TRUE], "WaitingForPtt")
  <2>1. ev.type = "PttConfirmed"
    BY <1>5 DEF Event
  <2>2. d = When(k.state = "WaitingForPtt" /\ k.requested /\ ~k.confirmed, k, n)
    BY <2>1 DEF Ordinary
  <2>3. /\ n.state = "WaitingForPtt" /\ n.deferred = k.deferred
        /\ n.session = k.session /\ n.sessions = k.sessions
        /\ n.enabled = k.enabled /\ n.releaseRequired = k.releaseRequired
    BY <1>1 DEF Enter, Machines
  <2> HIDE DEF n, d
  <2>4. Progresses(k, n, ev) \/ k.state # "WaitingForPtt"
    BY <1>2, <2>1, <2>3 DEF Progresses, From, To
  <2>5. d = Reject(k) \/ (k.state = "WaitingForPtt" /\ d.ok /\ d.tx = n)
    BY <2>2 DEF When, Accept
  <2> QED BY <2>4, <2>5 DEF d
<1>6. CASE ev = Event("LeadElapsed")
  <2> DEFINE n == Enter([k EXCEPT !.audioStarted = TRUE], "TransmittingHeader")
  <2>1. ev.type = "LeadElapsed"
    BY <1>6 DEF Event
  <2>2. d = When(k.state = "WaitingForPtt" /\ k.confirmed, k, n)
    BY <2>1 DEF Ordinary
  <2>3. /\ n.state = "TransmittingHeader" /\ n.deferred = k.deferred
        /\ n.session = k.session /\ n.sessions = k.sessions
        /\ n.enabled = k.enabled /\ n.releaseRequired = k.releaseRequired
    BY <1>1 DEF Enter, Machines
  <2> HIDE DEF n, d
  <2>4. Progresses(k, n, ev) \/ k.state # "WaitingForPtt"
    BY <1>2, <2>1, <2>3 DEF Progresses, From, To
  <2>5. d = Reject(k) \/ (k.state = "WaitingForPtt" /\ d.ok /\ d.tx = n)
    BY <2>2 DEF When, Accept
  <2> QED BY <2>4, <2>5 DEF d
<1>7. CASE ev = Event("HeaderComplete")
  <2> DEFINE n == Enter(k, "TransmittingImage")
  <2>1. ev.type = "HeaderComplete"
    BY <1>7 DEF Event
  <2>2. d = When(k.state = "TransmittingHeader", k, n)
    BY <2>1 DEF Ordinary
  <2>3. /\ n.state = "TransmittingImage" /\ n.deferred = k.deferred
        /\ n.session = k.session /\ n.sessions = k.sessions
        /\ n.enabled = k.enabled /\ n.releaseRequired = k.releaseRequired
    BY <1>1, Entered
  <2> HIDE DEF n, d
  <2>4. Progresses(k, n, ev) \/ k.state # "TransmittingHeader"
    BY <1>2, <2>1, <2>3 DEF Progresses, From, To
  <2>5. d = Reject(k) \/ (k.state = "TransmittingHeader" /\ d.ok /\ d.tx = n)
    BY <2>2 DEF When, Accept
  <2> QED BY <2>4, <2>5 DEF d
<1>8. CASE ev = Event("ImageComplete")
  <2> DEFINE n == Enter(k, (IF k.fskId THEN "TransmittingFskId" ELSE "TailDelay"))
  <2>1. ev.type = "ImageComplete"
    BY <1>8 DEF Event
  <2>2. d = When(k.state = "TransmittingImage", k, n)
    BY <2>1 DEF Ordinary
  <2>3. /\ n.state = (IF k.fskId THEN "TransmittingFskId" ELSE "TailDelay") /\ n.deferred = k.deferred
        /\ n.session = k.session /\ n.sessions = k.sessions
        /\ n.enabled = k.enabled /\ n.releaseRequired = k.releaseRequired
    BY <1>1, Entered
  <2> HIDE DEF n, d
  <2>4. Progresses(k, n, ev) \/ k.state # "TransmittingImage"
    BY <1>2, <2>1, <2>3 DEF Progresses, From, To
  <2>5. d = Reject(k) \/ (k.state = "TransmittingImage" /\ d.ok /\ d.tx = n)
    BY <2>2 DEF When, Accept
  <2> QED BY <2>4, <2>5 DEF d
<1>9. CASE ev = Event("FskIdComplete")
  <2> DEFINE n == Enter(k, "TailDelay")
  <2>1. ev.type = "FskIdComplete"
    BY <1>9 DEF Event
  <2>2. d = When(k.state = "TransmittingFskId", k, n)
    BY <2>1 DEF Ordinary
  <2>3. /\ n.state = "TailDelay" /\ n.deferred = k.deferred
        /\ n.session = k.session /\ n.sessions = k.sessions
        /\ n.enabled = k.enabled /\ n.releaseRequired = k.releaseRequired
    BY <1>1, Entered
  <2> HIDE DEF n, d
  <2>4. Progresses(k, n, ev) \/ k.state # "TransmittingFskId"
    BY <1>2, <2>1, <2>3 DEF Progresses, From, To
  <2>5. d = Reject(k) \/ (k.state = "TransmittingFskId" /\ d.ok /\ d.tx = n)
    BY <2>2 DEF When, Accept
  <2> QED BY <2>4, <2>5 DEF d
<1>10. CASE ev = Event("TailElapsed")
  <2> DEFINE n == Enter([k EXCEPT !.deferred = "Completed"], "ReleasingPtt")
  <2>1. ev.type = "TailElapsed"
    BY <1>10 DEF Event
  <2>2. d = When(k.state = "TailDelay", k, n)
    BY <2>1 DEF Ordinary
  <2>3. /\ n.state = "ReleasingPtt" /\ n.deferred = "Completed"
        /\ n.session = k.session /\ n.sessions = k.sessions
        /\ n.enabled = k.enabled /\ n.releaseRequired = k.releaseRequired
    BY <1>1 DEF Enter, Machines
  <2> HIDE DEF n, d
  <2>4. Progresses(k, n, ev) \/ k.state # "TailDelay"
    BY <1>2, <2>1, <2>3 DEF Progresses, From, To
  <2>5. d = Reject(k) \/ (k.state = "TailDelay" /\ d.ok /\ d.tx = n)
    BY <2>2 DEF When, Accept
  <2> QED BY <2>4, <2>5 DEF d
<1>11. ASSUME NEW fskId \in BOOLEAN, ev = EncodingCompleteEvent(TRUE, fskId)
      PROVE  Steps
  BY <1>1, <1>2, <1>11 DEF Ordinary, EncodingCompleteEvent, When, Accept, Enter,
     Machines, Progresses, From, To
<1>12. ASSUME NEW release \in BOOLEAN, ev = PttRequestDispatchedEvent(release)
      PROVE  Steps
  BY <1>1, <1>2, <1>12 DEF Ordinary, PttRequestDispatchedEvent, When, Accept,
     Enter, Machines, Progresses, From, To
<1> QED BY <1>3, <1>4, <1>5, <1>6, <1>7, <1>8, <1>9, <1>10, <1>11, <1>12, ProgressTypes

LEMMA ProgressMoves ==
    ASSUME NEW m, Good(m), NEW dt \in Nat, NEW ev \in Progress
    PROVE  LET d == Dispatch(m, dt, ev)
           IN  \/ ~d.ok /\ SameBut(m, d.tx)
               \/ d.ok /\ TimesOut(m, d.tx)
               \/ d.ok /\ Progresses(m, d.tx, ev)
<1> DEFINE k == Elapse(m, dt)
           d == Dispatch(m, dt, ev)
<1>1. Good(k) /\ SameBut(m, k) /\ m \in Machines /\ k \in Machines
  BY TimePasses, GoodMeans
<1>2. /\ k.state = m.state /\ k.session = m.session /\ k.sessions = m.sessions
      /\ k.enabled = m.enabled /\ k.releaseRequired = m.releaseRequired
  BY <1>1 DEF SameBut, Machines
<1>3. d = IF Expired(k) THEN Accept(RequestTerminal(k, "Error"))
          ELSE Ordinary(k, ev)
  <2>1. ev.type \notin UrgentEvents
    BY ProgressTypes
  <2> QED BY <2>1 DEF Dispatch
<1> HIDE DEF k, d
<1>4. CASE Expired(k)
  <2>1. k.state \in TimedStates /\ k.state # "Disabled"
    BY <1>4 DEF Expired, TimedStates, PrePttStates, OnAirStates, AudioStates
  <2>2. Ends(k, d.tx, "Error") /\ d.ok
    BY <1>1, <1>3, <1>4, <2>1, SessionEnds DEF Accept
  <2> QED BY <1>1, <1>2, <2>1, <2>2, EndsLater DEF TimesOut, d
<1>5. CASE ~Expired(k) /\ Ordinary(k, ev) = Reject(k)
  BY <1>1, <1>3, <1>5 DEF Reject, d
<1>6. CASE ~Expired(k) /\ Ordinary(k, ev).ok /\ Progresses(k, Ordinary(k, ev).tx, ev)
  <2>1. d.ok /\ Progresses(k, d.tx, ev)
    BY <1>3, <1>6
  <2>2. Progresses(m, d.tx, ev)
    BY <1>2, <2>1 DEF Progresses
  <2> QED BY <2>1, <2>2 DEF d
<1> QED BY <1>1, <1>4, <1>5, <1>6, OrdinaryMoves

-----------------------------------------------------------------------------
(* A machine as the station sees it: the refinement mapping of             *)
(* SstvTxSession.                                                          *)
Phase(m) == IF m.state = "ReleasingPtt" THEN "releasing"
            ELSE IF ~Active(m)
            THEN IF m.state = "Disabled" THEN "off" ELSE "free"
            ELSE IF m.releaseRequired THEN "keyed" ELSE "open"

Verdict(m) == IF m.state \in Terminals THEN m.state ELSE "None"

Same(m, n) ==
    Phase(n) = Phase(m) /\ n.deferred = m.deferred /\ Verdict(n) = Verdict(m)

Over(n, outcome) ==
    /\ Phase(n) = IF outcome = "Disabled" THEN "off" ELSE "free"
    /\ Verdict(n) = IF outcome = "Disabled" THEN "None" ELSE outcome
    /\ n.deferred = "None"

(* What a method that neither begins a session nor is told of a release    *)
(* may do to the station, in however many events.                          *)
Falls(m, n) ==
    \/ Same(m, n)
    \/ Phase(m) = "open" /\ \E outcome \in Deferrable : Over(n, outcome)
    \/ /\ Phase(m) = "keyed" /\ Phase(n) = "releasing"
       /\ n.deferred \in Deferrable /\ Verdict(n) = Verdict(m)
    \/ /\ Phase(m) = "releasing" /\ Phase(n) = "releasing"
       /\ m.deferred # "Disabled" /\ n.deferred \in {"Error", "Disabled"}
       /\ Verdict(n) = Verdict(m)
    \/ Phase(m) = "free" /\ \E outcome \in {"Error", "Disabled"} : Over(n, outcome)

LEMMA FallsOn ==
    ASSUME NEW a, NEW b, NEW c, Falls(a, b), Falls(b, c)
    PROVE  Falls(a, c)
  BY DEF Falls, Same, Over, Deferrable, Terminals

(* Between two methods a machine that waits for its radio has one.         *)
Held(m) == m.state = "ReleasingPtt" => m.releaseRequired

(* A machine and the coordinator's fields that go with it.                 *)
Fits(m, c) ==
    /\ c.detachAttempted /\ c.device => c.detachPending
    /\ c.detachPending => c.startAttempted /\ c.device
    /\ c.attached => c.device /\ c.startAttempted
    /\ c.complete => c.played = Total
    /\ c.complete => m.state \in {"TailDelay", "ReleasingPtt", "Idle", "Disabled"} \cup Terminals
    /\ "Completed" \in {m.state, m.deferred} => c.complete /\ ~c.device
    /\ Active(m) => c.session = m.session
    /\ c.session <= m.sessions

(* Once all has been played, the tail waits without a device.              *)
Drained(m, c) == c.complete /\ m.state = "TailDelay" => ~c.device

LEMMA Waited ==
    ASSUME NEW m \in Machines, NEW n, SameBut(m, n)
    PROVE  /\ \A c : (Fits(m, c) => Fits(n, c)) /\ (Drained(m, c) => Drained(n, c))
           /\ Falls(m, n) /\ (Held(m) => Held(n))
<1>1. /\ n.state = m.state /\ n.session = m.session /\ n.sessions = m.sessions
      /\ n.deferred = m.deferred /\ n.releaseRequired = m.releaseRequired
  BY DEF SameBut, Machines
<1>2. Active(n) <=> Active(m)
  BY <1>1 DEF Active
<1>3. Falls(m, n)
  BY <1>1, <1>2 DEF Falls, Same, Phase, Verdict
<1> QED BY <1>1, <1>2, <1>3 DEF Fits, Drained, Held

LEMMA HasEnded ==
    ASSUME NEW m, Good(m), m.state # "Disabled", NEW n, NEW outcome \in {"Error", "Cancelled"},
           outcome = "Error" \/ Active(m), Ends(m, n, outcome)
    PROVE  /\ \A c : Fits(m, c) => Fits(n, c) /\ Drained(n, c)
           /\ Falls(m, n) /\ (Held(m) => Held(n))
<1>1. /\ m \in Machines /\ InvariantsHold(m)
      /\ m.requested => m.state \in OnAirStates
  BY GoodMeans
<1>2. m.releaseRequired => Active(m)
  BY <1>1 DEF InvariantsHold, Active
<1>3. n.session = m.session /\ n.sessions = m.sessions
  BY DEF Ends
<1>4. CASE m.state = "ReleasingPtt"
  <2>1. /\ n.state = "ReleasingPtt" /\ n.releaseRequired = m.releaseRequired
        /\ \/ n.deferred = m.deferred
           \/ m.deferred # "Disabled" /\ n.deferred = "Error"
    BY <1>4 DEF Ends
  <2>2. Phase(m) = "releasing" /\ Phase(n) = "releasing" /\ Verdict(m) = "None" /\ Verdict(n) = "None"
    BY <1>4, <2>1 DEF Phase, Verdict, Terminals
  <2>3. Active(m)
    BY <1>4 DEF Active, OnAirStates
  <2>4. Falls(m, n)
    BY <2>1, <2>2 DEF Falls, Same
  <2> QED BY <1>3, <1>4, <2>1, <2>3, <2>4 DEF Fits, Drained, Held
<1>5. CASE m.state # "ReleasingPtt" /\ m.releaseRequired
  <2>1. n.state = "ReleasingPtt" /\ n.releaseRequired /\ n.deferred = outcome
    BY <1>5 DEF Ends
  <2>2. Phase(m) = "keyed" /\ Phase(n) = "releasing" /\ Verdict(m) = "None" /\ Verdict(n) = "None"
    BY <1>2, <1>5, <2>1 DEF Phase, Verdict, Terminals, Active, PrePttStates, OnAirStates, AudioStates
  <2>3. Falls(m, n)
    BY <2>1, <2>2 DEF Falls, Deferrable, Terminals
  <2> QED BY <1>2, <1>3, <1>5, <2>1, <2>3 DEF Fits, Drained, Held
<1>6. CASE m.state # "ReleasingPtt" /\ ~m.releaseRequired
  <2>1. n.state = outcome /\ ~n.releaseRequired /\ n.deferred = "None"
    BY <1>6 DEF Ends
  <2>2. ~Active(n) /\ n.state \in Terminals /\ n.state # "Completed" /\ n.state # "TailDelay"
        /\ n.state # "ReleasingPtt" /\ n.state # "Disabled"
    BY <2>1 DEF Active, PrePttStates, OnAirStates, AudioStates, Terminals
  <2>3. Over(n, outcome)
    BY <2>1, <2>2 DEF Over, Phase, Verdict
  <2>4. Phase(m) = IF Active(m) THEN "open" ELSE "free"
    BY <1>6 DEF Phase
  <2>5. Falls(m, n)
    BY <2>3, <2>4 DEF Falls, Deferrable, Terminals
  <2> QED BY <1>3, <2>1, <2>2, <2>5 DEF Fits, Drained, Held
<1> QED BY <1>4, <1>5, <1>6

LEMMA HasProgressed ==
    ASSUME NEW m, Good(m), NEW n, NEW ev \in Progress,
           ev.type # "TailElapsed", Progresses(m, n, ev)
    PROVE  /\ \A c : Fits(m, c) => Fits(n, c) /\ Drained(n, c)
           /\ Held(n) /\ (ev.type # "PttRequestDispatched" => Falls(m, n))
<1>1. m \in Machines /\ InvariantsHold(m)
  BY GoodMeans
<1>2. ev.type \in {"ImagePrepared", "EncodingComplete", "Request",
                   "PttRequestDispatched", "PttConfirmed", "LeadElapsed",
                   "HeaderComplete", "ImageComplete", "FskIdComplete"}
  BY ProgressTypes DEF Event, EncodingCompleteEvent, PttRequestDispatchedEvent
<1>3. /\ m.state = From[ev.type] /\ n.state \in To[ev.type]
      /\ n.session = m.session /\ n.sessions = m.sessions /\ n.deferred = "None"
      /\ ev.type # "PttRequestDispatched" => n.releaseRequired = m.releaseRequired
  BY DEF Progresses
<1>4. m.state \in PrePttStates \cup {"WaitingForPtt", "TransmittingHeader",
                  "TransmittingImage", "TransmittingFskId"}
  BY <1>2, <1>3 DEF From, PrePttStates
<1>5. n.state \in PrePttStates \cup {"WaitingForPtt"} \cup AudioStates
  BY <1>2, <1>3 DEF To, PrePttStates, AudioStates
<1>6. m.deferred = "None"
  BY <1>1, <1>4 DEF InvariantsHold, PrePttStates
<1>7. Active(m) /\ Active(n) /\ m.state \notin Terminals /\ n.state \notin Terminals
      /\ m.state # "ReleasingPtt" /\ n.state # "ReleasingPtt"
      /\ m.state \notin {"TailDelay", "ReleasingPtt", "Idle", "Disabled"} /\ n.state # "Completed"
  BY <1>4, <1>5 DEF Active, PrePttStates, OnAirStates, AudioStates, Terminals
<1>8. ev.type # "PttRequestDispatched" => Falls(m, n)
  BY <1>3, <1>6, <1>7 DEF Falls, Same, Phase, Verdict
<1> QED BY <1>3, <1>7, <1>8 DEF Fits, Drained, Held

LEMMA TailEnds ==
    ASSUME NEW m, Good(m), NEW n, Progresses(m, n, Event("TailElapsed"))
    PROVE  /\ \A c : Fits(m, c) /\ c.complete /\ ~c.device => Fits(n, c) /\ Drained(n, c)
           /\ n.releaseRequired => Held(n) /\ Falls(m, n)
           /\ n.state = "ReleasingPtt" /\ n.deferred = "Completed"
           /\ n.releaseRequired = m.releaseRequired
           /\ m.state = "TailDelay"
<1>1. /\ m.state = "TailDelay" /\ n.state = "ReleasingPtt"
      /\ n.session = m.session /\ n.sessions = m.sessions /\ n.deferred = "Completed"
      /\ n.releaseRequired = m.releaseRequired
  BY DEF Progresses, Event, From, To
<1>2. Active(m) /\ Active(n) /\ m.state \notin Terminals /\ n.state \notin Terminals
  BY <1>1 DEF Active, PrePttStates, OnAirStates, AudioStates, Terminals
<1>3. n.releaseRequired => Falls(m, n)
  BY <1>1, <1>2 DEF Falls, Phase, Verdict, Deferrable, Terminals
<1> QED BY <1>1, <1>2, <1>3 DEF Fits, Drained, Held

LEMMA HasClosed ==
    ASSUME NEW m, Good(m), m.enabled, Held(m), NEW dt \in Nat
    PROVE  LET n == Dispatch(m, dt, Event("Disable")).tx
           IN  /\ \A c : Fits(m, c) => Fits(n, c) /\ Drained(n, c)
               /\ Falls(m, n) /\ Held(n)
<1> DEFINE n == Dispatch(m, dt, Event("Disable")).tx
<1>1. /\ m \in Machines /\ InvariantsHold(m)
      /\ m.requested => m.state \in OnAirStates
      /\ m.deferred = "Disabled" <=> m.state = "ReleasingPtt" /\ ~m.enabled
  BY GoodMeans
<1>2. m.releaseRequired => Active(m)
  BY <1>1 DEF InvariantsHold, Active
<1>3. /\ n.sessions = m.sessions
      /\ IF m.releaseRequired
         THEN /\ n.state = "ReleasingPtt" /\ n.deferred = "Disabled"
              /\ n.releaseRequired /\ n.session = m.session
         ELSE n.state = "Disabled" /\ n.deferred = "None" /\ ~n.releaseRequired
  BY DisableMoves
<1> HIDE DEF n
<1>4. CASE m.releaseRequired
  <2>1. Phase(n) = "releasing" /\ Verdict(n) = "None"
    BY <1>3, <1>4 DEF Phase, Verdict, Terminals
  <2>2. Verdict(m) = "None"
    BY <1>2, <1>4 DEF Verdict, Terminals, Active, PrePttStates, OnAirStates, AudioStates
  <2>3. IF m.state = "ReleasingPtt" THEN Phase(m) = "releasing" /\ m.deferred # "Disabled"
        ELSE Phase(m) = "keyed"
    BY <1>1, <1>2, <1>4 DEF Phase
  <2>4. Falls(m, n)
    BY <1>3, <1>4, <2>1, <2>2, <2>3 DEF Falls, Deferrable
  <2> QED BY <1>2, <1>3, <1>4, <2>4 DEF Fits, Drained, Held, n
<1>5. CASE ~m.releaseRequired
  <2>1. ~Active(n) /\ n.state = "Disabled" /\ n.deferred = "None"
    BY <1>3, <1>5 DEF Active, PrePttStates, OnAirStates, AudioStates
  <2>2. Over(n, "Disabled")
    BY <2>1 DEF Over, Phase, Verdict, Terminals
  <2>3. m.state # "ReleasingPtt" /\ m.state # "Disabled"
    BY <1>1, <1>5 DEF Held, InvariantsHold
  <2>4. Phase(m) \in {"open", "free"}
    BY <1>5, <2>3 DEF Phase
  <2>5. Falls(m, n)
    BY <2>2, <2>4 DEF Falls, Deferrable
  <2> QED BY <1>3, <2>1, <2>5 DEF Fits, Drained, Held, n
<1> QED BY <1>4, <1>5

LEMMA HasReleased ==
    ASSUME NEW m, Good(m), NEW dt \in Nat, m.state = "ReleasingPtt"
    PROVE  LET n == Dispatch(m, dt, Event("PttReleased")).tx
           IN  /\ \A c : Fits(m, c) => Fits(n, c) /\ Drained(n, c)
               /\ Over(n, m.deferred) /\ m.deferred \in Deferrable /\ Held(n)
<1> DEFINE n == Dispatch(m, dt, Event("PttReleased")).tx
<1>1. /\ n.state = m.deferred /\ m.deferred \in Deferrable
      /\ n.deferred = "None" /\ ~n.releaseRequired /\ n.sessions = m.sessions
  BY ReleasedMoves
<1> HIDE DEF n
<1>2. ~Active(n) /\ n.state # "ReleasingPtt" /\ n.state # "TailDelay"
      /\ n.state \in {"Disabled"} \cup Terminals
  BY <1>1 DEF Deferrable, Active, PrePttStates, OnAirStates, AudioStates, Terminals
<1>3. Over(n, m.deferred)
  BY <1>1, <1>2 DEF Over, Phase, Verdict, Terminals
<1> QED BY <1>1, <1>2, <1>3 DEF Fits, Drained, Held, n

LEMMA HasEnabled ==
    ASSUME NEW m, Good(m), NEW dt \in Nat, ~m.enabled, m.state = "Disabled"
    PROVE  LET n == Dispatch(m, dt, Event("Enable")).tx
           IN  /\ \A c : Fits(m, c) => Fits(n, c) /\ Drained(n, c)
               /\ Phase(m) = "off" /\ Phase(n) = "free" /\ Held(n)
               /\ n.deferred = m.deferred /\ Verdict(n) = Verdict(m)
<1> DEFINE n == Dispatch(m, dt, Event("Enable")).tx
<1>1. n.state = "Idle" /\ n.deferred = "None" /\ n.sessions = m.sessions
  BY EnableMoves
<1>2. m.deferred = "None" /\ ~Active(m)
  <2>1. m \in Machines /\ InvariantsHold(m)
    BY GoodMeans
  <2> QED BY <2>1 DEF InvariantsHold, Active, PrePttStates, OnAirStates, AudioStates
<1> HIDE DEF n
<1>3. ~Active(n)
  BY <1>1 DEF Active, PrePttStates, OnAirStates, AudioStates
<1>4. /\ Phase(m) = "off" /\ Phase(n) = "free"
      /\ Verdict(m) = "None" /\ Verdict(n) = "None"
  BY <1>1, <1>2, <1>3 DEF Phase, Verdict, Terminals
<1> QED BY <1>1, <1>2, <1>3, <1>4 DEF Fits, Drained, Held, n

-----------------------------------------------------------------------------
(* Run records.  tx, co and sound are the state in which the method was    *)
(* entered.                                                                *)
Hooks == {"on", "off", "start", "detach"}

Runs == [tx : Machines, co : Coordinators, dt : Int, calls : SUBSET Hooks,
         ok : BOOLEAN, over : BOOLEAN]

\* Wherever the hooks may have left SoundOutput, its device is still owned.
Lease(x, h) ==
    \A z \in SoundAfter(x, h) :
        z # 0 => x.co.device /\ x.co.startAttempted /\ x.co.session = z

\* Audio was started for a session whose radio could be on the air.
Approved(x) ==
    "start" \in x.calls =>
        /\ tx.state = "WaitingForPtt" /\ x.co.session = tx.session
        /\ co.needsRelease /\ LeadDelay > 0 => tx.confirmed

Safe(x, h) ==
    /\ x \in Runs /\ Good(x.tx) /\ Fits(x.tx, x.co)
    /\ Lease(x, h) /\ Approved(x)

Fine(x, h) == Safe(x, h) /\ Drained(x.tx, x.co) /\ Held(x.tx)

\* The coordinator's fields, but for its watch over the OFF command
SameCo(c, d) ==
    /\ d \in Coordinators
    /\ d.device = c.device /\ d.startAttempted = c.startAttempted
    /\ d.attached = c.attached /\ d.detachAttempted = c.detachAttempted
    /\ d.detachPending = c.detachPending /\ d.played = c.played
    /\ d.complete = c.complete /\ d.needsRelease = c.needsRelease
    /\ d.session = c.session

SameAudioCalls(x, y) == \A hook \in {"start", "detach"} : hook \in y.calls <=> hook \in x.calls

\* What the steps of a method have in common
Leads(x, y) ==
    /\ Falls(x.tx, y.tx) /\ y.co.session = x.co.session
    /\ "start" \in y.calls <=> "start" \in x.calls
    /\ x.dt = 0 => y.dt = 0

LEMMA LeadsOn ==
    ASSUME NEW x, NEW y, NEW z, Leads(x, y), Leads(y, z)
    PROVE  Leads(x, z)
  BY FallsOn DEF Leads

LEMMA Carried ==
    ASSUME NEW h, NEW x, Safe(x, h), NEW y \in Runs, Good(y.tx), Fits(y.tx, x.co),
           SameCo(x.co, y.co), SameAudioCalls(x, y)
    PROVE  /\ Safe(y, h) /\ (Drained(y.tx, x.co) => Drained(y.tx, y.co))
<1>1. Fits(y.tx, y.co) /\ (Drained(y.tx, x.co) => Drained(y.tx, y.co))
  BY DEF SameCo, Fits, Drained
<1>2. SoundAfter(y, h) = SoundAfter(x, h)
  BY DEF SameCo, SameAudioCalls, SoundAfter
<1>3. Lease(y, h)
  BY <1>2 DEF Safe, Lease, SameCo
<1>4. Approved(y)
  BY DEF Safe, Approved, SameCo, SameAudioCalls
<1> QED BY <1>1, <1>3, <1>4 DEF Safe

LEMMA Saturates ==
    ASSUME NEW age \in Nat PROVE Saturate(age) \in 0..MaxAge
  BY MachineAssumption DEF Saturate, MachineAssumption

\* y differs from x in what the observer has seen, and no more
SameRun(x, y) ==
    /\ y \in Runs /\ y.tx = x.tx /\ y.co = x.co /\ y.dt = x.dt
    /\ y.calls = x.calls /\ y.ok = x.ok

LEMMA PublishIs ==
    ASSUME NEW x \in Runs PROVE SameRun(x, Publish(x))
<1> DEFINE over == x.over \/ (x.tx.state \in Terminals \cup {"Disabled"} /\ ~x.co.device)
<1>1. over \in BOOLEAN
  BY DEF Runs
<1>2. Publish(x) = [x EXCEPT !.over = over]
  BY DEF Publish
<1> HIDE DEF over
<1> QED BY <1>1, <1>2 DEF Runs, SameRun

LEMMA DoIs ==
    ASSUME NEW x \in Runs, Good(x.tx), NEW ev \in Events
    PROVE  LET y == Do(x, ev)
               d == Dispatch(x.tx, x.dt, ev)
           IN  /\ y \in Runs /\ Good(y.tx) /\ y.tx = d.tx /\ (y.ok <=> d.ok)
               /\ SameCo(x.co, y.co) /\ y.calls = x.calls
               /\ x.dt >= 0 => y.dt = 0
<1> DEFINE d == Dispatch(x.tx, x.dt, ev)
           moved == IF x.dt > 0 THEN x.dt ELSE 0
           age == IF x.co.offAttempted THEN Saturate(x.co.offAge + moved) ELSE 0
           c == [x.co EXCEPT !.offAge = age]
           z == [x EXCEPT !.tx = d.tx, !.ok = d.ok /\ InvariantsHold(d.tx),
                          !.dt = x.dt - moved, !.co = c]
<1>1. x.dt \in Int /\ x.co \in Coordinators /\ x.calls \in SUBSET Hooks /\ x.over \in BOOLEAN
  BY DEF Runs
<1>2. Good(d.tx) /\ InvariantsHold(d.tx) /\ d.tx \in Machines
  BY <1>1, AlwaysGood, GoodMeans
<1>3. d.ok \in BOOLEAN
  BY DEF Dispatch, Urgent, Ordinary, Prepare, When, Accept, Reject
<1> HIDE DEF d
<1>4. moved \in Nat /\ x.dt - moved \in Int /\ (x.dt >= 0 => x.dt - moved = 0)
  BY <1>1
<1> HIDE DEF moved
<1>5. age \in 0..MaxAge
  <2>1. x.co.offAge \in 0..MaxAge
    BY <1>1 DEF Coordinators
  <2>2. x.co.offAge + moved \in Nat
    BY <1>4, <2>1, MachineAssumption DEF MachineAssumption
  <2>3. 0 \in 0..MaxAge
    BY MachineAssumption DEF MachineAssumption
  <2> QED BY <2>2, <2>3, Saturates
<1>6. Do(x, ev) = Publish(z)
  BY DEF Do, Answered, d, moved
<1> HIDE DEF age
<1>7. c \in Coordinators /\ SameCo(x.co, c)
  BY <1>1, <1>5 DEF Coordinators, SameCo
<1> HIDE DEF c
<1>8. /\ z \in Runs /\ z.tx = d.tx /\ (z.ok <=> d.ok) /\ z.co = c /\ z.calls = x.calls
      /\ z.dt = x.dt - moved
  BY <1>1, <1>2, <1>3, <1>4, <1>7 DEF Runs
<1> HIDE DEF z
<1>9. SameRun(z, Publish(z))
  BY <1>8, PublishIs
<1> QED BY <1>2, <1>4, <1>6, <1>7, <1>8, <1>9 DEF d, SameRun

LEMMA DoFine ==
    ASSUME NEW h, NEW x, Safe(x, h), NEW ev \in Events,
           Fits(Do(x, ev).tx, x.co), Drained(Do(x, ev).tx, x.co), Held(Do(x, ev).tx)
    PROVE  Fine(Do(x, ev), h) /\ (Falls(x.tx, Do(x, ev).tx) => Leads(x, Do(x, ev)))
<1> DEFINE y == Do(x, ev)
<1>1. x \in Runs /\ Good(x.tx) /\ x.dt \in Int
  BY DEF Safe, Runs
<1>2. /\ y \in Runs /\ Good(y.tx) /\ SameCo(x.co, y.co) /\ y.calls = x.calls
      /\ x.dt >= 0 => y.dt = 0
  BY <1>1, DoIs
<1> HIDE DEF y
<1>3. Safe(y, h) /\ (Drained(y.tx, x.co) => Drained(y.tx, y.co))
  <2>1. Fits(y.tx, x.co) /\ SameAudioCalls(x, y)
    BY <1>2 DEF y, SameAudioCalls
  <2> QED BY <1>2, <2>1, Carried
<1> QED BY <1>1, <1>2, <1>3 DEF y, Fine, Leads, SameCo

LEMMA SafeMeans ==
    ASSUME NEW h, NEW x, Safe(x, h)
    PROVE  /\ x \in Runs /\ Good(x.tx) /\ x.tx \in Machines /\ x.co \in Coordinators
           /\ x.dt \in Int /\ x.calls \in SUBSET Hooks /\ x.ok \in BOOLEAN
  BY DEF Safe, Runs

\* y differs from x in nothing that the invariants are about.
Alike(x, y) ==
    /\ y \in Runs /\ y.tx = x.tx /\ y.dt = x.dt
    /\ SameCo(x.co, y.co) /\ SameAudioCalls(x, y)

LEMMA AlikeFine ==
    ASSUME NEW h, NEW x, Safe(x, h), NEW y, Alike(x, y)
    PROVE  /\ Safe(y, h) /\ Leads(x, y)
           /\ (Drained(x.tx, x.co) => Drained(y.tx, y.co))
           /\ (Fine(x, h) => Fine(y, h))
<1>1. Fits(x.tx, x.co) /\ Good(x.tx)
  BY DEF Safe
<1>2. Safe(y, h) /\ (Drained(x.tx, x.co) => Drained(y.tx, y.co))
  BY <1>1, Carried DEF Alike
<1>3. Leads(x, y)
  BY DEF Leads, Alike, SameCo, SameAudioCalls, Falls, Same
<1> QED BY <1>2, <1>3 DEF Fine, Alike

LEMMA ReturnIs ==
    ASSUME NEW x \in Runs, NEW ok \in BOOLEAN
    PROVE  /\ Alike(x, Return(x, ok)) /\ Return(x, ok).co = x.co
           /\ Return(x, ok).calls = x.calls /\ Return(x, ok).ok = ok
  BY DEF Return, Runs, Alike, SameCo, SameAudioCalls

LEMMA PublishAlike ==
    ASSUME NEW x \in Runs
    PROVE  Alike(x, Publish(x))
<1>1. SameRun(x, Publish(x)) /\ x.co \in Coordinators
  BY PublishIs DEF Runs
<1> QED BY <1>1 DEF SameRun, Alike, SameCo, SameAudioCalls

LEMMA CallingIs ==
    ASSUME NEW x \in Runs, NEW hook \in Hooks
    PROVE  LET y == Calling(x, hook)
           IN  /\ y \in Runs /\ y.tx = x.tx /\ y.co = x.co /\ y.dt = x.dt /\ y.ok = x.ok
               /\ y.calls = x.calls \cup {hook}
  BY DEF Calling, Runs

LEMMA CallingAlike ==
    ASSUME NEW x \in Runs, NEW hook \in {"on", "off"}
    PROVE  Alike(x, Calling(x, hook))
<1>1. hook \in Hooks /\ x.co \in Coordinators
  BY DEF Hooks, Runs
<1> DEFINE y == Calling(x, hook)
<1>2. /\ y \in Runs /\ y.tx = x.tx /\ y.co = x.co /\ y.dt = x.dt
      /\ y.calls = x.calls \cup {hook}
  BY <1>1, CallingIs
<1> HIDE DEF y
<1> QED BY <1>1, <1>2 DEF Alike, SameCo, SameAudioCalls, y

LEMMA AskOffAlike ==
    ASSUME NEW x \in Runs
    PROVE  Alike(x, AskOff(x))
<1> DEFINE y == Calling(x, "off")
           age == IF x.dt < 0 THEN Saturate(-x.dt) ELSE 0
           c == [y.co EXCEPT !.offAttempted = TRUE, !.offAge = age]
           z == [y EXCEPT !.co = c]
<1>1. y \in Runs /\ y.co \in Coordinators /\ Alike(x, y) /\ x.dt \in Int
  BY CallingAlike DEF Alike, Runs
<1>2. age \in 0..MaxAge
  <2>1. 0 \in 0..MaxAge
    BY MachineAssumption DEF MachineAssumption
  <2>2. CASE x.dt < 0
    <3>1. -x.dt \in Nat
      BY <1>1, <2>2
    <3> QED BY <2>2, <3>1, Saturates
  <2> QED BY <2>1, <2>2
<1>3. AskOff(x) = z
  BY DEF AskOff
<1> HIDE DEF y, age
<1>4. c \in Coordinators /\ SameCo(y.co, c)
  BY <1>1, <1>2 DEF Coordinators, SameCo
<1> HIDE DEF c
<1>5. z \in Runs /\ z.tx = y.tx /\ z.co = c /\ z.dt = y.dt /\ z.calls = y.calls
  BY <1>1, <1>4 DEF Runs
<1> HIDE DEF z
<1> QED BY <1>1, <1>3, <1>4, <1>5 DEF Alike, SameCo, SameAudioCalls

LEMMA DoTick ==
    ASSUME NEW h, NEW x, Fine(x, h)
    PROVE  LET y == Do(x, Event("Tick"))
           IN  /\ Fine(y, h) /\ Leads(x, y)
               /\ y.ok => y.dt = 0 /\ (SameBut(x.tx, y.tx) \/ TimesOut(x.tx, y.tx))
<1> DEFINE ev == Event("Tick")
           y == Do(x, ev)
<1>1. /\ Safe(x, h) /\ Drained(x.tx, x.co) /\ Held(x.tx)
      /\ Good(x.tx) /\ x.tx \in Machines /\ x.dt \in Int /\ x \in Runs /\ Fits(x.tx, x.co)
  BY SafeMeans DEF Fine, Safe
<1>2. ev \in Events
  BY DEF Events, PlainEvents
<1>3. /\ y.tx = Dispatch(x.tx, x.dt, ev).tx /\ (y.ok <=> Dispatch(x.tx, x.dt, ev).ok)
      /\ x.dt >= 0 => y.dt = 0
  BY <1>1, <1>2, DoIs
<1> HIDE DEF y
<1>4. \/ x.dt >= 0 /\ y.ok /\ (SameBut(x.tx, y.tx) \/ TimesOut(x.tx, y.tx))
      \/ ~y.ok /\ x.tx.state = "Disabled" /\ SameBut(x.tx, y.tx)
      \/ ~y.ok /\ x.tx.state # "Disabled" /\ Ends(x.tx, y.tx, "Error")
  <2>1. CASE x.dt < 0
    <3>1. x.tx.state = "Disabled" => SameBut(x.tx, x.tx)
      BY <1>1 DEF SameBut, Machines
    <3> QED BY <1>1, <1>3, <2>1, <3>1, ClockBroken
  <2>2. CASE x.dt \in Nat
    BY <1>1, <1>3, <2>2, TickMoves
  <2> QED BY <1>1, <2>1, <2>2
<1>5. /\ Fits(y.tx, x.co) /\ Drained(y.tx, x.co) /\ Falls(x.tx, y.tx) /\ Held(y.tx)
  <2>1. CASE SameBut(x.tx, y.tx)
    BY <1>1, <2>1, Waited
  <2>2. CASE x.tx.state # "Disabled" /\ Ends(x.tx, y.tx, "Error")
    BY <1>1, <2>2, HasEnded
  <2>3. TimesOut(x.tx, y.tx) => x.tx.state # "Disabled" /\ Ends(x.tx, y.tx, "Error")
    BY DEF TimesOut, TimedStates, PrePttStates, OnAirStates, AudioStates
  <2> QED BY <1>4, <2>1, <2>2, <2>3
<1>6. Fine(y, h) /\ Leads(x, y)
  BY <1>1, <1>2, <1>5, DoFine DEF y
<1> QED BY <1>3, <1>4, <1>6 DEF y

LEMMA DoEnd ==
    ASSUME NEW h, NEW x, Safe(x, h), Held(x.tx), Active(x.tx),
           NEW type \in {"Failure", "Cancel"}
    PROVE  LET y == Do(x, Event(type))
           IN  /\ Fine(y, h) /\ Leads(x, y) /\ SameCo(x.co, y.co)
               /\ Ends(x.tx, y.tx, "Error") \/ (type = "Cancel" /\ Ends(x.tx, y.tx, "Cancelled"))
<1> DEFINE ev == Event(type)
           y == Do(x, ev)
<1>1. Good(x.tx) /\ x.tx \in Machines /\ x.dt \in Int /\ x \in Runs /\ Fits(x.tx, x.co)
  BY SafeMeans DEF Safe
<1>2. ev \in Events
  BY DEF Events, PlainEvents
<1>3. y.tx = Dispatch(x.tx, x.dt, ev).tx /\ SameCo(x.co, y.co)
  BY <1>1, <1>2, DoIs
<1>4. x.tx.state # "Disabled"
  BY DEF Active, PrePttStates, OnAirStates, AudioStates
<1> HIDE DEF y
<1>5. Ends(x.tx, y.tx, "Error") \/ (type = "Cancel" /\ Ends(x.tx, y.tx, "Cancelled"))
  <2>1. CASE x.dt < 0
    BY <1>1, <1>3, <1>4, <2>1, ClockBroken
  <2>2. CASE x.dt \in Nat
    BY <1>1, <1>3, <2>2, FailureMoves
  <2> QED BY <1>1, <2>1, <2>2
<1>6. /\ Fits(y.tx, x.co) /\ Drained(y.tx, x.co) /\ Falls(x.tx, y.tx) /\ Held(y.tx)
  BY <1>1, <1>4, <1>5, HasEnded
<1>7. Fine(y, h) /\ Leads(x, y)
  BY <1>1, <1>2, <1>6, DoFine DEF y
<1> QED BY <1>3, <1>5, <1>7 DEF y

LEMMA DoProgress ==
    ASSUME NEW h, NEW x, Fine(x, h), NEW ev \in Progress,
           ev.type \notin {"TailElapsed", "PttRequestDispatched"}
    PROVE  LET y == Do(x, ev)
           IN  /\ Fine(y, h) /\ Leads(x, y) /\ SameCo(x.co, y.co)
               /\ y.ok => y.dt = 0 /\ (TimesOut(x.tx, y.tx) \/ Progresses(x.tx, y.tx, ev))
               /\ ~y.ok => \/ SameBut(x.tx, y.tx)
                           \/ x.tx.state # "Disabled" /\ Ends(x.tx, y.tx, "Error")
<1> DEFINE y == Do(x, ev)
<1>1. /\ Safe(x, h) /\ Drained(x.tx, x.co) /\ Held(x.tx)
      /\ Good(x.tx) /\ x.tx \in Machines /\ x.dt \in Int /\ x \in Runs /\ Fits(x.tx, x.co)
  BY SafeMeans DEF Fine, Safe
<1>2. ev \in Events
  BY ProgressTypes
<1>3. /\ y.tx = Dispatch(x.tx, x.dt, ev).tx /\ (y.ok <=> Dispatch(x.tx, x.dt, ev).ok)
      /\ x.dt >= 0 => y.dt = 0
      /\ SameCo(x.co, y.co)
  BY <1>1, <1>2, DoIs
<1> HIDE DEF y
<1>4. \/ x.dt >= 0 /\ y.ok /\ (TimesOut(x.tx, y.tx) \/ Progresses(x.tx, y.tx, ev))
      \/ ~y.ok /\ SameBut(x.tx, y.tx)
      \/ ~y.ok /\ x.tx.state # "Disabled" /\ Ends(x.tx, y.tx, "Error")
  <2>1. CASE x.dt < 0
    <3>1. x.tx.state = "Disabled" => SameBut(x.tx, x.tx)
      BY <1>1 DEF SameBut, Machines
    <3> QED BY <1>1, <1>3, <2>1, <3>1, ClockBroken
  <2>2. CASE x.dt \in Nat
    BY <1>1, <1>3, <2>2, ProgressMoves
  <2> QED BY <1>1, <2>1, <2>2
<1>5. /\ Fits(y.tx, x.co) /\ Drained(y.tx, x.co) /\ Falls(x.tx, y.tx) /\ Held(y.tx)
  <2>1. CASE SameBut(x.tx, y.tx)
    BY <1>1, <2>1, Waited
  <2>2. CASE x.tx.state # "Disabled" /\ Ends(x.tx, y.tx, "Error")
    BY <1>1, <2>2, HasEnded
  <2>3. TimesOut(x.tx, y.tx) => x.tx.state # "Disabled" /\ Ends(x.tx, y.tx, "Error")
    BY DEF TimesOut, TimedStates, PrePttStates, OnAirStates, AudioStates
  <2>4. CASE Progresses(x.tx, y.tx, ev)
    BY <1>1, <2>4, HasProgressed
  <2> QED BY <1>4, <2>1, <2>2, <2>3, <2>4
<1>6. Fine(y, h) /\ Leads(x, y)
  BY <1>1, <1>2, <1>5, DoFine DEF y
<1> QED BY <1>3, <1>4, <1>6 DEF y

-----------------------------------------------------------------------------
(* The private helpers.                                                    *)

\* SoundOutput no longer pulls.
Silent(x, h) == \A z \in SoundAfter(x, h) : z = 0

LEMMA LeaseGone ==
    ASSUME NEW h, NEW x, Safe(x, h), ~x.co.startAttempted \/ ~x.co.device
    PROVE  Silent(x, h)
  BY DEF Safe, Lease, Silent

LEMMA ReleaseLeaseIs ==
    ASSUME NEW h, NEW x, Safe(x, h), Silent(x, h)
    PROVE  LET y == ReleaseLease(x)
           IN  /\ Safe(y, h) /\ Leads(x, y) /\ (Fine(x, h) => Fine(y, h))
               /\ y.tx = x.tx /\ y.dt = x.dt /\ y.ok = x.ok /\ ~y.co.device
               /\ y.co.complete = x.co.complete
<1> DEFINE c == [x.co EXCEPT !.attached = FALSE, !.detachPending = FALSE, !.device = FALSE]
           y == [x EXCEPT !.co = c]
<1>1. x \in Runs /\ x.co \in Coordinators /\ Good(x.tx) /\ Fits(x.tx, x.co)
  BY SafeMeans DEF Safe
<1>2. /\ c \in Coordinators /\ ~c.attached /\ ~c.detachPending /\ ~c.device
      /\ c.session = x.co.session /\ c.complete = x.co.complete /\ c.played = x.co.played
  BY <1>1 DEF Coordinators
<1>3. ReleaseLease(x) = y
  BY DEF ReleaseLease
<1> HIDE DEF c
<1>4. /\ y \in Runs /\ y.tx = x.tx /\ y.co = c /\ y.dt = x.dt
      /\ y.calls = x.calls /\ y.ok = x.ok
  BY <1>1, <1>2 DEF Runs
<1> HIDE DEF y
<1>5. Fits(y.tx, y.co) /\ Drained(y.tx, y.co)
  BY <1>1, <1>2, <1>4 DEF Fits, Drained
<1>6. SoundAfter(y, h) = SoundAfter(x, h)
  BY <1>2, <1>4 DEF SoundAfter
<1>7. Lease(y, h)
  BY <1>6 DEF Lease, Silent
<1>8. Approved(y)
  BY <1>2, <1>4 DEF Safe, Approved
<1>9. Safe(y, h)
  BY <1>1, <1>4, <1>5, <1>7, <1>8 DEF Safe
<1>10. Leads(x, y)
  BY <1>2, <1>4 DEF Leads, Falls, Same
<1> QED BY <1>2, <1>3, <1>4, <1>5, <1>9, <1>10 DEF Fine

LEMMA DetachAudioIs ==
    ASSUME NEW h \in Answers, NEW x, Safe(x, h)
    PROVE  LET y == DetachAudio(x, h)
           IN  /\ Safe(y, h) /\ Leads(x, y) /\ (Fine(x, h) => Fine(y, h))
               /\ y.tx = x.tx /\ y.co.complete = x.co.complete
               /\ y.ok => ~y.co.device
               /\ ~y.co.device \/ y.co.detachPending
<1> DEFINE y == DetachAudio(x, h)
           Right(z) == /\ Safe(z, h) /\ Leads(x, z) /\ (Fine(x, h) => Fine(z, h))
                       /\ z.tx = x.tx /\ z.co.complete = x.co.complete
                       /\ z.ok => ~z.co.device
                       /\ ~z.co.device \/ z.co.detachPending
<1>1. x \in Runs /\ x.co \in Coordinators /\ Good(x.tx) /\ Fits(x.tx, x.co)
  BY SafeMeans DEF Safe
<1>2. CASE ~x.co.device
  <2>1. y = Return(x, TRUE)
    BY <1>2 DEF DetachAudio
  <2>2. Alike(x, Return(x, TRUE)) /\ Return(x, TRUE).co = x.co
    BY <1>1, ReturnIs
  <2> HIDE DEF y
  <2>3. Right(y)
    BY <1>2, <2>1, <2>2, AlikeFine DEF Alike
  <2> QED BY <2>3 DEF y
<1>3. CASE x.co.device /\ ~x.co.startAttempted
  <2> DEFINE r == ReleaseLease(x)
  <2>1. y = Return(r, TRUE)
    BY <1>3 DEF DetachAudio
  <2>2. /\ Safe(r, h) /\ Leads(x, r) /\ (Fine(x, h) => Fine(r, h))
        /\ r.tx = x.tx /\ ~r.co.device /\ r.co.complete = x.co.complete
    BY <1>3, LeaseGone, ReleaseLeaseIs
  <2> HIDE DEF y, r
  <2>3. Alike(r, y) /\ y.co = r.co
    BY <2>1, <2>2, ReturnIs, SafeMeans
  <2>4. Safe(y, h) /\ Leads(r, y) /\ (Fine(r, h) => Fine(y, h)) /\ y.tx = r.tx
    BY <2>2, <2>3, AlikeFine DEF Alike
  <2>5. Right(y)
    BY <2>2, <2>3, <2>4, LeadsOn
  <2> QED BY <2>5 DEF y
<1>4. CASE x.co.device /\ x.co.startAttempted /\ x.co.detachAttempted
  <2>1. y = Return(x, FALSE)
    BY <1>4 DEF DetachAudio
  <2>2. Alike(x, Return(x, FALSE)) /\ Return(x, FALSE).co = x.co /\ ~Return(x, FALSE).ok
    BY <1>1, ReturnIs
  <2>3. x.co.detachPending
    BY <1>1, <1>4 DEF Fits
  <2> HIDE DEF y
  <2>4. Right(y)
    BY <2>1, <2>2, <2>3, AlikeFine DEF Alike
  <2> QED BY <2>4 DEF y
<1>5. CASE x.co.device /\ x.co.startAttempted /\ ~x.co.detachAttempted
  <2> DEFINE k == Calling(x, "detach")
             c == [k.co EXCEPT !.detachAttempted = TRUE, !.detachPending = TRUE]
             asked == [k EXCEPT !.co = c]
  <2>1. /\ k \in Runs /\ k.tx = x.tx /\ k.co = x.co /\ k.dt = x.dt
        /\ k.calls = x.calls \cup {"detach"}
    BY <1>1, CallingIs DEF Hooks
  <2>2. y = IF h.detach THEN Return(Publish(ReleaseLease(asked)), TRUE)
            ELSE Return(Publish(asked), FALSE)
    <3> DEFINE z == [k EXCEPT !.co.detachAttempted = TRUE, !.co.detachPending = TRUE]
    <3>1. y = IF h.detach THEN Return(Publish(ReleaseLease(z)), TRUE)
              ELSE Return(Publish(z), FALSE)
      BY <1>5 DEF DetachAudio
    <3> HIDE DEF k, y
    <3>2. z = asked
      BY <2>1 DEF Runs
    <3> HIDE DEF z, asked
    <3> QED BY <3>1, <3>2
  <2> HIDE DEF y, k
  <2>3. /\ c \in Coordinators /\ c.detachPending
        /\ c.session = x.co.session /\ c.complete = x.co.complete /\ c.played = x.co.played
        /\ c.device = x.co.device /\ c.startAttempted = x.co.startAttempted
        /\ c.attached = x.co.attached
    BY <1>1, <2>1 DEF Coordinators
  <2> HIDE DEF c
  <2>4. /\ asked \in Runs /\ asked.tx = x.tx /\ asked.co = c /\ asked.dt = x.dt
        /\ asked.calls = x.calls \cup {"detach"}
    BY <2>1, <2>3 DEF Runs
  <2> HIDE DEF asked
  <2>5. Fits(asked.tx, asked.co) /\ (Drained(x.tx, x.co) => Drained(asked.tx, asked.co))
    BY <1>1, <1>5, <2>3, <2>4 DEF Fits, Drained
  <2>6. IF h.detach THEN SoundAfter(asked, h) = {0}
        ELSE SoundAfter(asked, h) = SoundAfter(x, h)
    BY <2>3, <2>4 DEF SoundAfter
  <2>7. Lease(asked, h) /\ (h.detach => Silent(asked, h))
    BY <2>3, <2>4, <2>6 DEF Safe, Lease, Silent
  <2>8. Approved(asked)
    BY <2>3, <2>4 DEF Safe, Approved
  <2>9. Safe(asked, h) /\ (Fine(x, h) => Fine(asked, h))
    BY <1>1, <2>4, <2>5, <2>7, <2>8 DEF Safe, Fine
  <2>10. Leads(x, asked)
    BY <2>3, <2>4 DEF Leads, Falls, Same
  <2>11. CASE h.detach
    <3> DEFINE r == ReleaseLease(asked)
               q == Publish(r)
    <3>1. y = Return(q, TRUE)
      BY <2>2, <2>11
    <3>2. /\ Safe(r, h) /\ Leads(asked, r) /\ (Fine(asked, h) => Fine(r, h))
          /\ r.tx = asked.tx /\ ~r.co.device /\ r.co.complete = asked.co.complete
      BY <2>7, <2>9, <2>11, ReleaseLeaseIs
    <3> HIDE DEF r
    <3>3. SameRun(r, q)
      BY <3>2, PublishIs, SafeMeans
    <3>4. Safe(q, h) /\ Leads(r, q) /\ (Fine(r, h) => Fine(q, h)) /\ q.tx = r.tx /\ q.co = r.co
      BY <3>2, <3>3, PublishAlike, SafeMeans, AlikeFine DEF SameRun
    <3> HIDE DEF q
    <3>5. Alike(q, y) /\ y.co = q.co
      BY <3>1, <3>4, ReturnIs, SafeMeans
    <3>6. Safe(y, h) /\ Leads(q, y) /\ (Fine(q, h) => Fine(y, h)) /\ y.tx = q.tx
      BY <3>4, <3>5, AlikeFine DEF Alike
    <3>7. Leads(x, y)
      BY <2>10, <3>2, <3>4, <3>6, LeadsOn
    <3>8. Right(y)
      BY <2>3, <2>4, <2>9, <3>2, <3>4, <3>5, <3>6, <3>7
    <3> QED BY <3>8 DEF y
  <2>12. CASE ~h.detach
    <3> DEFINE q == Publish(asked)
    <3>1. y = Return(q, FALSE)
      BY <2>2, <2>12
    <3>2. SameRun(asked, q)
      BY <2>4, PublishIs
    <3>3. /\ Safe(q, h) /\ Leads(asked, q) /\ (Fine(asked, h) => Fine(q, h))
          /\ q.tx = asked.tx /\ q.co = asked.co
      BY <2>4, <2>9, <3>2, PublishAlike, AlikeFine DEF SameRun
    <3> HIDE DEF q
    <3>4. Alike(q, y) /\ y.co = q.co /\ ~y.ok
      BY <3>1, <3>3, ReturnIs, SafeMeans
    <3>5. Safe(y, h) /\ Leads(q, y) /\ (Fine(q, h) => Fine(y, h)) /\ y.tx = q.tx
      BY <3>3, <3>4, AlikeFine DEF Alike
    <3>6. Leads(x, y)
      BY <2>10, <3>3, <3>5, LeadsOn
    <3>7. Right(y)
      BY <2>3, <2>4, <2>9, <3>3, <3>4, <3>5, <3>6
    <3> QED BY <3>7 DEF y
  <2> QED BY <2>11, <2>12
<1> QED BY <1>2, <1>3, <1>4, <1>5

LEMMA RequestPttReleaseIs ==
    ASSUME NEW h \in Answers, NEW x, Fine(x, h)
    PROVE  LET y == RequestPttRelease(x, h)
           IN  Fine(y, h) /\ Leads(x, y) /\ y.tx.enabled = x.tx.enabled
<1> DEFINE y == RequestPttRelease(x, h)
           a == AskOff(x)
<1>1. Safe(x, h) /\ Held(x.tx) /\ x \in Runs
  BY SafeMeans DEF Fine
<1>2. /\ Fine(a, h) /\ Leads(x, a) /\ a.tx = x.tx /\ a \in Runs
  BY <1>1, AskOffAlike, AlikeFine DEF Alike
<1> HIDE DEF a
<1>3. CASE y = x
  BY <1>3 DEF Leads, Falls, Same
<1>4. CASE y = Publish(a)
  <2>1. Alike(a, y)
    BY <1>2, <1>4, PublishAlike
  <2> HIDE DEF y
  <2>2. Fine(y, h) /\ Leads(a, y) /\ y.tx = a.tx
    BY <1>2, <2>1, AlikeFine DEF Fine, Alike
  <2> QED BY <1>2, <2>2, LeadsOn DEF y
<1>5. CASE x.tx.state = "ReleasingPtt" /\ y = Do(a, Event("Failure"))
  <2>1. Active(a.tx)
    BY <1>2, <1>5 DEF Active, OnAirStates
  <2> HIDE DEF y
  <2>2. Fine(y, h) /\ Leads(a, y) /\ Ends(a.tx, y.tx, "Error")
    BY <1>2, <1>5, <2>1, DoEnd DEF Fine
  <2> QED BY <1>2, <2>2, LeadsOn DEF y, Ends
<1> QED BY <1>1, <1>3, <1>4, <1>5 DEF RequestPttRelease, Held, a

LEMMA AfterEndIs ==
    ASSUME NEW h \in Answers, NEW x, Fine(x, h), ~x.co.device \/ x.co.detachPending
    PROVE  LET y == AfterEnd(x, h)
           IN  Fine(y, h) /\ Leads(x, y) /\ y.tx.enabled = x.tx.enabled
<1> DEFINE r == RequestPttRelease(x, h)
           l == ReleaseLease(x)
           b == IF x.tx.state = "ReleasingPtt" THEN r
                ELSE IF x.tx.state \in Terminals /\ ~x.co.detachPending THEN l
                ELSE x
           y == Publish(b)
<1>1. Fine(r, h) /\ Leads(x, r) /\ r.tx.enabled = x.tx.enabled
  BY RequestPttReleaseIs
<1>2. ~x.co.detachPending => Fine(l, h) /\ Leads(x, l) /\ l.tx = x.tx
  BY LeaseGone, ReleaseLeaseIs DEF Fine
<1>3. Leads(x, x)
  BY DEF Leads, Falls, Same
<1>4. AfterEnd(x, h) = y
  BY DEF AfterEnd
<1> HIDE DEF r, l
<1>5. Fine(b, h) /\ Leads(x, b) /\ b.tx.enabled = x.tx.enabled
  BY <1>1, <1>2, <1>3
<1> HIDE DEF b
<1>6. Alike(b, y)
  BY <1>5, PublishAlike, SafeMeans DEF Fine
<1> HIDE DEF y
<1>7. Fine(y, h) /\ Leads(b, y) /\ y.tx = b.tx
  BY <1>5, <1>6, AlikeFine DEF Fine, Alike
<1> QED BY <1>4, <1>5, <1>7, LeadsOn

\* A session that comes to nothing, in the eyes of the station
Ruined(m) ==
    \/ Over(m, "Error")
    \/ Phase(m) = "releasing" /\ m.deferred = "Error" /\ Verdict(m) = "None"

LEMMA RuinStays ==
    ASSUME NEW m, Ruined(m), NEW n, Good(n), n.enabled, Falls(m, n)
    PROVE  Ruined(n)
<1>1. n \in Machines /\ InvariantsHold(n) /\ (n.deferred = "Disabled" => ~n.enabled)
  BY GoodMeans
<1>2. Phase(n) # "off" /\ n.deferred # "Disabled"
  BY <1>1 DEF Phase, InvariantsHold
<1> QED BY <1>2 DEF Ruined, Falls, Same, Over, Deferrable, Terminals

LEMMA EndRuins ==
    ASSUME NEW m, Good(m), Active(m), m.enabled, NEW n, Ends(m, n, "Error")
    PROVE  Ruined(n)
<1>1. m \in Machines /\ (m.deferred = "Disabled" => ~m.enabled)
  BY GoodMeans
<1>2. n.state \in {"ReleasingPtt", "Error"}
      /\ n.deferred = IF n.state = "ReleasingPtt" THEN "Error" ELSE "None"
  BY <1>1 DEF Ends
<1>3. n.state = "Error" => ~Active(n)
  BY DEF Active, PrePttStates, OnAirStates, AudioStates
<1> QED BY <1>2, <1>3 DEF Ruined, Over, Phase, Verdict, Terminals

LEMMA FailIs ==
    ASSUME NEW h \in Answers, NEW x, Safe(x, h), Held(x.tx)
    PROVE  LET y == Fail(x, h)
           IN  /\ Fine(y, h) /\ Leads(x, y) /\ ~y.ok
               /\ y.tx.enabled = x.tx.enabled
               /\ x.tx.enabled /\ (Active(x.tx) \/ Ruined(x.tx)) => Ruined(y.tx)
<1> DEFINE f == IF Active(x.tx) THEN Do(x, Event("Failure")) ELSE x
           d == DetachAudio(f, h)
           e == AfterEnd(d, h)
           y == Return(e, FALSE)
<1>1. Fail(x, h) = y
  BY DEF Fail
<1>2. /\ Fine(f, h) /\ Leads(x, f) /\ f.tx.enabled = x.tx.enabled
      /\ x.tx.enabled /\ (Active(x.tx) \/ Ruined(x.tx)) => Ruined(f.tx)
  <2>1. CASE Active(x.tx)
    <3> DEFINE g == Do(x, Event("Failure"))
    <3>1. Fine(g, h) /\ Leads(x, g) /\ Ends(x.tx, g.tx, "Error")
      BY <2>1, DoEnd
    <3>2. x.tx.enabled => Ruined(g.tx)
      BY <2>1, <3>1, EndRuins, SafeMeans
    <3> QED BY <2>1, <3>1, <3>2 DEF Ends
  <2>2. CASE ~Active(x.tx)
    <3>1. x.tx.state # "TailDelay"
      BY <2>2 DEF Active, OnAirStates, AudioStates
    <3>2. Fine(x, h) /\ Leads(x, x)
      BY <3>1 DEF Fine, Drained, Leads, Falls, Same
    <3> QED BY <2>2, <3>2
  <2> QED BY <2>1, <2>2
<1> HIDE DEF f
<1>3. /\ Fine(d, h) /\ Leads(f, d) /\ d.tx = f.tx
      /\ ~d.co.device \/ d.co.detachPending
  BY <1>2, DetachAudioIs DEF Fine
<1> HIDE DEF d
<1>4. Fine(e, h) /\ Leads(d, e) /\ e.tx.enabled = d.tx.enabled
  BY <1>3, AfterEndIs
<1> HIDE DEF e
<1>5. Alike(e, y) /\ ~y.ok
  BY <1>4, ReturnIs, SafeMeans DEF Fine
<1> HIDE DEF y
<1>6. Fine(y, h) /\ Leads(e, y) /\ y.tx = e.tx
  BY <1>4, <1>5, AlikeFine DEF Fine, Alike
<1>7. Leads(x, y) /\ Falls(f.tx, y.tx) /\ y.tx.enabled = x.tx.enabled
  <2>1. Leads(f, y)
    BY <1>3, <1>4, <1>6, LeadsOn
  <2> QED BY <1>2, <1>3, <1>4, <1>6, <2>1, LeadsOn DEF Leads
<1>8. x.tx.enabled /\ (Active(x.tx) \/ Ruined(x.tx)) => Ruined(y.tx)
  BY <1>2, <1>6, <1>7, RuinStays, SafeMeans DEF Fine
<1> QED BY <1>1, <1>5, <1>6, <1>7, <1>8

LEMMA WithClock ==
    ASSUME NEW x \in Runs
    PROVE  LET y == [x EXCEPT !.dt = 0]
           IN  /\ y \in Runs /\ y.tx = x.tx /\ y.co = x.co /\ y.calls = x.calls /\ y.dt = 0
  BY DEF Runs

LEMMA RejectedIs ==
    ASSUME NEW h \in Answers, NEW x, Fine(x, h)
    PROVE  LET y == Rejected(x, h)
           IN  Fine(y, h) /\ Leads(x, y) /\ ~y.ok
<1> DEFINE s == [x EXCEPT !.dt = 0]
           d == DetachAudio(s, h)
           r == RequestPttRelease(d, h)
           b == IF x.tx.state = "ReleasingPtt" THEN r ELSE x
           y == Return(b, FALSE)
<1>1. Safe(x, h) /\ x \in Runs
  BY SafeMeans DEF Fine
<1>2. Rejected(x, h) = y
  <2>1. s.tx = x.tx
    BY <1>1, WithClock
  <2> QED BY <2>1 DEF Rejected
<1>3. /\ s \in Runs /\ s.tx = x.tx /\ s.co = x.co /\ s.calls = x.calls /\ s.dt = 0
  BY <1>1, WithClock
<1> HIDE DEF s
<1>4. Fine(s, h) /\ Leads(x, s)
  <2>1. SameCo(x.co, s.co) /\ SameAudioCalls(x, s) /\ Good(s.tx) /\ Fits(s.tx, x.co)
    BY <1>1, <1>3, SafeMeans DEF SameCo, SameAudioCalls, Safe
  <2>2. Safe(s, h)
    BY <1>1, <1>3, <2>1, Carried
  <2> QED BY <1>3, <2>2 DEF Fine, Leads, Falls, Same
<1>5. Fine(d, h) /\ Leads(s, d)
  BY <1>4, DetachAudioIs DEF Fine
<1> HIDE DEF d
<1>6. Fine(r, h) /\ Leads(d, r)
  BY <1>5, RequestPttReleaseIs
<1> HIDE DEF r
<1>7. Fine(b, h) /\ Leads(x, b)
  <2>1. Leads(x, r)
    BY <1>4, <1>5, <1>6, LeadsOn
  <2>2. Leads(x, x)
    BY DEF Leads, Falls, Same
  <2> QED BY <1>6, <2>1, <2>2
<1> HIDE DEF b
<1>8. Alike(b, y) /\ ~y.ok
  BY <1>7, ReturnIs, SafeMeans DEF Fine
<1> HIDE DEF y
<1>9. Fine(y, h) /\ Leads(b, y)
  BY <1>7, <1>8, AlikeFine DEF Fine
<1> QED BY <1>2, <1>7, <1>8, <1>9, LeadsOn

LEMMA OrFailIs ==
    ASSUME NEW h \in Answers, NEW x, Fine(x, h)
    PROVE  Fine(OrFail(x, h), h) /\ Leads(x, OrFail(x, h))
<1>1. Leads(x, x) /\ Safe(x, h) /\ Held(x.tx)
  BY DEF Leads, Falls, Same, Fine
<1>2. Fine(Fail(x, h), h) /\ Leads(x, Fail(x, h))
  BY <1>1, FailIs
<1> QED BY <1>1, <1>2 DEF OrFail

LEMMA ReturnFine ==
    ASSUME NEW h, NEW x, Fine(x, h), NEW ok \in BOOLEAN
    PROVE  LET y == Return(x, ok)
           IN  /\ Fine(y, h) /\ Leads(x, y) /\ y.tx = x.tx /\ y.co = x.co
               /\ y.calls = x.calls /\ y.ok = ok /\ y.dt = x.dt
<1>1. Safe(x, h) /\ x \in Runs
  BY SafeMeans DEF Fine
<1> DEFINE y == Return(x, ok)
<1>2. Alike(x, y) /\ y.co = x.co /\ y.calls = x.calls /\ y.ok = ok
  BY <1>1, ReturnIs
<1> HIDE DEF y
<1> QED BY <1>1, <1>2, AlikeFine DEF Alike, y

LEMMA PublishFine ==
    ASSUME NEW h, NEW x, Fine(x, h)
    PROVE  LET y == Publish(x)
           IN  /\ Fine(y, h) /\ Leads(x, y) /\ y.tx = x.tx /\ y.co = x.co
               /\ y.calls = x.calls /\ y.ok = x.ok /\ y.dt = x.dt
<1>1. Safe(x, h) /\ x \in Runs
  BY SafeMeans DEF Fine
<1> DEFINE y == Publish(x)
<1>2. Alike(x, y) /\ SameRun(x, y)
  BY <1>1, PublishAlike, PublishIs
<1> HIDE DEF y
<1> QED BY <1>1, <1>2, AlikeFine DEF SameRun, y

-----------------------------------------------------------------------------
(* The start of the audio, the end of the tail, and tick().                *)

\* As Leads, for steps that may start the audio
Proceeds(x, y) ==
    /\ Falls(x.tx, y.tx) /\ y.co.session = x.co.session
    /\ x.dt = 0 => y.dt = 0

LEMMA LeadsProceeds ==
    ASSUME NEW x, NEW y, NEW z
    PROVE  /\ Leads(x, y) => Proceeds(x, y)
           /\ Proceeds(x, y) /\ Proceeds(y, z) => Proceeds(x, z)
  BY FallsOn DEF Leads, Proceeds

\* The method was entered in a state in which its session may be heard.
MayStart(x) ==
    /\ tx.state = "WaitingForPtt" /\ x.co.session = tx.session
    /\ co.needsRelease /\ LeadDelay > 0 => tx.confirmed

LEMMA AskStartIs ==
    ASSUME NEW h, NEW x, Fine(x, h), x.co.device, MayStart(x)
    PROVE  LET y == AskStart(x)
           IN  Fine(y, h) /\ Proceeds(x, y) /\ y.co.device /\ y.tx = x.tx
<1> DEFINE k == Calling(x, "start")
           c == [k.co EXCEPT !.startAttempted = TRUE, !.attached = TRUE]
           y == [k EXCEPT !.co = c]
<1>1. x \in Runs /\ x.co \in Coordinators /\ Good(x.tx) /\ Fits(x.tx, x.co) /\ Safe(x, h)
  BY SafeMeans DEF Fine, Safe
<1>2. /\ k \in Runs /\ k.tx = x.tx /\ k.co = x.co /\ k.dt = x.dt
      /\ k.calls = x.calls \cup {"start"}
  BY <1>1, CallingIs DEF Hooks
<1>3. AskStart(x) = y
  <2> DEFINE z == [k EXCEPT !.co.startAttempted = TRUE, !.co.attached = TRUE]
  <2>1. AskStart(x) = z
    BY DEF AskStart
  <2> HIDE DEF k
  <2>2. z = y
    BY <1>2 DEF Runs
  <2> QED BY <2>1, <2>2
<1> HIDE DEF k
<1>4. /\ c \in Coordinators /\ c.startAttempted /\ c.device = x.co.device
      /\ c.detachAttempted = x.co.detachAttempted /\ c.detachPending = x.co.detachPending
      /\ c.complete = x.co.complete /\ c.played = x.co.played /\ c.session = x.co.session
  BY <1>1, <1>2 DEF Coordinators
<1> HIDE DEF c
<1>5. /\ y \in Runs /\ y.tx = x.tx /\ y.co = c /\ y.dt = x.dt
      /\ y.calls = x.calls \cup {"start"}
  BY <1>2, <1>4 DEF Runs
<1> HIDE DEF y
<1>6. Fits(y.tx, y.co) /\ Drained(y.tx, y.co)
  BY <1>1, <1>4, <1>5 DEF Fits, Drained, Fine
<1>7. SoundAfter(y, h) \subseteq {0, c.session}
  BY <1>4, <1>5 DEF SoundAfter
<1>8. Lease(y, h)
  BY <1>4, <1>5, <1>7 DEF Lease
<1>9. Approved(y)
  BY <1>4, <1>5 DEF Approved, MayStart
<1>10. Fine(y, h)
  BY <1>1, <1>5, <1>6, <1>8, <1>9 DEF Fine, Safe
<1>11. Proceeds(x, y)
  BY <1>4, <1>5 DEF Proceeds, Falls, Same
<1> QED BY <1>3, <1>4, <1>5, <1>10, <1>11

LEMMA StartAudioIs ==
    ASSUME NEW h \in Answers, NEW x, Fine(x, h),
           x.tx.state = "WaitingForPtt" /\ x.tx.confirmed => MayStart(x)
    PROVE  LET y == StartAudio(x, h)
           IN  /\ Fine(y, h) /\ Proceeds(x, y)
               /\ y.ok => y.co.device
               /\ x.co.startAttempted => ("start" \in y.calls <=> "start" \in x.calls)
<1> DEFINE y == StartAudio(x, h)
           ev == Event("LeadElapsed")
           led == Do(x, ev)
           asked == AskStart(led)
           Right(z) == Fine(z, h) /\ Proceeds(x, z) /\ (z.ok => z.co.device)
<1>1. CASE \/ x.co.startAttempted \/ ~x.co.device
           \/ x.tx.state # "WaitingForPtt" \/ ~x.tx.confirmed
  <2> DEFINE r == Return(x, FALSE)
  <2>1. y = r
    BY <1>1 DEF StartAudio
  <2>2. Fine(r, h) /\ Leads(x, r) /\ ~r.ok /\ r.calls = x.calls
    BY ReturnFine
  <2> HIDE DEF r, y
  <2>3. Proceeds(x, r)
    BY <2>2, LeadsProceeds
  <2> QED BY <2>1, <2>2, <2>3 DEF y
<1>2. CASE /\ ~x.co.startAttempted /\ x.co.device
           /\ x.tx.state = "WaitingForPtt" /\ x.tx.confirmed
  <2>1. y = StartLed(led, h)
    BY <1>2 DEF StartAudio
  <2>2. ev \in Progress /\ ev.type = "LeadElapsed"
    BY DEF Progress, From, Event
  <2>3. Fine(led, h) /\ Leads(x, led) /\ SameCo(x.co, led.co)
    BY <2>2, DoProgress
  <2>4. Proceeds(x, led) /\ led.co.device /\ MayStart(led)
    BY <1>2, <2>3, LeadsProceeds DEF SameCo, MayStart
  <2> HIDE DEF led
  <2>5. Fine(asked, h) /\ Proceeds(led, asked) /\ asked.co.device
    BY <2>3, <2>4, AskStartIs
  <2> HIDE DEF asked
  <2>6. Proceeds(x, asked)
    BY <2>4, <2>5, LeadsProceeds
  <2>7. Right(Return(Publish(asked), TRUE))
    <3> DEFINE p == Publish(asked)
               r == Return(p, TRUE)
    <3>1. Fine(p, h) /\ Leads(asked, p) /\ p.co = asked.co
      BY <2>5, PublishFine
    <3> HIDE DEF p
    <3>2. Fine(r, h) /\ Leads(p, r) /\ r.co = p.co
      BY <3>1, ReturnFine
    <3> HIDE DEF r
    <3>3. Proceeds(x, r)
      BY <2>6, <3>1, <3>2, LeadsProceeds
    <3> QED BY <2>5, <3>1, <3>2, <3>3 DEF r, p
  <2>8. ASSUME NEW z, Fine(z, h), Proceeds(x, z) PROVE Right(Fail(z, h))
    <3> DEFINE r == Fail(z, h)
    <3>1. Fine(r, h) /\ Leads(z, r) /\ ~r.ok
      BY <2>8, FailIs DEF Fine
    <3> HIDE DEF r
    <3>2. Proceeds(x, r)
      BY <2>8, <3>1, LeadsProceeds
    <3> QED BY <3>1, <3>2 DEF r
  <2> HIDE DEF y
  <2>9. y \in {Return(Publish(asked), TRUE), Fail(asked, h), Fail(led, h)}
    BY <2>1 DEF StartLed, asked
  <2>10. Right(y)
    BY <2>3, <2>4, <2>5, <2>6, <2>7, <2>8, <2>9
  <2> QED BY <1>2, <2>10 DEF y
<1> QED BY <1>1, <1>2

LEMMA TailedIs ==
    ASSUME NEW h \in Answers, NEW x, Fine(x, h), x.dt = 0,
           x.tx.state = "TailDelay", x.co.complete
    PROVE  LET y == Tailed(Do(x, Event("TailElapsed")), h)
           IN  Fine(y, h) /\ Leads(x, y)
<1> DEFINE ev == Event("TailElapsed")
           d == Do(x, ev)
           r == RequestPttRelease(d, h)
           y == Tailed(d, h)
<1>1. /\ Safe(x, h) /\ Held(x.tx) /\ ~x.co.device
      /\ x \in Runs /\ Good(x.tx) /\ x.tx \in Machines /\ Fits(x.tx, x.co)
  BY SafeMeans DEF Fine, Safe, Drained
<1>2. ev \in Events /\ ev \in Progress /\ ev.type = "TailElapsed"
  <2>1. ev \in Progress /\ ev.type = "TailElapsed"
    BY DEF Progress, From, Event
  <2> QED BY <2>1, ProgressTypes
<1>3. /\ d \in Runs /\ Good(d.tx) /\ d.dt = 0
      /\ d.tx = Dispatch(x.tx, 0, ev).tx /\ (d.ok <=> Dispatch(x.tx, 0, ev).ok)
      /\ SameCo(x.co, d.co) /\ d.calls = x.calls
  <2>1. x.dt >= 0
    OBVIOUS
  <2> QED BY <1>1, <1>2, <2>1, DoIs
<1> HIDE DEF d
<1>4. \/ ~d.ok /\ SameBut(x.tx, d.tx)
      \/ d.ok /\ TimesOut(x.tx, d.tx)
      \/ d.ok /\ Progresses(x.tx, d.tx, ev)
  BY <1>1, <1>2, <1>3, ProgressMoves
<1>5. CASE ~d.ok
  <2>1. SameBut(x.tx, d.tx)
    BY <1>4, <1>5
  <2>2. /\ Fits(d.tx, x.co) /\ Drained(d.tx, x.co) /\ Falls(x.tx, d.tx) /\ Held(d.tx)
    BY <1>1, <2>1, Waited DEF Fine
  <2>3. Fine(d, h) /\ Leads(x, d)
    BY <1>1, <1>2, <2>2, DoFine DEF d
  <2>4. y = Fail(d, h)
    BY <1>5 DEF Tailed
  <2> QED BY <2>3, <2>4, FailIs, LeadsOn DEF Fine, d
<1>6. ASSUME Fine(d, h), Leads(x, d), d.ok
      PROVE  Fine(y, h) /\ Leads(x, y)
  <2>1. Fine(r, h) /\ Leads(d, r)
    BY <1>6, RequestPttReleaseIs
  <2>2. y = Return(r, TRUE)
    BY <1>6 DEF Tailed
  <2> HIDE DEF r, y
  <2>3. Fine(y, h) /\ Leads(r, y)
    BY <2>1, <2>2, ReturnFine
  <2> QED BY <1>6, <2>1, <2>3, LeadsOn
<1>7. CASE d.ok /\ TimesOut(x.tx, d.tx)
  <2>1. /\ Fits(d.tx, x.co) /\ Drained(d.tx, x.co) /\ Falls(x.tx, d.tx) /\ Held(d.tx)
    BY <1>1, <1>7, HasEnded DEF TimesOut
  <2>2. Fine(d, h) /\ Leads(x, d)
    BY <1>1, <1>2, <2>1, DoFine DEF d
  <2> QED BY <1>6, <1>7, <2>2 DEF d
<1>8. CASE d.ok /\ Progresses(x.tx, d.tx, ev) /\ d.tx.releaseRequired
  <2>1. /\ Fits(d.tx, x.co) /\ Drained(d.tx, x.co) /\ Falls(x.tx, d.tx) /\ Held(d.tx)
    BY <1>1, <1>8, TailEnds
  <2>2. Fine(d, h) /\ Leads(x, d)
    BY <1>1, <1>2, <2>1, DoFine DEF d
  <2> QED BY <1>6, <1>8, <2>2 DEF d
<1>9. CASE d.ok /\ Progresses(x.tx, d.tx, ev) /\ ~d.tx.releaseRequired
  <2> DEFINE w == Do(d, Event("PttReleased"))
  <2>1. /\ Fits(d.tx, x.co) /\ Drained(d.tx, x.co) /\ d.tx.deferred = "Completed"
        /\ d.tx.state = "ReleasingPtt" /\ ~x.tx.releaseRequired
    BY <1>1, <1>9, TailEnds
  <2>2. Safe(d, h)
    <3>1. SameAudioCalls(x, d)
      BY <1>3 DEF SameAudioCalls
    <3> QED BY <1>1, <1>3, <2>1, <3>1, Carried
  <2>3. Event("PttReleased") \in Events
    BY DEF Events, PlainEvents
  <2>4. w.tx = Dispatch(d.tx, 0, Event("PttReleased")).tx /\ SameCo(d.co, w.co)
        /\ w.calls = d.calls /\ w.dt = 0
    <3>1. d.dt >= 0
      BY <1>3
    <3> QED BY <1>3, <2>3, <3>1, DoIs
  <2>5. Fits(w.tx, d.co) /\ Drained(w.tx, d.co) /\ Over(w.tx, "Completed") /\ Held(w.tx)
    <3>1. Fits(d.tx, d.co)
      BY <2>2 DEF Safe
    <3> QED BY <1>3, <2>1, <2>4, <3>1, HasReleased
  <2>6. Fine(w, h)
    BY <2>2, <2>3, <2>5, DoFine
  <2>7. y = Return(w, TRUE)
    BY <1>9, <2>1 DEF Tailed, RequestPttRelease
  <2> HIDE DEF w, y
  <2>8. Phase(x.tx) = "open"
    BY <2>1 DEF Phase, Active, OnAirStates, AudioStates
  <2>9. Leads(x, w)
    BY <1>3, <2>4, <2>5, <2>8 DEF Leads, Falls, SameCo, Deferrable, Terminals
  <2>10. Fine(y, h) /\ Leads(w, y)
    BY <2>6, <2>7, ReturnFine
  <2> QED BY <2>9, <2>10, LeadsOn DEF y, d
<1> QED BY <1>4, <1>5, <1>7, <1>8, <1>9

LEMMA TickIs ==
    ASSUME NEW h \in Answers, NEW x, Fine(x, h), x.tx = tx, x.co = co, "start" \notin x.calls
    PROVE  LET y == Tick(x, h)
           IN  /\ Fine(y, h) /\ Proceeds(x, y)
               /\ y.ok => y.dt = 0
               /\ y.ok /\ "start" \in y.calls => y.co.device
               /\ co.startAttempted => "start" \notin y.calls
<1> DEFINE ev == Event("Tick")
           d == Do(x, ev)
           y == Tick(x, h)
           Right(z) == /\ Fine(z, h) /\ Proceeds(x, z)
                       /\ z.ok => z.dt = 0
                       /\ z.ok /\ "start" \in z.calls => z.co.device
                       /\ co.startAttempted => "start" \notin z.calls
<1>1. /\ Safe(x, h) /\ x \in Runs /\ Good(x.tx) /\ x.tx \in Machines /\ Fits(x.tx, x.co)
  BY SafeMeans DEF Fine, Safe
<1>2. ev \in Events
  BY DEF Events, PlainEvents
<1>3. /\ Fine(d, h) /\ Leads(x, d)
      /\ d.ok => d.dt = 0 /\ (SameBut(x.tx, d.tx) \/ TimesOut(x.tx, d.tx))
  BY DoTick
<1>4. SameCo(x.co, d.co)
  BY <1>1, <1>2, DoIs
<1>5. y = Ticked(tx.state, d, h)
  BY DEF Tick
<1> HIDE DEF d, y
<1>6. ASSUME NEW z, Fine(z, h), Leads(d, z), z.ok => d.ok
      PROVE  Right(z)
  <2>1. Leads(x, z)
    BY <1>3, <1>6, LeadsOn
  <2>2. Proceeds(x, z) /\ "start" \notin z.calls
    BY <2>1, LeadsProceeds DEF Leads
  <2>3. z.ok => z.dt = 0
    BY <1>3, <1>6 DEF Leads
  <2> QED BY <1>6, <2>2, <2>3
<1>7. CASE ~d.ok
  <2> DEFINE z == Rejected(d, h)
  <2>1. Fine(z, h) /\ Leads(d, z) /\ ~z.ok
    BY <1>3, RejectedIs
  <2>2. y = z
    BY <1>5, <1>7 DEF Ticked
  <2> HIDE DEF z
  <2>3. Right(y)
    BY <1>6, <2>1, <2>2
  <2> QED BY <2>3 DEF y
<1>8. CASE d.ok /\ y = Return(RequestPttRelease(DetachAudio(d, h), h), TRUE)
  <2> DEFINE a == DetachAudio(d, h)
             b == RequestPttRelease(a, h)
  <2>1. Fine(a, h) /\ Leads(d, a)
    BY <1>3, DetachAudioIs DEF Fine
  <2> HIDE DEF a
  <2>2. Fine(b, h) /\ Leads(a, b)
    BY <2>1, RequestPttReleaseIs
  <2>3. y = Return(b, TRUE)
    BY <1>8 DEF a
  <2> HIDE DEF b
  <2>4. Fine(y, h) /\ Leads(b, y)
    BY <2>2, <2>3, ReturnFine
  <2>5. Leads(d, y)
    BY <2>1, <2>2, <2>4, LeadsOn
  <2>6. Right(y)
    BY <1>6, <1>8, <2>4, <2>5
  <2> QED BY <2>6 DEF y
<1>9. CASE d.ok /\ y = Return(IF d.co.startAttempted THEN d ELSE ReleaseLease(d), TRUE)
  <2> DEFINE l == ReleaseLease(d)
             b == IF d.co.startAttempted THEN d ELSE l
  <2>1. ~d.co.startAttempted => Fine(l, h) /\ Leads(d, l)
    BY <1>3, LeaseGone, ReleaseLeaseIs DEF Fine
  <2>2. Leads(d, d)
    BY DEF Leads, Falls, Same
  <2> HIDE DEF l
  <2>3. Fine(b, h) /\ Leads(d, b)
    BY <1>3, <2>1, <2>2
  <2>4. y = Return(b, TRUE)
    BY <1>9 DEF l
  <2> HIDE DEF b
  <2>5. Fine(y, h) /\ Leads(b, y)
    BY <2>3, <2>4, ReturnFine
  <2>6. Leads(d, y)
    BY <2>3, <2>5, LeadsOn
  <2>7. Right(y)
    BY <1>6, <1>9, <2>5, <2>6
  <2> QED BY <2>7 DEF y
<1>10. CASE d.ok /\ y = StartAudio(d, h)
  <2>1. d.tx.state = "WaitingForPtt" /\ d.tx.confirmed => MayStart(d)
    <3>1. SUFFICES ASSUME d.tx.state = "WaitingForPtt", d.tx.confirmed PROVE MayStart(d)
      OBVIOUS
    <3>2. ~TimesOut(x.tx, d.tx)
      BY <1>1, <3>1 DEF TimesOut, Ends
    <3>3. x.tx.state = "WaitingForPtt" /\ x.tx.confirmed
      BY <1>1, <1>3, <1>10, <3>1, <3>2 DEF SameBut, Machines
    <3>4. Active(x.tx)
      BY <3>3 DEF Active, OnAirStates
    <3> QED BY <1>1, <1>4, <3>3, <3>4 DEF MayStart, Fits, SameCo
  <2> DEFINE s == StartAudio(d, h)
  <2>2. /\ Fine(s, h) /\ Proceeds(d, s) /\ (s.ok => s.co.device)
        /\ d.co.startAttempted => ("start" \in s.calls <=> "start" \in d.calls)
    BY <1>3, <2>1, StartAudioIs
  <2> HIDE DEF s
  <2>3. Proceeds(x, s) /\ "start" \notin d.calls
    BY <1>3, <2>2, LeadsProceeds DEF Leads
  <2>4. co.startAttempted => d.co.startAttempted
    BY <1>4 DEF SameCo
  <2>5. s.dt = 0
    BY <1>3, <1>10, <2>2 DEF Proceeds
  <2>6. Right(y)
    BY <1>10, <2>2, <2>3, <2>4, <2>5 DEF s
  <2> QED BY <2>6 DEF y
<1>11. CASE d.ok /\ d.tx.state = "TailDelay" /\ TailOver(d) /\ y = Tailed(Do(d, Event("TailElapsed")), h)
  <2>1. d.co.complete /\ d.dt = 0
    BY <1>3, <1>11 DEF TailOver
  <2>2. Fine(y, h) /\ Leads(d, y)
    BY <1>3, <1>11, <2>1, TailedIs
  <2>3. Right(y)
    BY <1>6, <1>11, <2>2
  <2> QED BY <2>3 DEF y
<1>12. CASE d.ok /\ y = Return(RequestPttRelease(d, h), TRUE)
  <2> DEFINE b == RequestPttRelease(d, h)
  <2>1. Fine(b, h) /\ Leads(d, b) /\ y = Return(b, TRUE)
    BY <1>3, <1>12, RequestPttReleaseIs
  <2> HIDE DEF b
  <2>2. Fine(y, h) /\ Leads(b, y)
    BY <2>1, ReturnFine
  <2>3. Leads(d, y)
    BY <2>1, <2>2, LeadsOn
  <2>4. Right(y)
    BY <1>6, <1>12, <2>2, <2>3
  <2> QED BY <2>4 DEF y
<1>13. CASE d.ok /\ y = d
  <2>1. Leads(d, d)
    BY DEF Leads, Falls, Same
  <2>2. Right(y)
    BY <1>3, <1>6, <1>13, <2>1
  <2> QED BY <2>2 DEF y
<1> QED BY <1>5, <1>7, <1>8, <1>9, <1>10, <1>11, <1>12, <1>13 DEF Ticked

-----------------------------------------------------------------------------
(* The public methods, entered in tx, co and sound.                        *)

IInv ==
    /\ Good(tx) /\ co \in Coordinators /\ sound \in Nat
    /\ Fits(tx, co) /\ Drained(tx, co) /\ Held(tx)
    /\ sound # 0 => co.device /\ co.startAttempted /\ co.session = sound

Called(x, h) == Fine(x, h) /\ x.tx = tx /\ x.co = co /\ x.calls = {}

LEMMA RunEnters ==
    ASSUME IInv, NEW dt \in Int, NEW h
    PROVE  Called(Run(tx, co, dt), h)
<1> DEFINE x == Run(tx, co, dt)
<1>1. x.tx = tx /\ x.co = co /\ x.calls = {}
  BY DEF Run
<1>2. x \in Runs
  BY GoodMeans DEF Run, Runs, IInv
<1> HIDE DEF x
<1>3. Lease(x, h)
  BY <1>1 DEF Lease, SoundAfter, IInv
<1>4. Approved(x)
  BY <1>1 DEF Approved
<1> QED BY <1>1, <1>2, <1>3, <1>4 DEF Called, Fine, Safe, IInv, x

\* How a method that neither begins nor releases a session returns
Returns(y, h) == Fine(y, h) /\ Falls(tx, y.tx)

LEMMA LedReturns ==
    ASSUME NEW h, NEW x, Called(x, h), NEW y, Fine(y, h), Leads(x, y) \/ Proceeds(x, y)
    PROVE  Returns(y, h)
  BY DEF Returns, Called, Leads, Proceeds

LEMMA RefusalReturns ==
    ASSUME NEW h, NEW x, Called(x, h), NEW ok \in BOOLEAN
    PROVE  Returns(Return(x, ok), h)
<1> DEFINE y == Return(x, ok)
<1>1. Fine(y, h) /\ Leads(x, y)
  BY ReturnFine DEF Called
<1> HIDE DEF y
<1> QED BY <1>1, LedReturns DEF y

LEMMA FailReturns ==
    ASSUME NEW h \in Answers, NEW x, Called(x, h)
    PROVE  Returns(Fail(x, h), h)
<1> DEFINE y == Fail(x, h)
<1>1. Fine(y, h) /\ Leads(x, y)
  BY FailIs DEF Called, Fine
<1> HIDE DEF y
<1> QED BY <1>1, LedReturns DEF y

LEMMA TickReturns ==
    ASSUME NEW h \in Answers, NEW x, Called(x, h)
    PROVE  Returns(Tick(x, h), h)
<1> DEFINE y == Tick(x, h)
<1>1. Fine(y, h) /\ Proceeds(x, y)
  BY TickIs DEF Called
<1> HIDE DEF y
<1> QED BY <1>1, LedReturns DEF y

LEMMA EnableReturns ==
    ASSUME NEW h \in Answers, NEW x, Called(x, h)
    PROVE  LET y == Enable(x)
           IN  \/ Returns(y, h)
               \/ /\ Fine(y, h) /\ Phase(tx) = "off" /\ Phase(y.tx) = "free"
                  /\ y.tx.deferred = tx.deferred /\ Verdict(y.tx) = Verdict(tx)
<1> DEFINE ev == Event("Enable")
           y == Do(x, ev)
<1>1. CASE x.tx.enabled \/ x.tx.state # "Disabled"
  <2>1. Enable(x) = Return(x, FALSE)
    BY <1>1 DEF Enable
  <2> QED BY <2>1, RefusalReturns
<1>2. CASE ~x.tx.enabled /\ x.tx.state = "Disabled"
  <2>1. /\ Safe(x, h) /\ x \in Runs /\ Good(x.tx) /\ x.tx \in Machines /\ Fits(x.tx, x.co)
        /\ Drained(x.tx, x.co) /\ Held(x.tx) /\ x.dt \in Int
    BY SafeMeans DEF Called, Fine, Safe
  <2>2. Enable(x) = y
    BY <1>2 DEF Enable
  <2>3. ev \in Events
    BY DEF Events, PlainEvents
  <2>4. y.tx = Dispatch(x.tx, x.dt, ev).tx
    BY <2>1, <2>3, DoIs
  <2> HIDE DEF y
  <2>5. CASE x.dt \in Nat
    <3>1. /\ Fits(y.tx, x.co) /\ Drained(y.tx, x.co) /\ Held(y.tx)
          /\ Phase(x.tx) = "off" /\ Phase(y.tx) = "free"
          /\ y.tx.deferred = x.tx.deferred /\ Verdict(y.tx) = Verdict(x.tx)
      BY <1>2, <2>1, <2>4, <2>5, HasEnabled
    <3>2. Fine(y, h)
      BY <2>1, <2>3, <3>1, DoFine DEF y
    <3> QED BY <2>2, <3>1, <3>2 DEF Called
  <2>6. CASE x.dt < 0
    <3>1. y.tx = x.tx
      BY <1>2, <2>1, <2>4, <2>6, ClockBroken
    <3>2. Fine(y, h) /\ (Falls(x.tx, y.tx) => Leads(x, y))
      BY <2>1, <2>3, <3>1, DoFine DEF y
    <3>3. Falls(x.tx, y.tx)
      BY <3>1 DEF Falls, Same
    <3> QED BY <2>2, <3>2, <3>3, LedReturns
  <2> QED BY <2>1, <2>5, <2>6
<1> QED BY <1>1, <1>2

LEMMA CancelReturns ==
    ASSUME NEW h \in Answers, NEW x, Called(x, h)
    PROVE  Returns(Cancel(x, h), h)
<1> DEFINE d == Do(x, Event("Cancel"))
           a == DetachAudio(d, h)
           b == AfterEnd(a, h)
           r == Return(b, TRUE)
           z == Rejected(d, h)
<1>1. CASE ~Active(x.tx)
  <2>1. Cancel(x, h) = Return(x, FALSE)
    BY <1>1 DEF Cancel
  <2> QED BY <2>1, RefusalReturns
<1>2. CASE Active(x.tx)
  <2>1. Fine(d, h) /\ Leads(x, d)
    BY <1>2, DoEnd DEF Called, Fine
  <2>2. Cancel(x, h) = IF d.ok THEN r ELSE z
    BY <1>2 DEF Cancel, Ended
  <2> HIDE DEF d
  <2>3. Fine(a, h) /\ Leads(d, a) /\ (~a.co.device \/ a.co.detachPending)
    BY <2>1, DetachAudioIs DEF Fine
  <2> HIDE DEF a
  <2>4. Fine(b, h) /\ Leads(a, b)
    BY <2>3, AfterEndIs
  <2> HIDE DEF b
  <2>5. Fine(r, h) /\ Leads(b, r)
    BY <2>4, ReturnFine
  <2>6. Fine(z, h) /\ Leads(d, z)
    BY <2>1, RejectedIs
  <2> HIDE DEF r, z
  <2>7. Leads(x, r) /\ Leads(x, z)
    BY <2>1, <2>3, <2>4, <2>5, <2>6, LeadsOn
  <2>8. Returns(r, h) /\ Returns(z, h)
    BY <2>5, <2>6, <2>7, LedReturns
  <2> QED BY <2>2, <2>8
<1> QED BY <1>1, <1>2

LEMMA CloseIs ==
    ASSUME NEW h \in Answers, NEW x, Fine(x, h), ~x.co.device \/ x.co.detachPending
    PROVE  Fine(Close(x, h), h) /\ Leads(x, Close(x, h))
<1> DEFINE r == RequestPttRelease(x, h)
           l == ReleaseLease(x)
           b == IF x.tx.state = "ReleasingPtt" THEN r
                ELSE IF x.tx.state = "Disabled" /\ ~x.co.detachPending THEN l
                ELSE x
           y == Publish(b)
<1>1. Fine(r, h) /\ Leads(x, r)
  BY RequestPttReleaseIs
<1>2. ~x.co.detachPending => Fine(l, h) /\ Leads(x, l)
  BY LeaseGone, ReleaseLeaseIs DEF Fine
<1>3. Leads(x, x)
  BY DEF Leads, Falls, Same
<1>4. Close(x, h) = y
  BY DEF Close
<1> HIDE DEF r, l
<1>5. Fine(b, h) /\ Leads(x, b)
  BY <1>1, <1>2, <1>3
<1> HIDE DEF b
<1>6. Fine(y, h) /\ Leads(b, y)
  BY <1>5, PublishFine
<1> QED BY <1>4, <1>5, <1>6, LeadsOn

LEMMA ShutdownReturns ==
    ASSUME NEW h \in Answers, NEW x, Called(x, h)
    PROVE  Returns(Shutdown(x, h), h)
<1> DEFINE ev == Event("Disable")
           d == Do(x, ev)
           e == IF x.tx.enabled THEN d ELSE Return(x, TRUE)
           a == DetachAudio(e, h)
           b == Close(a, h)
           r == Return(b, TRUE)
           z == Rejected(e, h)
<1>1. CASE x.tx.state = "Disabled"
  <2>1. Shutdown(x, h) = Return(x, TRUE)
    BY <1>1 DEF Shutdown
  <2> QED BY <2>1, RefusalReturns
<1>2. CASE x.tx.state # "Disabled"
  <2>1. /\ Safe(x, h) /\ x \in Runs /\ Good(x.tx) /\ x.tx \in Machines /\ Fits(x.tx, x.co)
        /\ Held(x.tx) /\ x.dt \in Int
    BY SafeMeans DEF Called, Fine, Safe
  <2>2. Shutdown(x, h) = IF e.ok THEN r ELSE z
    BY <1>2 DEF Shutdown, Disabled
  <2>3. x.tx.enabled => Fine(d, h) /\ Leads(x, d)
    <3>1. SUFFICES ASSUME x.tx.enabled PROVE Fine(d, h) /\ Leads(x, d)
      OBVIOUS
    <3>2. ev \in Events
      BY DEF Events, PlainEvents
    <3>3. d.tx = Dispatch(x.tx, x.dt, ev).tx
      BY <2>1, <3>2, DoIs
    <3> HIDE DEF d
    <3>4. Fits(d.tx, x.co) /\ Drained(d.tx, x.co) /\ Falls(x.tx, d.tx) /\ Held(d.tx)
      <4>1. CASE x.dt \in Nat
        BY <2>1, <3>1, <3>3, <4>1, HasClosed
      <4>2. CASE x.dt < 0
        <5>1. Ends(x.tx, d.tx, "Error")
          BY <1>2, <2>1, <3>3, <4>2, ClockBroken
        <5> QED BY <1>2, <2>1, <5>1, HasEnded
      <4> QED BY <2>1, <4>1, <4>2
    <3> QED BY <2>1, <3>2, <3>4, DoFine DEF d
  <2>4. Fine(Return(x, TRUE), h) /\ Leads(x, Return(x, TRUE))
    BY ReturnFine DEF Called
  <2>5. Fine(e, h) /\ Leads(x, e)
    BY <2>3, <2>4
  <2> HIDE DEF e
  <2>6. Fine(a, h) /\ Leads(e, a) /\ (~a.co.device \/ a.co.detachPending)
    BY <2>5, DetachAudioIs DEF Fine
  <2> HIDE DEF a
  <2>7. Fine(b, h) /\ Leads(a, b)
    BY <2>6, CloseIs
  <2> HIDE DEF b
  <2>8. Fine(r, h) /\ Leads(b, r)
    BY <2>7, ReturnFine
  <2>9. Fine(z, h) /\ Leads(e, z)
    BY <2>5, RejectedIs
  <2> HIDE DEF r, z
  <2>10. Leads(x, r) /\ Leads(x, z)
    BY <2>5, <2>6, <2>7, <2>8, <2>9, LeadsOn
  <2>11. Returns(r, h) /\ Returns(z, h)
    BY <2>8, <2>9, <2>10, LedReturns
  <2> QED BY <2>2, <2>11
<1> QED BY <1>1, <1>2

LEMMA ConfirmedReturns ==
    ASSUME NEW h \in Answers, NEW x, Called(x, h), NEW sid
    PROVE  Returns(NotifyPttConfirmed(x, h, sid), h)
<1> DEFINE ev == Event("PttConfirmed")
           d == Do(x, ev)
           y == NotifyPttConfirmed(x, h, sid)
<1>1. CASE ~Matches(x, sid) \/ x.tx.state # "WaitingForPtt" \/ x.tx.confirmed
  <2>1. y = Return(x, FALSE)
    BY <1>1 DEF NotifyPttConfirmed
  <2> QED BY <2>1, RefusalReturns
<1>2. CASE x.tx.state = "WaitingForPtt" /\ y = Confirmed(d, h)
  <2>1. ev \in Progress /\ ev.type = "PttConfirmed"
    BY DEF Progress, From, Event
  <2>2. Fine(d, h) /\ Leads(x, d) /\ SameCo(x.co, d.co)
    BY <2>1, DoProgress DEF Called
  <2> HIDE DEF d, y
  <2>3. CASE y = Rejected(d, h)
    <3>1. Fine(y, h) /\ Leads(d, y)
      BY <2>2, <2>3, RejectedIs
    <3> QED BY <2>2, <3>1, LeadsOn, LedReturns DEF y
  <2>4. CASE NoLead(d) /\ y = StartAudio(d, h)
    <3>1. Active(tx) /\ tx.state = "WaitingForPtt"
      BY <1>2 DEF Called, Active, OnAirStates
    <3>2. d.co.session = tx.session
      BY <2>2, <3>1 DEF SameCo, Called, Fine, Safe, Fits
    <3>3. ~(co.needsRelease /\ LeadDelay > 0)
      BY <2>2, <2>4 DEF NoLead, SameCo, Called
    <3>4. MayStart(d)
      BY <3>1, <3>2, <3>3 DEF MayStart
    <3>5. Fine(y, h) /\ Proceeds(d, y)
      BY <2>2, <2>4, <3>4, StartAudioIs
    <3> QED BY <2>2, <3>5, LeadsProceeds, LedReturns DEF y
  <2>5. CASE y = Return(d, TRUE)
    <3>1. Fine(y, h) /\ Leads(d, y)
      BY <2>2, <2>5, ReturnFine
    <3> QED BY <2>2, <3>1, LeadsOn, LedReturns DEF y
  <2> QED BY <1>2, <2>3, <2>4, <2>5 DEF Confirmed
<1> QED BY <1>1, <1>2 DEF NotifyPttConfirmed

LEMMA AudioErrorReturns ==
    ASSUME NEW h \in Answers, NEW x, Called(x, h), NEW sid
    PROVE  Returns(NotifyAudioError(x, h, sid), h)
  BY RefusalReturns, FailReturns DEF NotifyAudioError

LEMMA DetachedReturns ==
    ASSUME NEW h \in Answers, NEW x, Called(x, h), NEW sid, sid # sound
    PROVE  Returns(NotifyAudioDetached(x, h, sid), h)
<1> DEFINE t == Tick(x, h)
           l == ReleaseLease(t)
           p == Publish(l)
           y == NotifyAudioDetached(x, h, sid)
<1>1. CASE ~Matches(x, sid) \/ ~x.co.detachPending \/ x.dt < 0
  <2>1. y = Return(x, FALSE)
    BY <1>1 DEF NotifyAudioDetached
  <2> QED BY <2>1, RefusalReturns
<1>2. CASE Matches(x, sid) /\ x.co.detachPending /\ ~(x.dt < 0)
  <2>1. /\ Fine(t, h) /\ Proceeds(x, t)
        /\ co.startAttempted => "start" \notin t.calls
    <3>1. Fine(x, h) /\ x.tx = tx /\ x.co = co /\ "start" \notin x.calls
      BY DEF Called
    <3> QED BY <3>1, TickIs
  <2>2. y = IF t.ok THEN p ELSE t
    BY <1>2 DEF NotifyAudioDetached, Detached
  <2> HIDE DEF t
  <2>3. sound = 0 /\ co.startAttempted
    <3>1. co.startAttempted
      BY <1>2 DEF Called, Fine, Safe, Fits
    <3>2. SoundAfter(x, h) = {sound}
      BY DEF Called, SoundAfter
    <3>3. sound # 0 => co.session = sound
      BY <3>2 DEF Called, Fine, Safe, Lease
    <3>4. sid = co.session
      BY <1>2 DEF Matches, Called
    <3> QED BY <3>1, <3>3, <3>4
  <2>4. Silent(t, h)
    BY <2>1, <2>3 DEF Silent, SoundAfter
  <2>5. Fine(l, h) /\ Leads(t, l)
    BY <2>1, <2>4, ReleaseLeaseIs DEF Fine
  <2> HIDE DEF l
  <2>6. Fine(p, h) /\ Leads(l, p)
    BY <2>5, PublishFine
  <2> HIDE DEF p
  <2>7. Proceeds(x, p)
    BY <2>1, <2>5, <2>6, LeadsProceeds
  <2>8. Returns(p, h) /\ Returns(t, h)
    BY <2>1, <2>6, <2>7, LedReturns
  <2> QED BY <2>2, <2>8
<1> QED BY <1>1, <1>2

LEMMA ReleasedReturns ==
    ASSUME NEW h \in Answers, NEW x, Called(x, h), NEW sid
    PROVE  LET y == NotifyPttReleased(x, h, sid)
           IN  \/ Returns(y, h)
               \/ /\ Fine(y, h) /\ Phase(tx) = "releasing"
                  /\ Over(y.tx, tx.deferred) /\ tx.deferred \in Deferrable
<1> DEFINE ev == Event("PttReleased")
           d == Do(x, ev)
           y == NotifyPttReleased(x, h, sid)
<1>1. CASE ~Matches(x, sid) \/ x.tx.state # "ReleasingPtt"
  <2>1. y = Return(x, FALSE)
    BY <1>1 DEF NotifyPttReleased
  <2> QED BY <2>1, RefusalReturns
<1>2. CASE x.tx.state = "ReleasingPtt" /\ y = Released(d, h)
  <2>1. /\ Safe(x, h) /\ x \in Runs /\ Good(x.tx) /\ x.tx \in Machines /\ Fits(x.tx, x.co)
        /\ Held(x.tx) /\ x.dt \in Int
    BY SafeMeans DEF Called, Fine, Safe
  <2>2. ev \in Events
    BY DEF Events, PlainEvents
  <2>3. d.tx = Dispatch(x.tx, x.dt, ev).tx /\ (d.ok <=> Dispatch(x.tx, x.dt, ev).ok)
    BY <2>1, <2>2, DoIs
  <2> HIDE DEF d, y
  <2>4. CASE x.dt \in Nat
    <3> DEFINE l == ReleaseLease(d)
               b == IF d.co.startAttempted THEN d ELSE l
               p == Publish(b)
    <3>1. d.ok
      BY <1>2, <2>1, <2>3, <2>4, ReleasedMoves
    <3>2. /\ Fits(d.tx, x.co) /\ Drained(d.tx, x.co) /\ Held(d.tx)
          /\ Over(d.tx, x.tx.deferred) /\ x.tx.deferred \in Deferrable
      BY <1>2, <2>1, <2>3, <2>4, HasReleased
    <3>3. Fine(d, h)
      BY <2>1, <2>2, <3>2, DoFine DEF d
    <3>4. ~d.co.startAttempted => Fine(l, h) /\ l.tx = d.tx
      BY <3>3, LeaseGone, ReleaseLeaseIs DEF Fine
    <3>5. y = p
      BY <1>2, <3>1 DEF Released
    <3> HIDE DEF l
    <3>6. Fine(b, h) /\ b.tx = d.tx
      BY <3>3, <3>4
    <3> HIDE DEF b
    <3>7. Fine(p, h) /\ p.tx = b.tx
      BY <3>6, PublishFine
    <3> HIDE DEF p
    <3>8. Phase(x.tx) = "releasing"
      BY <1>2 DEF Phase
    <3> QED BY <3>2, <3>5, <3>6, <3>7, <3>8 DEF y, Called
  <2>5. CASE x.dt < 0
    <3> DEFINE s == [d EXCEPT !.dt = 0]
               r == RequestPttRelease(s, h)
               q == Return(r, FALSE)
    <3>1. ~d.ok /\ Ends(x.tx, d.tx, "Error")
      BY <1>2, <2>1, <2>3, <2>5, ClockBroken
    <3>2. Fits(d.tx, x.co) /\ Drained(d.tx, x.co) /\ Falls(x.tx, d.tx) /\ Held(d.tx)
      BY <1>2, <2>1, <3>1, HasEnded
    <3>3. Fine(d, h) /\ Leads(x, d)
      BY <2>1, <2>2, <3>2, DoFine DEF d
    <3>4. y = q
      BY <1>2, <3>1 DEF Released
    <3>5. Fine(s, h) /\ Leads(d, s)
      <4>1. d \in Runs /\ Safe(d, h) /\ d.co \in Coordinators /\ Good(d.tx) /\ Fits(d.tx, d.co)
        BY <3>3, SafeMeans DEF Fine, Safe
      <4>2. s \in Runs /\ s.tx = d.tx /\ s.co = d.co /\ s.calls = d.calls /\ s.dt = 0
        BY <4>1, WithClock
      <4> HIDE DEF s
      <4>3. SameCo(d.co, s.co) /\ SameAudioCalls(d, s)
        BY <4>1, <4>2 DEF SameCo, SameAudioCalls
      <4>4. Safe(s, h)
        BY <4>1, <4>2, <4>3, Carried
      <4> QED BY <3>3, <4>2, <4>4 DEF Fine, Leads, Falls, Same
    <3> HIDE DEF s
    <3>6. Fine(r, h) /\ Leads(s, r)
      BY <3>5, RequestPttReleaseIs
    <3> HIDE DEF r
    <3>7. Fine(q, h) /\ Leads(r, q)
      BY <3>6, ReturnFine
    <3> HIDE DEF q
    <3>8. Leads(x, q)
      BY <3>3, <3>5, <3>6, <3>7, LeadsOn
    <3> QED BY <3>4, <3>7, <3>8, LedReturns DEF y
  <2> QED BY <2>1, <2>4, <2>5
<1> QED BY <1>1, <1>2 DEF NotifyPttReleased

\* A frame count is the coordinator's word on what has been played.
LEMMA CountIs ==
    ASSUME NEW h \in Answers, NEW x, Fine(x, h), NEW p \in Reports, Plausible(x, p)
    PROVE  LET y == [x EXCEPT !.co.played = p.frames]
           IN  /\ Fine(y, h) /\ Leads(x, y)
               /\ p.complete => y.co.played = Total
<1> DEFINE c == [x.co EXCEPT !.played = p.frames]
           y == [x EXCEPT !.co = c]
<1>1. x \in Runs /\ x.co \in Coordinators /\ Good(x.tx) /\ Fits(x.tx, x.co) /\ Safe(x, h)
  BY SafeMeans DEF Fine, Safe
<1>2. /\ p.frames \in 0..Total /\ x.co.played <= p.frames
      /\ p.complete => p.frames = Total
  <2>1. Total \in Nat
    BY CoordinatorAssumption DEF CoordinatorAssumption
  <2>2. p.frames \in 0..(Total + 1) \/ p.frames \in {0}
    BY DEF Reports
  <2>3. p.frames \in Int /\ 0 <= p.frames
    BY <2>1, <2>2
  <2>4. x.co.played <= p.frames /\ p.frames <= Total /\ (p.complete => p.frames = Total)
    BY <2>1, <2>3 DEF Plausible
  <2> QED BY <2>1, <2>3, <2>4
<1>3. /\ c \in Coordinators /\ c.played = p.frames /\ c.complete = x.co.complete
      /\ c.device = x.co.device /\ c.startAttempted = x.co.startAttempted
      /\ c.attached = x.co.attached /\ c.detachAttempted = x.co.detachAttempted
      /\ c.detachPending = x.co.detachPending /\ c.session = x.co.session
  BY <1>1, <1>2 DEF Coordinators
<1>4. c.complete => c.played = Total
  <2>1. x.co.complete => x.co.played = Total
    BY <1>1 DEF Fits
  <2>2. Total \in Nat
    BY CoordinatorAssumption DEF CoordinatorAssumption
  <2> HIDE DEF c
  <2>3. x.co.complete => p.frames = Total
    BY <1>2, <2>1, <2>2
  <2> QED BY <1>3, <2>3
<1> HIDE DEF c
<1>5. /\ y \in Runs /\ y.tx = x.tx /\ y.co = c /\ y.dt = x.dt /\ y.calls = x.calls
  BY <1>1, <1>3 DEF Runs
<1> HIDE DEF y
<1>6. Fits(y.tx, y.co) /\ Drained(y.tx, y.co)
  BY <1>1, <1>3, <1>4, <1>5 DEF Fits, Drained, Fine
<1>7. Lease(y, h) /\ Approved(y)
  BY <1>1, <1>3, <1>5 DEF Lease, Approved, SoundAfter, Safe
<1>8. Fine(y, h) /\ Leads(x, y)
  BY <1>1, <1>3, <1>5, <1>6, <1>7 DEF Fine, Safe, Leads, Falls, Same
<1> QED BY <1>2, <1>3, <1>5, <1>8 DEF y, c

LEMMA PassIs ==
    ASSUME NEW h \in Answers, NEW x, Fine(x, h), NEW guard \in BOOLEAN,
           NEW type \in {"HeaderComplete", "ImageComplete", "FskIdComplete"}
    PROVE  LET y == IF guard THEN Do(x, Event(type)) ELSE x
           IN  Fine(y, h) /\ Leads(x, y) /\ y.co.played = x.co.played
<1>1. Event(type) \in Progress /\ Event(type).type = type
  BY DEF Progress, From, Event
<1>2. Leads(x, x)
  BY DEF Leads, Falls, Same
<1> DEFINE d == Do(x, Event(type))
<1>3. Fine(d, h) /\ Leads(x, d) /\ SameCo(x.co, d.co)
  BY <1>1, DoProgress
<1> HIDE DEF d
<1> QED BY <1>2, <1>3 DEF d, SameCo

LEMMA AdvancedIs ==
    ASSUME NEW h \in Answers, NEW x, Fine(x, h), NEW p \in Reports, Plausible(x, p)
    PROVE  LET y == Advanced(x, p.frames)
           IN  /\ Fine(y, h) /\ Leads(x, y)
               /\ p.complete => y.co.played = Total
<1> DEFINE c == [x EXCEPT !.co.played = p.frames]
           r == Return(c, TRUE)
           s == Publish(r)
           Ready(z, state, end) == z.ok /\ z.tx.state = state /\ p.frames >= end
           hd == IF Ready(s, "TransmittingHeader", HeaderEnd)
                 THEN Do(s, Event("HeaderComplete")) ELSE s
           im == IF Ready(hd, "TransmittingImage", ImageEnd)
                 THEN Do(hd, Event("ImageComplete")) ELSE hd
           y == IF Ready(im, "TransmittingFskId", ProtocolEnd)
                THEN Do(im, Event("FskIdComplete")) ELSE im
<1>1. Advanced(x, p.frames) = y
  BY DEF Advanced
<1>2. Fine(c, h) /\ Leads(x, c) /\ (p.complete => c.co.played = Total)
  BY CountIs
<1> HIDE DEF c
<1>3. Fine(r, h) /\ Leads(c, r) /\ r.co = c.co
  BY <1>2, ReturnFine
<1> HIDE DEF r
<1>4. Fine(s, h) /\ Leads(r, s) /\ s.co = r.co
  BY <1>3, PublishFine
<1> HIDE DEF s
<1>5. Fine(hd, h) /\ Leads(s, hd) /\ hd.co.played = s.co.played
  BY <1>4, PassIs
<1> HIDE DEF hd
<1>6. Fine(im, h) /\ Leads(hd, im) /\ im.co.played = hd.co.played
  BY <1>5, PassIs
<1> HIDE DEF im
<1>7. Fine(y, h) /\ Leads(im, y) /\ y.co.played = im.co.played
  BY <1>6, PassIs
<1> HIDE DEF y
<1>8. Leads(x, y)
  BY <1>2, <1>3, <1>4, <1>5, <1>6, <1>7, LeadsOn
<1> QED BY <1>1, <1>2, <1>3, <1>4, <1>5, <1>6, <1>7, <1>8

LEMMA PlayedIs ==
    ASSUME NEW h \in Answers, NEW x, Fine(x, h), NEW complete \in BOOLEAN,
           complete => x.co.played = Total
    PROVE  Fine(Played(x, h, complete), h) /\ Leads(x, Played(x, h, complete))
<1> DEFINE y == Played(x, h, complete)
<1>1. CASE ~(x.ok /\ complete /\ x.tx.state = "TailDelay")
  BY <1>1, OrFailIs DEF Played
<1>2. CASE x.ok /\ complete /\ x.tx.state = "TailDelay"
  <2> DEFINE c == [x.co EXCEPT !.complete = TRUE]
             z == [x EXCEPT !.co = c]
             d == DetachAudio(z, h)
             f == Fail(d, h)
  <2>1. /\ x \in Runs /\ x.co \in Coordinators /\ Good(x.tx) /\ Fits(x.tx, x.co) /\ Safe(x, h)
        /\ Held(x.tx)
    BY SafeMeans DEF Fine, Safe
  <2>2. /\ c \in Coordinators /\ c.complete /\ c.played = x.co.played
        /\ c.device = x.co.device /\ c.startAttempted = x.co.startAttempted
        /\ c.attached = x.co.attached /\ c.detachAttempted = x.co.detachAttempted
        /\ c.detachPending = x.co.detachPending /\ c.session = x.co.session
    BY <2>1 DEF Coordinators
  <2>3. y = IF d.ok THEN d ELSE f
    BY <1>2 DEF Played, OrFail
  <2> HIDE DEF c, y
  <2>4. /\ z \in Runs /\ z.tx = x.tx /\ z.co = c /\ z.dt = x.dt /\ z.calls = x.calls
    BY <2>1, <2>2 DEF Runs
  <2> HIDE DEF z
  <2>5. x.tx.deferred = "None"
    BY <1>2, <2>1, GoodMeans DEF InvariantsHold
  <2>6. Fits(z.tx, z.co)
    BY <1>2, <2>1, <2>2, <2>4, <2>5 DEF Fits
  <2>7. Lease(z, h) /\ Approved(z)
    BY <2>1, <2>2, <2>4 DEF Lease, Approved, SoundAfter, Safe
  <2>8. Safe(z, h) /\ Leads(x, z)
    BY <2>1, <2>2, <2>4, <2>6, <2>7 DEF Safe, Leads, Falls, Same
  <2>9. Safe(d, h) /\ Leads(z, d) /\ d.tx = z.tx /\ (d.ok => ~d.co.device)
    BY <2>8, DetachAudioIs
  <2> HIDE DEF d
  <2>10. Held(d.tx) /\ (d.ok => Fine(d, h))
    BY <2>1, <2>4, <2>9 DEF Fine, Drained
  <2>11. Fine(f, h) /\ Leads(d, f)
    BY <2>9, <2>10, FailIs
  <2> HIDE DEF f
  <2>12. Leads(x, d) /\ Leads(x, f)
    BY <2>8, <2>9, <2>11, LeadsOn
  <2> QED BY <2>3, <2>10, <2>11, <2>12 DEF y
<1> QED BY <1>1, <1>2

LEMMA PlaybackReturns ==
    ASSUME NEW h \in Answers, NEW x, Called(x, h), NEW sid, NEW p \in Reports
    PROVE  Returns(NotifyPlayback(x, h, sid, p), h)
<1> DEFINE a == Advanced(x, p.frames)
           y == Played(a, h, p.complete)
<1>1. CASE Plausible(x, p)
  <2>1. Fine(a, h) /\ Leads(x, a) /\ (p.complete => a.co.played = Total)
    BY <1>1, AdvancedIs DEF Called
  <2> HIDE DEF a
  <2>2. p.complete \in BOOLEAN
    BY DEF Reports
  <2>3. Fine(y, h) /\ Leads(a, y)
    BY <2>1, <2>2, PlayedIs
  <2> HIDE DEF y
  <2>4. Returns(y, h)
    BY <2>1, <2>3, LeadsOn, LedReturns
  <2> QED BY <1>1, <2>4, RefusalReturns DEF NotifyPlayback, y, a
<1>2. CASE ~Plausible(x, p)
  BY <1>2, RefusalReturns, FailReturns DEF NotifyPlayback
<1> QED BY <1>1, <1>2

-----------------------------------------------------------------------------
(* start()                                                                 *)

\* A session on its way to its radio, or one that has come to nothing
Hopeful(m) ==
    /\ m.enabled
    /\ \/ Ruined(m)
       \/ Active(m) /\ Phase(m) \in {"open", "keyed"} /\ m.deferred = "None"

\* How a dispatch that should move a session on comes out
Outcome(m, n, ev) ==
    \/ SameBut(m, n)
    \/ m.state # "Disabled" /\ Ends(m, n, "Error")
    \/ Progresses(m, n, ev)

LEMMA HopeStays ==
    ASSUME NEW m, Good(m), Hopeful(m), NEW n, Good(n), NEW ev \in Progress,
           ev.type # "TailElapsed", Outcome(m, n, ev)
    PROVE  Hopeful(n)
<1>1. m \in Machines /\ n \in Machines
  BY GoodMeans
<1>2. CASE SameBut(m, n)
  <2>1. n.state = m.state /\ n.enabled = m.enabled /\ n.deferred = m.deferred
        /\ n.releaseRequired = m.releaseRequired
    BY <1>1, <1>2 DEF SameBut, Machines
  <2> QED BY <2>1 DEF Hopeful, Ruined, Over, Phase, Verdict, Active
<1>3. CASE m.state # "Disabled" /\ Ends(m, n, "Error")
  <2>1. n.enabled
    BY <1>3 DEF Ends, Hopeful
  <2>2. CASE Active(m)
    BY <1>3, <2>1, <2>2, EndRuins DEF Hopeful
  <2>3. CASE Ruined(m)
    <3>1. Falls(m, n)
      BY <1>3, HasEnded
    <3> QED BY <2>1, <2>3, <3>1, RuinStays DEF Hopeful
  <2> QED BY <2>2, <2>3 DEF Hopeful
<1>4. CASE Progresses(m, n, ev)
  <2>1. ev.type \in DOMAIN From \ {"TailElapsed"}
    BY DEF Progress, From, Event, EncodingCompleteEvent, PttRequestDispatchedEvent
  <2>2. n.state \in PrePttStates \cup {"WaitingForPtt"} \cup AudioStates
    BY <1>4, <2>1 DEF Progresses, From, To, PrePttStates, AudioStates
  <2>3. Active(n) /\ Phase(n) \in {"open", "keyed"}
    BY <2>2 DEF Active, Phase, PrePttStates, OnAirStates, AudioStates
  <2> QED BY <1>4, <2>3 DEF Progresses, Hopeful
<1> QED BY <1>2, <1>3, <1>4 DEF Outcome

LEMMA DoHope ==
    ASSUME NEW h, NEW x, Fine(x, h), Hopeful(x.tx), NEW ev \in Progress,
           ev.type # "TailElapsed"
    PROVE  Fine(Do(x, ev), h) /\ Hopeful(Do(x, ev).tx)
<1> DEFINE y == Do(x, ev)
<1>1. /\ Safe(x, h) /\ Drained(x.tx, x.co) /\ Held(x.tx)
      /\ Good(x.tx) /\ x.tx \in Machines /\ x.dt \in Int /\ x \in Runs /\ Fits(x.tx, x.co)
  BY SafeMeans DEF Fine, Safe
<1>2. ev \in Events
  BY ProgressTypes
<1>3. y.tx = Dispatch(x.tx, x.dt, ev).tx /\ Good(y.tx)
  BY <1>1, <1>2, DoIs
<1> HIDE DEF y
<1>4. Outcome(x.tx, y.tx, ev)
  <2>1. CASE x.dt < 0
    <3>1. x.tx.state = "Disabled" => SameBut(x.tx, x.tx)
      BY <1>1 DEF SameBut, Machines
    <3> QED BY <1>1, <1>3, <2>1, <3>1, ClockBroken DEF Outcome
  <2>2. CASE x.dt \in Nat
    <3>1. TimesOut(x.tx, y.tx) => x.tx.state # "Disabled" /\ Ends(x.tx, y.tx, "Error")
      BY DEF TimesOut, TimedStates, PrePttStates, OnAirStates, AudioStates
    <3> QED BY <1>1, <1>3, <2>2, <3>1, ProgressMoves DEF Outcome
  <2> QED BY <1>1, <2>1, <2>2
<1>5. Fits(y.tx, x.co) /\ Drained(y.tx, x.co) /\ Held(y.tx)
  <2>1. CASE SameBut(x.tx, y.tx)
    BY <1>1, <2>1, Waited
  <2>2. CASE x.tx.state # "Disabled" /\ Ends(x.tx, y.tx, "Error")
    BY <1>1, <2>2, HasEnded
  <2>3. CASE Progresses(x.tx, y.tx, ev)
    BY <1>1, <2>3, HasProgressed
  <2> QED BY <1>4, <2>1, <2>2, <2>3 DEF Outcome
<1>6. Fine(y, h)
  BY <1>1, <1>2, <1>5, DoFine DEF y
<1> QED BY <1>1, <1>3, <1>4, <1>6, HopeStays DEF y

LEMMA ThenHope ==
    ASSUME NEW h, NEW x, Fine(x, h), Hopeful(x.tx), NEW ev \in Progress,
           ev.type # "TailElapsed"
    PROVE  Fine(Then(x, ev), h) /\ Hopeful(Then(x, ev).tx)
  BY DoHope DEF Then

\* A prepared session with its lease and its number
LEMMA NamedIs ==
    ASSUME NEW h, NEW t, Fine(t, h), t.dt = 0, t.tx.enabled, ~Active(t.tx),
           ~t.co.device, "start" \notin t.calls, NEW release \in BOOLEAN
    PROVE  LET d == Do(NewSession(t, release), PrepareEvent(TRUE))
               n == [d EXCEPT !.co.session = d.tx.session]
           IN  d.ok /\ Fine(n, h) /\ Hopeful(n.tx)
<1> DEFINE c == [NewCoordinator EXCEPT !.device = TRUE, !.needsRelease = release]
           z == [t EXCEPT !.co = c]
           ev == PrepareEvent(TRUE)
           d == Do(z, ev)
           e == [d.co EXCEPT !.session = d.tx.session]
           n == [d EXCEPT !.co = e]
<1>1. t \in Runs /\ Safe(t, h) /\ Good(t.tx) /\ t.tx \in Machines
  BY SafeMeans DEF Fine
<1>2. /\ c \in Coordinators /\ c.device /\ ~c.detachAttempted /\ ~c.detachPending
      /\ ~c.attached /\ ~c.complete
  <2>1. 0 \in 0..Total /\ 0 \in 0..MaxAge
    BY CoordinatorAssumption, MachineAssumption DEF CoordinatorAssumption, MachineAssumption
  <2> QED BY <2>1 DEF NewCoordinator, Coordinators
<1> HIDE DEF c
<1>3. z \in Runs /\ z.tx = t.tx /\ z.dt = 0 /\ z.calls = t.calls /\ z.co = c
  BY <1>1, <1>2 DEF Runs
<1>4. NewSession(t, release) = z
  BY DEF NewSession, c
<1> HIDE DEF z
<1>5. ev \in Events
  <2>1. ev \in {PrepareEvent(valid) : valid \in BOOLEAN}
    OBVIOUS
  <2> HIDE DEF ev
  <2> QED BY <2>1 DEF Events
<1>6. /\ d \in Runs /\ Good(d.tx) /\ d.tx = Dispatch(t.tx, 0, ev).tx
      /\ (d.ok <=> Dispatch(t.tx, 0, ev).ok) /\ SameCo(c, d.co) /\ d.calls = t.calls
  BY <1>1, <1>3, <1>5, DoIs
<1>7. /\ d.ok /\ d.tx.state = "PreparingImage" /\ d.tx.deferred = "None"
      /\ d.tx.enabled /\ d.tx.session = d.tx.sessions
  <2> DEFINE g == Dispatch(t.tx, 0, ev)
  <2> DEFINE m == t.tx
  <2>0. Good(m) /\ m.enabled /\ ~Active(m) /\ 0 \in Nat
    BY <1>1
  <2> HIDE DEF m
  <2>1. /\ g.ok /\ g.tx.state = "PreparingImage" /\ g.tx.deferred = "None"
        /\ g.tx.enabled /\ g.tx.session = m.sessions + 1 /\ g.tx.sessions = m.sessions + 1
    BY <2>0, PrepareMoves, Zenon DEF m
  <2>2. d.tx = g.tx /\ (d.ok <=> g.ok)
    BY <1>6
  <2> HIDE DEF g, d
  <2> QED BY <2>1, <2>2
<1> HIDE DEF d
<1>8. d.tx \in Machines /\ d.co \in Coordinators /\ d.tx.session \in Nat
  BY <1>6 DEF Runs, Machines
<1>9. /\ e \in Coordinators /\ e.device /\ ~e.detachAttempted /\ ~e.detachPending
      /\ ~e.attached /\ ~e.complete /\ e.session = d.tx.session
  BY <1>2, <1>6, <1>8 DEF Coordinators, SameCo
<1> HIDE DEF e
<1>10. n \in Runs /\ n.tx = d.tx /\ n.co = e /\ n.calls = t.calls
  BY <1>6, <1>9 DEF Runs
<1>11. n = [d EXCEPT !.co.session = d.tx.session]
  BY <1>6 DEF e, Runs
<1> HIDE DEF n
<1>12. Active(d.tx) /\ d.tx.state # "ReleasingPtt"
  BY <1>7 DEF Active, PrePttStates
<1>13. Hopeful(n.tx)
  BY <1>7, <1>10, <1>12 DEF Hopeful, Phase
<1>14. Fits(n.tx, n.co) /\ Drained(n.tx, n.co) /\ Held(n.tx)
  <2>1. n.co.session <= n.tx.sessions
    BY <1>7, <1>8, <1>9, <1>10
  <2> QED BY <1>7, <1>9, <1>10, <2>1 DEF Fits, Drained, Held
<1>15. Lease(n, h)
  <2>1. Silent(t, h)
    BY <1>1, LeaseGone
  <2>2. SoundAfter(n, h) = SoundAfter(t, h)
    BY <1>10 DEF SoundAfter
  <2> QED BY <2>1, <2>2 DEF Lease, Silent
<1>16. Fine(n, h)
  BY <1>6, <1>10, <1>14, <1>15 DEF Fine, Safe, Approved
<1> QED BY <1>4, <1>7, <1>11, <1>13, <1>16 DEF d

LEMMA RequestOnIs ==
    ASSUME NEW h \in Answers, NEW x, Fine(x, h), Hopeful(x.tx)
    PROVE  Fine(RequestOn(x, h), h) /\ Hopeful(RequestOn(x, h).tx)
<1> DEFINE c == Calling(x, "on")
           p == Publish(c)
           q == Return(p, TRUE)
           f == IF x.ok THEN c ELSE x
<1>1. x \in Runs /\ Safe(x, h) /\ Good(x.tx)
  BY SafeMeans DEF Fine
<1>2. Alike(x, c)
  BY <1>1, CallingAlike
<1> HIDE DEF c
<1>3. Fine(c, h) /\ c.tx = x.tx
  BY <1>1, <1>2, AlikeFine DEF Alike
<1>4. Fine(p, h) /\ p.tx = x.tx
  BY <1>3, PublishFine
<1> HIDE DEF p
<1>5. Fine(q, h) /\ q.tx = x.tx
  <2>1. Fine(p, h)
    BY <1>4
  <2>2. Fine(q, h) /\ q.tx = p.tx
    BY <2>1, ReturnFine
  <2> HIDE DEF q
  <2> QED BY <1>4, <2>2
<1> HIDE DEF q
<1>6. Fine(f, h) /\ f.tx = x.tx
  BY <1>3
<1> HIDE DEF f
<1>7. Fine(Fail(f, h), h) /\ Hopeful(Fail(f, h).tx)
  <2>1. Safe(f, h) /\ Held(f.tx)
    BY <1>6 DEF Fine
  <2>2. /\ Fine(Fail(f, h), h) /\ Fail(f, h).tx.enabled = x.tx.enabled
        /\ x.tx.enabled /\ (Active(x.tx) \/ Ruined(x.tx)) => Ruined(Fail(f, h).tx)
    BY <1>6, <2>1, FailIs
  <2> QED BY <2>2 DEF Hopeful
<1>8. RequestOn(x, h) = IF x.ok /\ h.on THEN q ELSE Fail(f, h)
  BY DEF RequestOn, q, p, c, f
<1> QED BY <1>5, <1>7, <1>8

LEMMA RequestedIs ==
    ASSUME NEW h, NEW x, NEW pf \in Preflights,
           LET n == [x EXCEPT !.co.session = x.tx.session]
           IN  Fine(n, h) /\ Hopeful(n.tx)
    PROVE  Fine(Requested(x, pf), h) /\ Hopeful(Requested(x, pf).tx)
<1> DEFINE n == [x EXCEPT !.co.session = x.tx.session]
           prepared == Event("ImagePrepared")
           encoded == EncodingCompleteEvent(TRUE, pf.fskId)
           request == Event("Request")
           dispatched == PttRequestDispatchedEvent(pf.release)
           a == Then(n, prepared)
           b == Then(a, encoded)
           c == Then(b, request)
           d == Then(c, dispatched)
<1>1. Requested(x, pf) = d
  BY DEF Requested
<1>2. {prepared, encoded, request, dispatched} \subseteq Progress
  BY DEF Progress, From, Preflights
<1>3. \A ev \in {prepared, encoded, request, dispatched} : ev.type # "TailElapsed"
  BY DEF Event, EncodingCompleteEvent, PttRequestDispatchedEvent
<1> HIDE DEF prepared, encoded, request, dispatched
<1>4. Fine(n, h) /\ Hopeful(n.tx)
  OBVIOUS
<1> HIDE DEF n
<1>5. Fine(a, h) /\ Hopeful(a.tx)
  BY <1>2, <1>3, <1>4, ThenHope
<1> HIDE DEF a
<1>6. Fine(b, h) /\ Hopeful(b.tx)
  BY <1>2, <1>3, <1>5, ThenHope
<1> HIDE DEF b
<1>7. Fine(c, h) /\ Hopeful(c.tx)
  BY <1>2, <1>3, <1>6, ThenHope
<1> HIDE DEF c
<1> QED BY <1>1, <1>2, <1>3, <1>7, ThenHope

LEMMA StartReturns ==
    ASSUME NEW h \in Answers, NEW x, Called(x, h), NEW pf \in Preflights
    PROVE  LET y == Start(x, h, pf)
           IN  \/ Returns(y, h)
               \/ Fine(y, h) /\ Phase(tx) \in {"free", "open"} /\ Hopeful(y.tx)
<1> DEFINE t == Tick(x, h)
           d == Do(NewSession(t, pf.release), PrepareEvent(TRUE))
           r == Requested(d, pf)
           q == RequestOn(r, h)
           f == Return(t, FALSE)
<1>1. /\ Fine(t, h) /\ Falls(tx, t.tx) /\ (t.ok => t.dt = 0)
      /\ t.ok /\ "start" \in t.calls => t.co.device
  BY TickIs DEF Called, Proceeds
<1>2. Start(x, h, pf) = IF Refuses(t, pf) THEN f
                        ELSE IF d.ok THEN q ELSE Return(Publish(ReleaseLease(d)), FALSE)
  BY DEF Start, StartTicked, Begin
<1> HIDE DEF t
<1>3. CASE Refuses(t, pf)
  <2>1. Fine(f, h) /\ f.tx = t.tx
    BY <1>1, ReturnFine
  <2> QED BY <1>1, <1>2, <1>3, <2>1 DEF Returns
<1>4. CASE ~Refuses(t, pf)
  <2>1. /\ t.ok /\ t.tx.enabled /\ ~Active(t.tx) /\ ~t.co.device /\ t.dt = 0
        /\ "start" \notin t.calls
    BY <1>1, <1>4 DEF Refuses
  <2>2. pf.release \in BOOLEAN
    BY DEF Preflights
  <2>3. d.ok /\ LET n == [d EXCEPT !.co.session = d.tx.session]
                IN  Fine(n, h) /\ Hopeful(n.tx)
    BY <1>1, <2>1, <2>2, NamedIs
  <2> HIDE DEF d
  <2>4. Fine(r, h) /\ Hopeful(r.tx)
    BY <2>3, RequestedIs
  <2> HIDE DEF r
  <2>5. Fine(q, h) /\ Hopeful(q.tx)
    BY <2>4, RequestOnIs
  <2> HIDE DEF q
  <2>6. Phase(t.tx) = "free"
    <3>1. Good(t.tx)
      BY <1>1, SafeMeans DEF Fine
    <3>2. t.tx.state \notin {"Disabled", "ReleasingPtt"}
      BY <2>1, <3>1, GoodMeans DEF InvariantsHold, Active, OnAirStates
    <3> QED BY <2>1, <3>2 DEF Phase
  <2>7. Phase(tx) \in {"free", "open"}
    BY <1>1, <2>6 DEF Falls, Same
  <2> QED BY <1>2, <1>4, <2>3, <2>5, <2>7
<1> QED BY <1>3, <1>4

-----------------------------------------------------------------------------
(* The specification.                                                      *)

Turns(n) == /\ Phase(tx) = "off" /\ Phase(n) = "free"
            /\ n.deferred = tx.deferred /\ Verdict(n) = Verdict(tx)

Begins(n) == Phase(tx) \in {"free", "open"} /\ Hopeful(n)

Releases(n) == /\ Phase(tx) = "releasing"
               /\ Over(n, tx.deferred) /\ tx.deferred \in Deferrable

\* A public method, from its call to its return
Performs(x, h) ==
    /\ Fine(x, h)
    /\ Falls(tx, x.tx) \/ Turns(x.tx) \/ Begins(x.tx) \/ Releases(x.tx)
    /\ tx' = x.tx /\ co' = x.co /\ sound' \in SoundAfter(x, h)

LEMMA StepIs ==
    ASSUME IInv, Next
    PROVE  SoundStops \/ \E h \in Answers : \E x : Performs(x, h)
<1>1. \A dt \in -1..MaxDelay : dt \in Int
  BY SessionAssumption DEF SessionAssumption
<1>2. \A dt \in -1..MaxDelay, h \in Answers : Called(Run(tx, co, dt), h)
  BY <1>1, RunEnters
<1>3. CASE CallEnable
  <2>1. PICK dt \in -1..MaxDelay, h \in Answers :
          LET x == Enable(Run(tx, co, dt)) IN
          tx' = x.tx /\ co' = x.co /\ sound' \in SoundAfter(x, h)
    BY <1>3 DEF CallEnable, Call, CallWith
  <2>2. Performs(Enable(Run(tx, co, dt)), h)
    BY <1>2, <2>1, EnableReturns DEF Performs, Returns, Turns
  <2> QED BY <2>2
<1>4. CASE CallTick
  <2>1. PICK dt \in -1..MaxDelay, h \in Answers :
          LET x == Tick(Run(tx, co, dt), h) IN
          tx' = x.tx /\ co' = x.co /\ sound' \in SoundAfter(x, h)
    BY <1>4 DEF CallTick, Call, CallWith
  <2>2. Performs(Tick(Run(tx, co, dt), h), h)
    BY <1>2, <2>1, TickReturns DEF Performs, Returns
  <2> QED BY <2>2
<1>5. CASE CallStart
  <2>1. PICK pf \in Preflights, dt \in -1..MaxDelay, h \in Answers :
          LET x == Start(Run(tx, co, dt), h, pf) IN
          tx' = x.tx /\ co' = x.co /\ sound' \in SoundAfter(x, h)
    BY <1>5 DEF CallStart, CallWith
  <2>2. Performs(Start(Run(tx, co, dt), h, pf), h)
    BY <1>2, <2>1, StartReturns DEF Performs, Returns, Begins
  <2> QED BY <2>2
<1>6. CASE CallCancel
  <2>1. PICK dt \in -1..MaxDelay, h \in Answers :
          LET x == Cancel(Run(tx, co, dt), h) IN
          tx' = x.tx /\ co' = x.co /\ sound' \in SoundAfter(x, h)
    BY <1>6 DEF CallCancel, Call, CallWith
  <2>2. Performs(Cancel(Run(tx, co, dt), h), h)
    BY <1>2, <2>1, CancelReturns DEF Performs, Returns
  <2> QED BY <2>2
<1>7. CASE CallShutdown
  <2>1. PICK dt \in -1..MaxDelay, h \in Answers :
          LET x == Shutdown(Run(tx, co, dt), h) IN
          tx' = x.tx /\ co' = x.co /\ sound' \in SoundAfter(x, h)
    BY <1>7 DEF CallShutdown, Call, CallWith
  <2>2. Performs(Shutdown(Run(tx, co, dt), h), h)
    BY <1>2, <2>1, ShutdownReturns DEF Performs, Returns
  <2> QED BY <2>2
<1>8. CASE PttConfirmed
  <2>1. PICK sid \in Sessions, dt \in -1..MaxDelay, h \in Answers :
          LET x == NotifyPttConfirmed(Run(tx, co, dt), h, sid) IN
          tx' = x.tx /\ co' = x.co /\ sound' \in SoundAfter(x, h)
    BY <1>8 DEF PttConfirmed, Call, CallWith
  <2>2. Performs(NotifyPttConfirmed(Run(tx, co, dt), h, sid), h)
    BY <1>2, <2>1, ConfirmedReturns DEF Performs, Returns
  <2> QED BY <2>2
<1>9. CASE PttReleased
  <2>1. PICK sid \in Sessions, dt \in -1..MaxDelay, h \in Answers :
          LET x == NotifyPttReleased(Run(tx, co, dt), h, sid) IN
          tx' = x.tx /\ co' = x.co /\ sound' \in SoundAfter(x, h)
    BY <1>9 DEF PttReleased, Call, CallWith
  <2>2. Performs(NotifyPttReleased(Run(tx, co, dt), h, sid), h)
    BY <1>2, <2>1, ReleasedReturns DEF Performs, Returns, Releases
  <2> QED BY <2>2
<1>10. CASE Playback
  <2>1. PICK sid \in Sessions, p \in Reports, dt \in -1..MaxDelay, h \in Answers :
          LET x == NotifyPlayback(Run(tx, co, dt), h, sid, p) IN
          tx' = x.tx /\ co' = x.co /\ sound' \in SoundAfter(x, h)
    BY <1>10 DEF Playback, Call, CallWith
  <2>2. Performs(NotifyPlayback(Run(tx, co, dt), h, sid, p), h)
    BY <1>2, <2>1, PlaybackReturns DEF Performs, Returns
  <2> QED BY <2>2
<1>11. CASE AudioError
  <2>1. PICK sid \in Sessions, dt \in -1..MaxDelay, h \in Answers :
          LET x == NotifyAudioError(Run(tx, co, dt), h, sid) IN
          tx' = x.tx /\ co' = x.co /\ sound' \in SoundAfter(x, h)
    BY <1>11 DEF AudioError, Call, CallWith
  <2>2. Performs(NotifyAudioError(Run(tx, co, dt), h, sid), h)
    BY <1>2, <2>1, AudioErrorReturns DEF Performs, Returns
  <2> QED BY <2>2
<1>12. CASE AudioDetached
  <2>1. PICK sid \in Sessions \ {sound}, dt \in -1..MaxDelay, h \in Answers :
          LET x == NotifyAudioDetached(Run(tx, co, dt), h, sid) IN
          tx' = x.tx /\ co' = x.co /\ sound' \in SoundAfter(x, h)
    BY <1>12 DEF AudioDetached, Call, CallWith
  <2>2. Performs(NotifyAudioDetached(Run(tx, co, dt), h, sid), h)
    BY <1>2, <2>1, DetachedReturns DEF Performs, Returns
  <2> QED BY <2>2
<1> QED BY <1>3, <1>4, <1>5, <1>6, <1>7, <1>8, <1>9, <1>10, <1>11, <1>12 DEF Next

LEMMA InitIInv == Init => IInv
<1> SUFFICES ASSUME Init PROVE IInv
  OBVIOUS
<1>1. Good(tx)
  BY MachineAssumption, SessionAssumption, SameSets, Lifecycle!InitGood DEF Good, Init
<1>2. 0 \in 0..Total /\ 0 \in 0..MaxAge
  BY CoordinatorAssumption, MachineAssumption DEF CoordinatorAssumption, MachineAssumption
<1>3. co \in Coordinators
  BY <1>2 DEF Init, NewCoordinator, Coordinators
<1>4. Fits(tx, co) /\ Drained(tx, co) /\ Held(tx)
  <2>1. ~Active(tx)
    BY DEF Init, NewMachine, Active, PrePttStates, OnAirStates, AudioStates
  <2> QED BY <2>1 DEF Init, NewMachine, NewCoordinator, Fits, Drained, Held
<1> QED BY <1>1, <1>3, <1>4 DEF IInv, Init

LEMMA StepIInv == IInv /\ [Next]_vars => IInv'
<1> SUFFICES ASSUME IInv, [Next]_vars PROVE IInv'
  OBVIOUS
<1>1. CASE UNCHANGED vars
  BY <1>1 DEF IInv, vars
<1>2. CASE SoundStops
  BY <1>2 DEF IInv, SoundStops
<1>3. ASSUME NEW h \in Answers, NEW x, Performs(x, h)
      PROVE  IInv'
  <2>1. x \in Runs /\ Good(x.tx) /\ x.co \in Coordinators
    BY <1>3, SafeMeans DEF Performs, Fine
  <2>2. Fits(x.tx, x.co) /\ Drained(x.tx, x.co) /\ Held(x.tx) /\ Lease(x, h)
    BY <1>3 DEF Performs, Fine, Safe
  <2>3. tx' = x.tx /\ co' = x.co /\ sound' \in SoundAfter(x, h)
    BY <1>3 DEF Performs
  <2>4. sound' \in Nat
    <3>1. x.co.session \in Nat /\ sound \in Nat
      BY <2>1 DEF Coordinators, IInv
    <3> QED BY <2>3, <3>1 DEF SoundAfter
  <2>5. sound' # 0 => co'.device /\ co'.startAttempted /\ co'.session = sound'
    BY <2>2, <2>3 DEF Lease
  <2> QED BY <2>1, <2>2, <2>3, <2>4, <2>5 DEF IInv
<1> QED BY <1>1, <1>2, <1>3, StepIs

(* SoundOutput never pulls from a device that the coordinator has let go,  *)
(* and a session is said to have completed only when all of its samples    *)
(* were played and its device is gone - whatever the hooks of              *)
(* SstvTxCoordinator answer and in whatever order its callbacks come.      *)
THEOREM SessionIsSound == Spec => []SessionInv
<1>1. IInv => SessionInv
  <2> SUFFICES ASSUME IInv PROVE SessionInv
    OBVIOUS
  <2>1. tx \in Machines /\ tx.sessions \in Nat /\ co.session <= tx.sessions
    BY GoodMeans DEF IInv, Fits, Machines
  <2>2. TypeOK
    BY <2>1 DEF TypeOK, IInv, Sessions
  <2>3. LeaseWhilePulled
    BY DEF LeaseWhilePulled, IInv
  <2>4. CompletedInFull
    BY DEF CompletedInFull, IInv, Fits
  <2> QED BY <2>2, <2>3, <2>4 DEF SessionInv
<1> QED BY <1>1, InitIInv, StepIInv, PTL DEF Spec

(* No PCM before approval: SoundOutput is handed a device only for the     *)
(* session that waits for its radio, and only when a radio that is given a *)
(* silent lead had been confirmed before the call.                         *)
THEOREM AudioWaitsForApproval == Spec => PcmAfterApproval
<1>1. IInv /\ [Next]_vars =>
        [sound' \notin {0, sound} =>
           /\ tx.state = "WaitingForPtt" /\ sound' = tx.session
           /\ co.needsRelease /\ LeadDelay > 0 => tx.confirmed]_vars
  <2> SUFFICES ASSUME IInv, Next, sound' \notin {0, sound}
               PROVE  /\ tx.state = "WaitingForPtt" /\ sound' = tx.session
                      /\ co.needsRelease /\ LeadDelay > 0 => tx.confirmed
    OBVIOUS
  <2>1. ~SoundStops
    BY DEF SoundStops
  <2>2. PICK h \in Answers : \E x : Performs(x, h)
    BY <2>1, StepIs
  <2>3. PICK x : Performs(x, h)
    BY <2>2
  <2>4. Approved(x) /\ sound' \in SoundAfter(x, h)
    BY <2>3 DEF Performs, Fine, Safe
  <2>5. "start" \in x.calls /\ sound' = x.co.session
    BY <2>4 DEF SoundAfter
  <2> QED BY <2>4, <2>5 DEF Approved
<1> QED BY <1>1, InitIInv, StepIInv, PTL DEF Spec, PcmAfterApproval

-----------------------------------------------------------------------------
(* The promise to the station.  Its mapped variables are Phase(tx),        *)
(* tx.deferred and Verdict(tx).                                            *)
LEMMA PromiseInit == Init => Promise!Init
  BY DEF Init, NewMachine, Promise!Init, Active, PrePttStates, OnAirStates,
     AudioStates, Terminals

LEMMA PromiseStep == IInv /\ [Next]_vars => [Promise!Next]_Promise!vars
<1> SUFFICES ASSUME IInv, [Next]_vars PROVE [Promise!Next]_Promise!vars
  OBVIOUS
<1>1. CASE tx' = tx
  BY <1>1 DEF Promise!vars, Active
<1>2. ASSUME NEW h \in Answers, NEW x, Performs(x, h)
      PROVE  [Promise!Next]_Promise!vars
  <2> DEFINE n == x.tx
  <2>1. tx' = n
    BY <1>2 DEF Performs
  <2>2. CASE Falls(tx, n)
    BY <2>1, <2>2 DEF Falls, Same, Over, Phase, Verdict, Deferrable, Terminals,
       Promise!Next, Promise!vars, Promise!Finish, Promise!Close,
       Promise!Worsen, Promise!Spoil, Promise!Over, Promise!Outcomes
  <2>3. CASE Turns(n)
    BY <2>1, <2>3 DEF Turns, Phase, Verdict, Promise!Next, Promise!TurnOn
  <2>4. CASE Begins(n)
    <3>1. n.state \in Terminals => ~Active(n)
      BY DEF Terminals, Active, PrePttStates, OnAirStates, AudioStates
    <3>2. \/ Over(n, "Error")
          \/ Phase(n) = "releasing" /\ n.deferred = "Error" /\ Verdict(n) = "None"
          \/ Phase(n) \in {"open", "keyed"} /\ n.deferred = "None" /\ Verdict(n) = "None"
      BY <2>4, <3>1 DEF Begins, Hopeful, Ruined, Verdict
    <3>3. Promise!Begin
      BY <2>1, <2>4, <3>2 DEF Begins, Over, Phase, Verdict, Promise!Begin, Promise!Over
    <3> QED BY <3>3 DEF Promise!Next
  <2>5. CASE Releases(n)
    BY <2>1, <2>5 DEF Releases, Over, Phase, Verdict, Promise!Next,
       Promise!Release, Promise!Over
  <2> QED BY <1>2, <2>2, <2>3, <2>4, <2>5 DEF Performs
<1>3. UNCHANGED vars \/ SoundStops => tx' = tx
  BY DEF vars, SoundStops
<1> QED BY <1>1, <1>2, <1>3, StepIs

(* Whatever the order of callbacks, timers and hook failures, a keyed      *)
(* radio is given back through its acknowledged release, and the verdict   *)
(* is the worst of what happened: every step of the coordinator is a step  *)
(* of SstvTxPromise or none at all.                                        *)
THEOREM StationIsPromised == Spec => PromiseKept
<1> QED BY PromiseInit, PromiseStep, InitIInv, StepIInv, PTL
        DEF Spec, PromiseKept, Promise!Spec
-----------------------------------------------------------------------------
(* The bridge.  Its hooks answer as HookAnswers says and its clock never   *)
(* runs backwards, so that more is true of a run than in any environment.  *)
(* The helpers and the methods have a lemma each again.                    *)

\* The session is on its way and not over yet.
Sending(m) == Active(m) /\ m.state # "ReleasingPtt"

\* What an event may do that neither begins a session nor reports a release
Moves(m, n) ==
    /\ n.sessions = m.sessions
    /\ Sending(n) => Sending(m)
    /\ n.state = "WaitingForPtt" => m.state = "WaitingForPtt"
    /\ Active(n) => /\ Active(m) /\ n.session = m.session
                    /\ m.releaseRequired => n.releaseRequired
    /\ Sending(m) /\ m.releaseRequired /\ ~Sending(n) => n.state = "ReleasingPtt"
    /\ m.state = "ReleasingPtt" /\ m.releaseRequired => n.state = "ReleasingPtt"

LEMMA EndMoves ==
    ASSUME NEW m, Good(m), NEW n, NEW outcome \in {"Error", "Cancelled"},
           Ends(m, n, outcome), Active(m)
    PROVE  Moves(m, n) /\ ~Sending(n)
<1>1. n.state = outcome => ~Active(n)
  BY DEF Active, PrePttStates, OnAirStates, AudioStates
<1>2. n.state \in {"ReleasingPtt", outcome} /\ n.state # "WaitingForPtt"
  BY DEF Ends
<1>3. m.state = "ReleasingPtt" => n.state = "ReleasingPtt"
  BY DEF Ends
<1>4. Sending(m) /\ m.releaseRequired => n.state = "ReleasingPtt"
  BY DEF Ends, Sending
<1>5. ~Sending(n)
  BY <1>1, <1>2 DEF Sending
<1>6. m.releaseRequired /\ n.state = "ReleasingPtt" => n.releaseRequired
  BY DEF Ends
<1>7. n.sessions = m.sessions /\ n.session = m.session
  BY DEF Ends
<1>8. Active(n) => n.state = "ReleasingPtt"
  BY <1>1, <1>2
<1> QED BY <1>2, <1>3, <1>4, <1>5, <1>6, <1>7, <1>8 DEF Moves

LEMMA SameMoves ==
    ASSUME NEW m, Good(m), NEW n, SameBut(m, n)
    PROVE  Moves(m, n) /\ (Sending(m) <=> Sending(n)) /\ n.state = m.state
<1>1. /\ n.state = m.state /\ n.session = m.session /\ n.sessions = m.sessions
      /\ n.releaseRequired = m.releaseRequired
  BY GoodMeans DEF SameBut, Machines
<1> QED BY <1>1 DEF Moves, Sending, Active

LEMMA OutMoves ==
    ASSUME NEW m, Good(m), NEW n, TimesOut(m, n)
    PROVE  Moves(m, n) /\ ~Sending(n) /\ n.state \in {"ReleasingPtt", "Error"}
<1>1. Active(m)
  BY DEF TimesOut, TimedStates, Active
<1>2. Ends(m, n, "Error")
  BY DEF TimesOut
<1> QED BY <1>1, <1>2, EndMoves DEF Ends

LEMMA PassMoves ==
    ASSUME NEW m, Good(m), NEW n, NEW ev \in Progress,
           ev.type # "PttRequestDispatched", Progresses(m, n, ev)
    PROVE  Moves(m, n) /\ (ev.type # "TailElapsed" => Sending(n))
<1>1. ev.type \in {"ImagePrepared", "EncodingComplete", "Request", "PttConfirmed",
                   "LeadElapsed", "HeaderComplete", "ImageComplete",
                   "FskIdComplete", "TailElapsed"}
  <2>1. \/ \E type \in {"ImagePrepared", "Request", "PttConfirmed", "LeadElapsed",
                        "HeaderComplete", "ImageComplete", "FskIdComplete",
                        "TailElapsed"} : ev = Event(type)
        \/ \E fskId \in BOOLEAN : ev = EncodingCompleteEvent(TRUE, fskId)
        \/ \E release \in BOOLEAN : ev = PttRequestDispatchedEvent(release)
    BY ProgressTypes
  <2> QED BY <2>1 DEF Event, EncodingCompleteEvent, PttRequestDispatchedEvent
<1>2. Sending(m)
  BY <1>1 DEF Progresses, From, Sending, Active, PrePttStates, OnAirStates, AudioStates
<1>3. ev.type # "TailElapsed" => Sending(n)
  BY <1>1 DEF Progresses, To, Sending, Active, PrePttStates, OnAirStates, AudioStates
<1>4. ev.type = "TailElapsed" => n.state = "ReleasingPtt"
  BY DEF Progresses, To
<1>5. n.state = "WaitingForPtt" => m.state = "WaitingForPtt"
  BY <1>1 DEF Progresses, From, To
<1>6. n.sessions = m.sessions /\ n.session = m.session /\ n.releaseRequired = m.releaseRequired
  BY DEF Progresses
<1>7. m.state # "ReleasingPtt" /\ Active(m)
  BY <1>2 DEF Sending
<1> QED BY <1>2, <1>3, <1>4, <1>5, <1>6, <1>7 DEF Moves

LEMMA DisabledMoves ==
    ASSUME NEW m, Good(m), NEW dt \in Nat, m.enabled
    PROVE  LET n == Dispatch(m, dt, Event("Disable")).tx
           IN  Moves(m, n) /\ ~Sending(n)
<1> DEFINE n == Dispatch(m, dt, Event("Disable")).tx
<1>1. /\ n.sessions = m.sessions
      /\ IF m.releaseRequired
         THEN n.state = "ReleasingPtt" /\ n.releaseRequired /\ n.session = m.session
         ELSE n.state = "Disabled"
  BY DisableMoves
<1> HIDE DEF n
<1>2. m.releaseRequired => Active(m)
  BY GoodMeans DEF InvariantsHold, Active
<1> QED BY <1>1, <1>2 DEF Moves, Sending, n, Active, PrePttStates, OnAirStates, AudioStates

-----------------------------------------------------------------------------
(* What is true of a run of the bridge's coordinator.                      *)

\* The hooks of a run are not done before Settle: what they will leave
OwnsAfter(x) == "on" \in x.calls \/ (owns /\ ~x.over)

\* SoundOutput has been handed a device, and has not been told to let go.
Pulled(x) == "detach" \notin x.calls /\ ("start" \in x.calls \/ playing # Silence)

\* If the radio is or will be keyed, the last command it gets is an OFF.
LastIsOff ==
    (keyed \/ \E i \in DOMAIN cat : cat[i]) => cat # <<>> /\ ~cat[Len(cat)]

LetGo(x) == Vox \/ "off" \in x.calls \/ ("on" \notin x.calls /\ LastIsOff)

\* The session is over, and no OFF has been sent for it yet.
Owing(x) ==
    x.tx.state = "ReleasingPtt" /\ x.tx.releaseRequired /\ ~x.co.offAttempted

\* The machine and the coordinator's fields of one session
Paired(x) ==
    /\ x \in Runs /\ Good(x.tx) /\ x.dt \in Nat
    /\ x.tx.sessions <= MaxStarts /\ x.co.session <= x.tx.sessions
    /\ Active(x.tx) => x.co.session = x.tx.session
    /\ x.co.device => ~x.co.detachAttempted
    /\ x.tx.state = "WaitingForPtt" => ~x.co.startAttempted
    /\ Sending(x.tx) => ~x.co.offAttempted
    /\ ~Vox /\ Active(x.tx) => x.tx.releaseRequired

\* What the hooks called so far leave true
Effects(x) ==
    /\ x.co.device \/ "on" \in x.calls \/ "off" \in x.calls => x.co.session > 0
    /\ Active(x.tx) \/ x.co.device => OwnsAfter(x)
    /\ Pulled(x) => /\ x.co.device /\ x.co.startAttempted
                    /\ "start" \notin x.calls => playing.session = x.co.session

Kept(x) == Paired(x) /\ Effects(x) /\ (Sending(x.tx) \/ LetGo(x) \/ Owing(x))

\* Audio that was started plays for a session that is not over (with VOX it
\* may play on), and not once it has been played.
Quieted(x) ==
    /\ Kept(x)
    /\ ~Vox /\ x.co.device /\ x.co.startAttempted => Sending(x.tx)
    /\ x.co.complete => ~x.co.device

\* What a method leaves: a session that is over has sent its OFF, too.
Clear(x) == Quieted(x) /\ (Sending(x.tx) \/ LetGo(x))

\* The fields of the coordinator that the invariant is about
Sees(c, d) ==
    /\ d.device = c.device /\ d.startAttempted = c.startAttempted
    /\ d.detachAttempted = c.detachAttempted /\ d.offAttempted = c.offAttempted
    /\ d.session = c.session /\ d.complete = c.complete

Unseen(x) == x.tx.state \in Terminals \cup {"Disabled"} /\ ~x.co.device

\* y differs from x in nothing that matters here.
Like(x, y) ==
    /\ y \in Runs /\ y.tx = x.tx /\ y.dt = x.dt /\ y.calls = x.calls
    /\ Sees(x.co, y.co) /\ (y.over => x.over \/ Unseen(x))

LEMMA UnseenIs ==
    ASSUME NEW x, Unseen(x) PROVE ~Active(x.tx) /\ ~x.co.device
  BY DEF Unseen, Terminals, Active, PrePttStates, OnAirStates, AudioStates

LEMMA LikeKept ==
    ASSUME NEW x, NEW y, Like(x, y)
    PROVE  /\ Kept(x) => Kept(y)
           /\ Quieted(x) => Quieted(y)
           /\ Clear(x) => Clear(y)
           /\ LetGo(x) => LetGo(y)
<1>1. Paired(x) => Paired(y)
  BY DEF Paired, Like, Sees
<1>2. (LetGo(x) <=> LetGo(y)) /\ (Owing(x) <=> Owing(y)) /\ (Pulled(x) <=> Pulled(y))
  BY DEF LetGo, Owing, Pulled, Like, Sees
<1>3. (Active(x.tx) \/ x.co.device) /\ OwnsAfter(x) => OwnsAfter(y)
  BY UnseenIs DEF OwnsAfter, Like
<1>4. Effects(x) => Effects(y)
  BY <1>2, <1>3 DEF Effects, Like, Sees
<1>5. Kept(x) => Kept(y)
  BY <1>1, <1>2, <1>4 DEF Kept, Like
<1>6. Quieted(x) => Quieted(y)
  BY <1>5 DEF Quieted, Like, Sees
<1> QED BY <1>2, <1>5, <1>6 DEF Clear, Like

LEMMA ReturnLike ==
    ASSUME NEW x \in Runs, NEW ok \in BOOLEAN
    PROVE  Like(x, Return(x, ok)) /\ Return(x, ok).co = x.co /\ Return(x, ok).ok = ok
  BY DEF Return, Runs, Like, Sees

LEMMA PublishLike ==
    ASSUME NEW x \in Runs
    PROVE  Like(x, Publish(x)) /\ Publish(x).co = x.co /\ Publish(x).ok = x.ok
<1> DEFINE over == x.over \/ Unseen(x)
<1>1. over \in BOOLEAN
  BY DEF Runs, Unseen
<1>2. Publish(x) = [x EXCEPT !.over = over]
  BY DEF Publish, Unseen
<1> HIDE DEF over
<1>3. /\ Publish(x) \in Runs /\ Publish(x).tx = x.tx /\ Publish(x).dt = x.dt
      /\ Publish(x).calls = x.calls /\ Publish(x).co = x.co /\ Publish(x).ok = x.ok
      /\ Publish(x).over = over
  BY <1>1, <1>2 DEF Runs
<1> QED BY <1>3 DEF Like, Sees, over

LEMMA DoSees ==
    ASSUME NEW x \in Runs, Good(x.tx), x.dt \in Nat, NEW ev \in Events
    PROVE  LET y == Do(x, ev)
               d == Dispatch(x.tx, x.dt, ev)
           IN  /\ y \in Runs /\ Good(y.tx) /\ y.tx = d.tx /\ (y.ok <=> d.ok)
               /\ Sees(x.co, y.co) /\ y.calls = x.calls /\ y.dt = 0
               /\ y.over => x.over \/ Unseen(y)
<1> DEFINE d == Dispatch(x.tx, x.dt, ev)
           moved == IF x.dt > 0 THEN x.dt ELSE 0
           age == IF x.co.offAttempted THEN Saturate(x.co.offAge + moved) ELSE 0
           c == [x.co EXCEPT !.offAge = age]
           z == [x EXCEPT !.tx = d.tx, !.ok = d.ok /\ InvariantsHold(d.tx),
                          !.dt = x.dt - moved, !.co = c]
<1>1. x.co \in Coordinators
  BY DEF Runs
<1>2. /\ Do(x, ev) \in Runs /\ Good(Do(x, ev).tx) /\ Do(x, ev).tx = d.tx
      /\ (Do(x, ev).ok <=> d.ok) /\ SameCo(x.co, Do(x, ev).co)
      /\ Do(x, ev).calls = x.calls /\ Do(x, ev).dt = 0
  BY DoIs
<1>3. Do(x, ev) = Publish(z)
  BY DEF Do, Answered
<1> HIDE DEF age, d, moved
<1>4. c.offAttempted = x.co.offAttempted
  BY <1>1 DEF Coordinators
<1> HIDE DEF c
<1>5. /\ z.co = c /\ z.tx = d.tx /\ z.over = x.over
      /\ DOMAIN z = {"tx", "co", "dt", "calls", "ok", "over"}
  BY DEF Runs
<1> HIDE DEF z
<1>6. Publish(z).co = z.co /\ Publish(z).tx = z.tx /\ Publish(z).over = (z.over \/ Unseen(z))
  BY <1>5 DEF Publish, Unseen
<1> QED BY <1>2, <1>3, <1>4, <1>5, <1>6 DEF Sees, SameCo, d, Unseen

-----------------------------------------------------------------------------
(* The events.                                                             *)

\* What the steps of a method have in common: only start() begins a session.
Follows(x, y) ==
    /\ y.tx.sessions = x.tx.sessions /\ (x.dt = 0 => y.dt = 0)
    /\ Sending(y.tx) => Sending(x.tx)

LEMMA KeptMeans ==
    ASSUME NEW x, Kept(x)
    PROVE  /\ x \in Runs /\ Good(x.tx) /\ x.dt \in Nat /\ x.tx \in Machines
           /\ x.co \in Coordinators /\ x.calls \in SUBSET Hooks /\ x.ok \in BOOLEAN
           /\ InvariantsHold(x.tx) /\ (Active(x.tx) => x.tx.session > 0)
  BY GoodMeans DEF Kept, Paired, Runs

LEMMA DoKept ==
    ASSUME NEW x, Kept(x), NEW ev \in Events,
           Moves(x.tx, Dispatch(x.tx, x.dt, ev).tx)
    PROVE  LET y == Do(x, ev)
               d == Dispatch(x.tx, x.dt, ev)
           IN  /\ Kept(y) /\ Follows(x, y) /\ y.dt = 0 /\ y.tx = d.tx
               /\ (y.ok <=> d.ok) /\ Sees(x.co, y.co) /\ y.calls = x.calls
               /\ (Sending(x.tx) => Sending(y.tx)) =>
                     (Quieted(x) => Quieted(y)) /\ (Clear(x) => Clear(y))
               /\ LetGo(x) <=> LetGo(y)
<1> DEFINE y == Do(x, ev)
           d == Dispatch(x.tx, x.dt, ev)
<1>1. x \in Runs /\ Good(x.tx) /\ x.dt \in Nat
  BY KeptMeans
<1>2. /\ y \in Runs /\ Good(y.tx) /\ y.tx = d.tx /\ (y.ok <=> d.ok)
      /\ Sees(x.co, y.co) /\ y.calls = x.calls /\ y.dt = 0
      /\ y.over => x.over \/ Unseen(y)
  BY <1>1, DoSees
<1>3. Moves(x.tx, y.tx)
  BY <1>2
<1> HIDE DEF y, d
<1>4. Paired(x) /\ Effects(x) /\ (Sending(x.tx) \/ LetGo(x) \/ Owing(x))
  BY DEF Kept
<1>5. Paired(y)
  BY <1>2, <1>3, <1>4 DEF Paired, Moves, Sees
<1>6. (LetGo(x) <=> LetGo(y)) /\ (Pulled(x) <=> Pulled(y))
  BY <1>2 DEF LetGo, Pulled
<1>7. Effects(y)
  <2>1. Active(y.tx) \/ y.co.device => Active(x.tx) \/ x.co.device
    BY <1>2, <1>3 DEF Moves, Sees
  <2>2. (Active(y.tx) \/ y.co.device) /\ OwnsAfter(x) => OwnsAfter(y)
    BY <1>2, UnseenIs DEF OwnsAfter
  <2> QED BY <1>2, <1>4, <1>6, <2>1, <2>2 DEF Effects, Sees
<1>8. Sending(y.tx) \/ LetGo(y) \/ Owing(y)
  <2>1. CASE Sending(x.tx) /\ ~Sending(y.tx) /\ ~Vox
    <3>1. x.tx.releaseRequired /\ ~x.co.offAttempted
      BY <1>4, <2>1 DEF Paired, Sending
    <3>2. y.tx.state = "ReleasingPtt"
      BY <1>3, <2>1, <3>1 DEF Moves
    <3>3. y.tx.releaseRequired
      BY <1>3, <3>1, <3>2 DEF Moves, Active, OnAirStates
    <3> QED BY <1>2, <3>1, <3>2, <3>3 DEF Owing, Sees
  <2>2. CASE Owing(x)
    <3>1. y.tx.state = "ReleasingPtt"
      BY <1>3, <2>2 DEF Moves, Owing
    <3>2. y.tx.releaseRequired
      BY <1>3, <2>2, <3>1 DEF Moves, Owing, Active, OnAirStates
    <3> QED BY <1>2, <2>2, <3>1, <3>2 DEF Owing, Sees
  <2>3. Vox => LetGo(y)
    BY DEF LetGo
  <2> QED BY <1>4, <1>6, <2>1, <2>2, <2>3
<1>9. Kept(y)
  BY <1>5, <1>7, <1>8 DEF Kept
<1>10. (Sending(x.tx) => Sending(y.tx)) => (Quieted(x) => Quieted(y))
  BY <1>2, <1>9 DEF Quieted, Sees
<1>11. (Sending(x.tx) => Sending(y.tx)) => (Clear(x) => Clear(y))
  BY <1>6, <1>10 DEF Clear
<1>12. Follows(x, y)
  BY <1>2, <1>3 DEF Follows, Moves
<1> QED BY <1>2, <1>6, <1>9, <1>10, <1>11, <1>12 DEF y, d

LEMMA CloseKept ==
    ASSUME NEW x, Kept(x), x.tx.state = "ReleasingPtt", LetGo(x)
    PROVE  LET y == Do(x, Event("PttReleased"))
           IN  /\ Kept(y) /\ Follows(x, y) /\ y.ok /\ ~Active(y.tx) /\ LetGo(y)
               /\ Sees(x.co, y.co) /\ (Quieted(x) => Clear(y))
<1> DEFINE ev == Event("PttReleased")
           y == Do(x, ev)
<1>1. x \in Runs /\ Good(x.tx) /\ x.dt \in Nat
  BY KeptMeans
<1>2. ev \in Events
  BY DEF Events, PlainEvents
<1>3. /\ y \in Runs /\ Good(y.tx) /\ y.tx = Dispatch(x.tx, x.dt, ev).tx
      /\ (y.ok <=> Dispatch(x.tx, x.dt, ev).ok)
      /\ Sees(x.co, y.co) /\ y.calls = x.calls /\ y.dt = 0
      /\ y.over => x.over \/ Unseen(y)
  BY <1>1, <1>2, DoSees
<1>4. /\ y.ok /\ y.tx.state \in Deferrable /\ y.tx.sessions = x.tx.sessions
  BY <1>1, <1>3, ReleasedMoves
<1> HIDE DEF y
<1>5. ~Active(y.tx) /\ ~Sending(y.tx) /\ y.tx.state # "WaitingForPtt" /\ ~Sending(x.tx)
  BY <1>4 DEF Active, Sending, PrePttStates, OnAirStates, AudioStates, Deferrable, Terminals
<1>6. Paired(x) /\ Effects(x) /\ LetGo(x)
  BY DEF Kept
<1>7. Paired(y)
  BY <1>3, <1>4, <1>5, <1>6 DEF Paired, Sees
<1>8. LetGo(y) /\ (Pulled(x) <=> Pulled(y))
  BY <1>3, <1>6 DEF LetGo, Pulled
<1>9. Effects(y)
  <2>1. y.co.device /\ OwnsAfter(x) => OwnsAfter(y)
    BY <1>3, UnseenIs DEF OwnsAfter
  <2> QED BY <1>3, <1>5, <1>6, <1>8, <2>1 DEF Effects, Sees
<1>10. Kept(y)
  BY <1>7, <1>8, <1>9 DEF Kept
<1>11. Quieted(x) => Clear(y)
  BY <1>3, <1>5, <1>8, <1>10 DEF Quieted, Clear, Sees
<1>12. Follows(x, y)
  BY <1>3, <1>4, <1>5 DEF Follows
<1> QED BY <1>3, <1>4, <1>5, <1>8, <1>10, <1>11, <1>12 DEF y

-----------------------------------------------------------------------------
(* The private helpers once more.                                          *)

LEMMA LikeFollows ==
    ASSUME NEW x, NEW y, Like(x, y)
    PROVE  Follows(x, y)
  BY DEF Like, Follows

LEMMA FollowsOn ==
    ASSUME NEW x, NEW y, NEW z, Follows(x, y), Follows(y, z)
    PROVE  Follows(x, z)
  BY DEF Follows

LEMMA ReleaseLeaseKept ==
    ASSUME NEW x, Kept(x), ~Pulled(x)
    PROVE  LET y == ReleaseLease(x)
           IN  /\ Kept(y) /\ Quieted(y) /\ Follows(x, y) /\ y.tx = x.tx
               /\ y.dt = x.dt /\ y.calls = x.calls /\ ~y.co.device /\ (LetGo(x) <=> LetGo(y))
<1> DEFINE c == [x.co EXCEPT !.attached = FALSE, !.detachPending = FALSE, !.device = FALSE]
           y == [x EXCEPT !.co = c]
<1>1. x \in Runs /\ x.co \in Coordinators
  BY KeptMeans
<1>2. /\ c \in Coordinators /\ ~c.device /\ c.startAttempted = x.co.startAttempted
      /\ c.session = x.co.session /\ c.offAttempted = x.co.offAttempted
      /\ c.complete = x.co.complete
  BY <1>1 DEF Coordinators
<1>3. ReleaseLease(x) = y
  BY DEF ReleaseLease
<1> HIDE DEF c
<1>4. /\ y \in Runs /\ y.tx = x.tx /\ y.co = c /\ y.dt = x.dt
      /\ y.calls = x.calls /\ y.over = x.over
  BY <1>1, <1>2 DEF Runs
<1> HIDE DEF y
<1>5. Paired(x) /\ Effects(x) /\ (Sending(x.tx) \/ LetGo(x) \/ Owing(x))
  BY DEF Kept
<1>6. Paired(y)
  BY <1>2, <1>4, <1>5 DEF Paired
<1>7. (LetGo(x) <=> LetGo(y)) /\ ~Pulled(y) /\ (Owing(x) <=> Owing(y))
  BY <1>2, <1>4 DEF LetGo, Pulled, Owing
<1>8. Effects(y)
  BY <1>2, <1>4, <1>5, <1>7 DEF Effects, OwnsAfter
<1>9. Kept(y)
  BY <1>4, <1>5, <1>6, <1>7, <1>8 DEF Kept
<1>10. Quieted(y) /\ Follows(x, y)
  BY <1>2, <1>4, <1>9 DEF Quieted, Follows
<1> QED BY <1>2, <1>3, <1>4, <1>7, <1>9, <1>10

\* detachAudio always gets rid of the device.
LEMMA DetachKept ==
    ASSUME NEW h \in HookAnswers, NEW x, Kept(x)
    PROVE  LET y == DetachAudio(x, h)
           IN  /\ Quieted(y) /\ Follows(x, y) /\ y.tx = x.tx /\ y.dt = x.dt
               /\ ~y.co.device /\ y.ok /\ (LetGo(x) <=> LetGo(y))
<1> DEFINE y == DetachAudio(x, h)
           Right(z) == /\ Quieted(z) /\ Follows(x, z) /\ z.tx = x.tx /\ z.dt = x.dt
                       /\ ~z.co.device /\ (LetGo(x) <=> LetGo(z))
<1>1. x \in Runs /\ x.co \in Coordinators /\ Paired(x) /\ Effects(x)
  BY KeptMeans DEF Kept
<1>2. ASSUME NEW r, Right(r), r \in Runs
      PROVE  Right(Return(r, TRUE)) /\ Return(r, TRUE).ok
  <2>1. Like(r, Return(r, TRUE)) /\ Return(r, TRUE).ok
    BY <1>2, ReturnLike
  <2> DEFINE z == Return(r, TRUE)
  <2> HIDE DEF z
  <2>2. Quieted(z) /\ Follows(r, z) /\ z.tx = r.tx /\ z.dt = r.dt
    BY <1>2, <2>1, LikeKept, LikeFollows DEF Like, z
  <2>3. ~z.co.device /\ (LetGo(r) <=> LetGo(z))
    BY <1>2, <2>1 DEF Like, Sees, LetGo, z
  <2>4. Follows(x, z)
    BY <1>2, <2>2, FollowsOn
  <2> QED BY <1>2, <2>1, <2>2, <2>3, <2>4 DEF z
<1>3. CASE ~x.co.device
  <2>1. y = Return(x, TRUE)
    BY <1>3 DEF DetachAudio
  <2>2. Right(x)
    BY <1>3 DEF Quieted, Follows
  <2> QED BY <1>1, <1>2, <2>1, <2>2
<1>4. CASE x.co.device /\ ~x.co.startAttempted
  <2> DEFINE r == ReleaseLease(x)
  <2>1. y = Return(r, TRUE)
    BY <1>4 DEF DetachAudio
  <2>2. ~Pulled(x)
    BY <1>1, <1>4 DEF Effects
  <2>3. Right(r) /\ r \in Runs
    BY <2>2, ReleaseLeaseKept, KeptMeans
  <2> QED BY <1>2, <2>1, <2>3
<1>5. CASE x.co.device /\ x.co.startAttempted
  <2> DEFINE k == Calling(x, "detach")
             c == [k.co EXCEPT !.detachAttempted = TRUE, !.detachPending = TRUE]
             asked == [k EXCEPT !.co = c]
             b == [c EXCEPT !.attached = FALSE, !.detachPending = FALSE, !.device = FALSE]
             r == [asked EXCEPT !.co = b]
  <2>1. /\ k \in Runs /\ k.tx = x.tx /\ k.co = x.co /\ k.dt = x.dt
        /\ k.calls = x.calls \cup {"detach"}
    BY <1>1, CallingIs DEF Hooks
  <2>2. k.over = x.over
    BY <1>1 DEF Calling, Runs
  <2>3. ~x.co.detachAttempted /\ h.detach
    BY <1>1, <1>5 DEF Paired, HookAnswers
  <2>4. y = Return(Publish(r), TRUE)
    <3> DEFINE z == [k EXCEPT !.co.detachAttempted = TRUE, !.co.detachPending = TRUE]
    <3>1. y = Return(Publish(ReleaseLease(z)), TRUE)
      BY <1>5, <2>3 DEF DetachAudio
    <3> HIDE DEF k, y
    <3>2. z = asked
      BY <2>1 DEF Runs
    <3>3. ReleaseLease(asked) = r
      BY DEF ReleaseLease
    <3> HIDE DEF z, asked, r
    <3> QED BY <3>1, <3>2, <3>3
  <2> HIDE DEF y, k
  <2>5. /\ c \in Coordinators /\ c.session = x.co.session /\ c.complete = x.co.complete
        /\ c.startAttempted = x.co.startAttempted /\ c.offAttempted = x.co.offAttempted
    BY <1>1, <2>1 DEF Coordinators
  <2> HIDE DEF c
  <2>6. /\ asked \in Runs /\ asked.tx = x.tx /\ asked.co = c /\ asked.dt = x.dt
        /\ asked.calls = x.calls \cup {"detach"} /\ asked.over = x.over
    BY <2>1, <2>2, <2>5 DEF Runs
  <2> HIDE DEF asked
  <2>7. /\ b \in Coordinators /\ b.session = x.co.session /\ b.complete = x.co.complete
        /\ b.startAttempted = x.co.startAttempted /\ b.offAttempted = x.co.offAttempted
        /\ ~b.device
    BY <2>5 DEF Coordinators
  <2> HIDE DEF b
  <2>8. /\ r \in Runs /\ r.tx = x.tx /\ r.co = b /\ r.dt = x.dt
        /\ r.calls = x.calls \cup {"detach"} /\ r.over = x.over
    BY <2>6, <2>7 DEF Runs
  <2> HIDE DEF r
  <2>9. Paired(r)
    BY <1>1, <2>7, <2>8 DEF Paired
  <2>10. (LetGo(x) <=> LetGo(r)) /\ (Owing(x) <=> Owing(r)) /\ ~Pulled(r)
    BY <2>7, <2>8 DEF LetGo, Owing, Pulled
  <2>11. Effects(r)
    BY <1>1, <2>7, <2>8, <2>10 DEF Effects, OwnsAfter
  <2>12. Quieted(r)
    BY <2>7, <2>8, <2>9, <2>10, <2>11 DEF Kept, Quieted
  <2>13. Follows(x, r)
    BY <2>8 DEF Follows
  <2> DEFINE q == Publish(r)
  <2>14. Like(r, q) /\ q.co = r.co
    BY <2>8, PublishLike
  <2> HIDE DEF q
  <2>15. Quieted(q) /\ Follows(r, q) /\ (LetGo(r) <=> LetGo(q))
    BY <2>12, <2>14, LikeKept, LikeFollows DEF Like, LetGo
  <2>16. Right(q) /\ q \in Runs
    <3>1. Follows(x, q)
      BY <2>13, <2>15, FollowsOn
    <3> QED BY <2>7, <2>8, <2>10, <2>14, <2>15, <3>1 DEF Like
  <2>17. y = Return(q, TRUE)
    BY <2>4 DEF q
  <2> QED BY <1>2, <2>16, <2>17 DEF y
<1> QED BY <1>3, <1>4, <1>5

LEMMA AskOffKept ==
    ASSUME NEW x, Quieted(x), x.tx.state = "ReleasingPtt"
    PROVE  Clear(AskOff(x)) /\ Follows(x, AskOff(x)) /\ AskOff(x) \in Runs
<1> DEFINE k == Calling(x, "off")
           age == IF x.dt < 0 THEN Saturate(-x.dt) ELSE 0
           c == [k.co EXCEPT !.offAttempted = TRUE, !.offAge = age]
           y == [k EXCEPT !.co = c]
<1>1. /\ Kept(x) /\ x \in Runs /\ x.co \in Coordinators /\ x.dt \in Nat
      /\ Active(x.tx) => x.tx.session > 0
  BY KeptMeans DEF Quieted
<1>2. /\ k \in Runs /\ k.tx = x.tx /\ k.co = x.co /\ k.dt = x.dt
      /\ k.calls = x.calls \cup {"off"}
  BY <1>1, CallingIs DEF Hooks
<1>3. k.over = x.over
  BY <1>1 DEF Calling, Runs
<1>4. age \in 0..MaxAge
  BY <1>1, MachineAssumption DEF MachineAssumption
<1>5. AskOff(x) = y
  BY DEF AskOff
<1> HIDE DEF k, age
<1>6. /\ c \in Coordinators /\ c.offAttempted /\ c.session = x.co.session
      /\ c.device = x.co.device /\ c.startAttempted = x.co.startAttempted
      /\ c.detachAttempted = x.co.detachAttempted /\ c.complete = x.co.complete
  BY <1>1, <1>2, <1>4 DEF Coordinators
<1> HIDE DEF c
<1>7. /\ y \in Runs /\ y.tx = x.tx /\ y.co = c /\ y.dt = x.dt
      /\ y.calls = x.calls \cup {"off"} /\ y.over = x.over
  BY <1>1, <1>2, <1>3, <1>6 DEF Runs
<1> HIDE DEF y
<1>8. Paired(x) /\ Effects(x)
  BY <1>1 DEF Kept
<1>9. Active(x.tx) /\ ~Sending(x.tx)
  BY DEF Active, Sending, OnAirStates
<1>10. Paired(y)
  BY <1>6, <1>7, <1>8, <1>9 DEF Paired
<1>11. LetGo(y) /\ (Pulled(y) <=> Pulled(x))
  BY <1>7 DEF LetGo, Pulled
<1>12. c.session > 0
  BY <1>1, <1>6, <1>8, <1>9 DEF Paired
<1>13. Effects(y)
  BY <1>6, <1>7, <1>8, <1>11, <1>12 DEF Effects, OwnsAfter
<1>14. Clear(y)
  BY <1>6, <1>7, <1>10, <1>11, <1>13 DEF Kept, Quieted, Clear
<1>15. Follows(x, y)
  BY <1>7 DEF Follows
<1> QED BY <1>5, <1>7, <1>14, <1>15

\* Whoever owes the radio its OFF asks for it here.
LEMMA RequestPttReleaseKept ==
    ASSUME NEW h \in HookAnswers, NEW x, Quieted(x)
    PROVE  LET y == RequestPttRelease(x, h)
           IN  Clear(y) /\ Follows(x, y) /\ y \in Runs
<1> DEFINE y == RequestPttRelease(x, h)
<1>1. Kept(x) /\ x \in Runs
  BY KeptMeans DEF Quieted
<1>2. h.off
  BY DEF HookAnswers
<1>3. Sending(x.tx) \/ LetGo(x) \/ Owing(x)
  BY <1>1 DEF Kept
<1>4. CASE y = x /\ ~Owing(x)
  BY <1>1, <1>3, <1>4 DEF Clear, Follows
<1>5. CASE x.tx.state # "ReleasingPtt"
  BY <1>4, <1>5 DEF RequestPttRelease, Owing
<1>6. CASE x.tx.state = "ReleasingPtt" /\ ~x.tx.releaseRequired
  <2>1. y = Do(x, Event("PttReleased")) /\ LetGo(x)
    BY <1>3, <1>6 DEF RequestPttRelease, Owing, Sending
  <2> HIDE DEF y
  <2>2. Clear(y) /\ Follows(x, y)
    BY <1>1, <1>6, <2>1, CloseKept
  <2> QED BY <2>2, KeptMeans DEF Clear, Quieted, y
<1>7. CASE x.tx.state = "ReleasingPtt" /\ x.tx.releaseRequired /\ OffIsRecent(x)
  BY <1>4, <1>7 DEF RequestPttRelease, Owing, OffIsRecent
<1>8. CASE x.tx.state = "ReleasingPtt" /\ x.tx.releaseRequired /\ ~OffIsRecent(x)
  <2> DEFINE a == AskOff(x)
  <2>1. y = Publish(a)
    BY <1>2, <1>8 DEF RequestPttRelease
  <2>2. Clear(a) /\ Follows(x, a) /\ a \in Runs
    BY <1>8, AskOffKept
  <2> HIDE DEF a
  <2>3. Like(a, Publish(a))
    BY <2>2, PublishLike
  <2>4. Clear(y) /\ Follows(a, y)
    BY <2>1, <2>2, <2>3, LikeKept, LikeFollows
  <2> HIDE DEF y
  <2>5. Follows(x, y)
    BY <2>2, <2>4, FollowsOn
  <2> QED BY <2>4, <2>5, KeptMeans DEF Clear, Quieted, y
<1> QED BY <1>5, <1>6, <1>7, <1>8

LEMMA AfterEndKept ==
    ASSUME NEW h \in HookAnswers, NEW x, Quieted(x), ~x.co.device
    PROVE  LET y == AfterEnd(x, h)
           IN  Clear(y) /\ Follows(x, y) /\ y \in Runs
<1> DEFINE r == RequestPttRelease(x, h)
           l == ReleaseLease(x)
           b == IF x.tx.state = "ReleasingPtt" THEN r
                ELSE IF x.tx.state \in Terminals /\ ~x.co.detachPending THEN l
                ELSE x
           y == Publish(b)
<1>1. Clear(r) /\ Follows(x, r) /\ r \in Runs
  BY RequestPttReleaseKept
<1>2. Kept(x) /\ x \in Runs /\ ~Pulled(x)
  BY KeptMeans DEF Quieted, Kept, Effects
<1>3. x.tx.state # "ReleasingPtt" => Sending(x.tx) \/ LetGo(x)
  BY <1>2 DEF Kept, Owing
<1>4. Quieted(l) /\ Follows(x, l) /\ l.tx = x.tx /\ (LetGo(x) <=> LetGo(l)) /\ l \in Runs
  BY <1>2, ReleaseLeaseKept, KeptMeans
<1>5. Follows(x, x)
  BY DEF Follows
<1>6. AfterEnd(x, h) = y
  BY DEF AfterEnd
<1> HIDE DEF r, l
<1>7. Clear(b) /\ Follows(x, b) /\ b \in Runs
  <2>1. CASE x.tx.state = "ReleasingPtt"
    BY <1>1, <2>1
  <2>2. CASE x.tx.state # "ReleasingPtt"
    BY <1>2, <1>3, <1>4, <1>5, <2>2 DEF Clear
  <2> QED BY <2>1, <2>2
<1> HIDE DEF b
<1>8. Like(b, y)
  BY <1>7, PublishLike
<1> HIDE DEF y
<1>9. Clear(y) /\ Follows(b, y) /\ y \in Runs
  BY <1>7, <1>8, LikeKept, LikeFollows DEF Like
<1> QED BY <1>6, <1>7, <1>9, FollowsOn

LEMMA EndKept ==
    ASSUME NEW x, Kept(x), Active(x.tx), NEW type \in {"Failure", "Cancel"}
    PROVE  LET y == Do(x, Event(type))
           IN  Kept(y) /\ Follows(x, y) /\ y.ok /\ ~Sending(y.tx)
<1> DEFINE ev == Event(type)
           n == Dispatch(x.tx, x.dt, ev).tx
<1>1. Good(x.tx) /\ x.dt \in Nat
  BY KeptMeans
<1>2. ev \in Events
  BY DEF Events, PlainEvents
<1>3. Dispatch(x.tx, x.dt, ev).ok /\ Ends(x.tx, n, IF type = "Failure" THEN "Error" ELSE "Cancelled")
  BY <1>1, FailureMoves
<1>4. Moves(x.tx, n) /\ ~Sending(n)
  BY <1>1, <1>3, EndMoves
<1> QED BY <1>2, <1>3, <1>4, DoKept

LEMMA FailKept ==
    ASSUME NEW h \in HookAnswers, NEW x, Kept(x)
    PROVE  LET y == Fail(x, h)
           IN  Clear(y) /\ Follows(x, y) /\ ~Sending(y.tx) /\ y \in Runs
<1> DEFINE f == IF Active(x.tx) THEN Do(x, Event("Failure")) ELSE x
           d == DetachAudio(f, h)
           a == AfterEnd(d, h)
<1>1. Kept(f) /\ Follows(x, f) /\ ~Sending(f.tx)
  <2>1. CASE Active(x.tx)
    BY <2>1, EndKept
  <2>2. CASE ~Active(x.tx)
    BY <2>2 DEF Follows, Sending
  <2> QED BY <2>1, <2>2
<1>2. Fail(x, h) = Return(a, FALSE)
  BY DEF Fail
<1> HIDE DEF f
<1>3. Quieted(d) /\ Follows(f, d) /\ ~d.co.device
  BY <1>1, DetachKept
<1> HIDE DEF d
<1>4. Clear(a) /\ Follows(d, a) /\ a \in Runs
  BY <1>3, AfterEndKept
<1> HIDE DEF a
<1> DEFINE y == Return(a, FALSE)
<1>5. Like(a, y)
  BY <1>4, ReturnLike
<1> HIDE DEF y
<1>6. Clear(y) /\ Follows(a, y) /\ y \in Runs
  BY <1>4, <1>5, LikeKept, LikeFollows DEF Like
<1>7. Follows(f, y)
  BY <1>3, <1>4, <1>6, FollowsOn
<1>8. Follows(x, y) /\ ~Sending(y.tx)
  BY <1>1, <1>7, FollowsOn DEF Follows
<1> QED BY <1>2, <1>6, <1>8 DEF y

-----------------------------------------------------------------------------
(* An event that comes in time is taken, and the phase it begins has time. *)

\* The phase of m is the one that ev ends.
Awaits(m, ev) ==
    /\ m.state = From[ev.type] /\ ev.type # "TailElapsed"
    /\ ev.type = "PttConfirmed" => ~m.confirmed
    /\ ev.type = "LeadElapsed" => m.confirmed

LEMMA Taken ==
    ASSUME NEW k, Good(k), NEW ev \in Progress, Awaits(k, ev)
    PROVE  Ordinary(k, ev).ok /\ Ordinary(k, ev).tx.age = 0
<1>1. k \in Machines /\ (k.state = "WaitingForPtt" => k.requested)
  BY GoodMeans
<1>2. ASSUME NEW type \in {"ImagePrepared", "Request", "HeaderComplete",
                           "ImageComplete", "FskIdComplete"},
             ev = Event(type)
      PROVE  Ordinary(k, ev).ok /\ Ordinary(k, ev).tx.age = 0
  <2>1. k.state = From[type] /\ ev.type = type
    BY <1>2 DEF Awaits, Event
  <2>2. PICK state : Ordinary(k, ev) = Accept(Enter(k, state))
    BY <1>2, <2>1 DEF Ordinary, When, From
  <2>3. Enter(k, state).age = 0
    BY <1>1 DEF Enter, Machines
  <2> QED BY <2>2, <2>3 DEF Accept
<1>3. CASE ev = Event("PttConfirmed")
  <2> DEFINE n == Enter([k EXCEPT !.confirmed = TRUE], "WaitingForPtt")
  <2>1. ev.type = "PttConfirmed" /\ k.state = "WaitingForPtt" /\ ~k.confirmed
    BY <1>3 DEF Event, Awaits, From
  <2>2. Ordinary(k, ev) = Accept(n)
    BY <1>1, <2>1 DEF Ordinary, When
  <2>3. n.age = 0
    BY <1>1 DEF Enter, Machines
  <2> QED BY <2>2, <2>3 DEF Accept
<1>4. CASE ev = Event("LeadElapsed")
  <2> DEFINE n == Enter([k EXCEPT !.audioStarted = TRUE], "TransmittingHeader")
  <2>1. ev.type = "LeadElapsed" /\ k.state = "WaitingForPtt" /\ k.confirmed
    BY <1>4 DEF Event, Awaits, From
  <2>2. Ordinary(k, ev) = Accept(n)
    BY <1>1, <2>1 DEF Ordinary, When
  <2>3. n.age = 0
    BY <1>1 DEF Enter, Machines
  <2> QED BY <2>2, <2>3 DEF Accept
<1>5. CASE ev = Event("TailElapsed")
  BY <1>5 DEF Event, Awaits
<1>6. ASSUME NEW fskId \in BOOLEAN, ev = EncodingCompleteEvent(TRUE, fskId)
      PROVE  Ordinary(k, ev).ok /\ Ordinary(k, ev).tx.age = 0
  <2> DEFINE n == Enter([k EXCEPT !.fskId = ev.fskId], "Ready")
  <2>1. ev.type = "EncodingComplete" /\ k.state = "Encoding" /\ ev.valid
    BY <1>6 DEF EncodingCompleteEvent, Awaits, From
  <2>2. Ordinary(k, ev) = Accept(n)
    BY <1>1, <2>1 DEF Ordinary, When
  <2>3. n.age = 0
    BY <1>1 DEF Enter, Machines
  <2> QED BY <2>2, <2>3 DEF Accept
<1>7. ASSUME NEW release \in BOOLEAN, ev = PttRequestDispatchedEvent(release)
      PROVE  Ordinary(k, ev).ok /\ Ordinary(k, ev).tx.age = 0
  <2> DEFINE n == Enter([k EXCEPT !.requested = TRUE, !.releaseRequired = ev.release],
                        "WaitingForPtt")
  <2>1. ev.type = "PttRequestDispatched" /\ k.state = "RequestingPtt"
    BY <1>7 DEF PttRequestDispatchedEvent, Awaits, From
  <2>2. Ordinary(k, ev) = Accept(n)
    BY <1>1, <2>1 DEF Ordinary, When
  <2>3. n.age = 0
    BY <1>1 DEF Enter, Machines
  <2> QED BY <2>2, <2>3 DEF Accept
<1> QED BY <1>2, <1>3, <1>4, <1>5, <1>6, <1>7, ProgressTypes

LEMMA OnTime ==
    ASSUME NEW m, Good(m), NEW dt \in Nat, NEW ev \in Progress, Awaits(m, ev)
    PROVE  LET d == Dispatch(m, dt, ev)
           IN  /\ d.ok
               /\ TimesOut(m, d.tx) \/ Progresses(m, d.tx, ev)
               /\ Sending(d.tx) => ~Expired(d.tx)
               /\ dt = 0 /\ ~Expired(m) => Progresses(m, d.tx, ev)
<1> DEFINE k == Elapse(m, dt)
           d == Dispatch(m, dt, ev)
<1>1. Good(k) /\ SameBut(m, k) /\ m \in Machines /\ k \in Machines
  BY TimePasses, GoodMeans DEF SameBut
<1>2. /\ k.state = m.state /\ k.confirmed = m.confirmed /\ k.session = m.session
      /\ k.sessions = m.sessions /\ k.enabled = m.enabled
      /\ k.releaseRequired = m.releaseRequired
  BY <1>1 DEF SameBut, Machines
<1>3. dt = 0 /\ m.state \in TimedStates => k.age = m.age
  BY <1>1, MachineAssumption DEF Elapse, Machines, MachineAssumption
<1>4. dt = 0 /\ ~Expired(m) => ~Expired(k)
  BY <1>2, <1>3 DEF Expired
<1>5. d = IF Expired(k) THEN Accept(RequestTerminal(k, "Error")) ELSE Ordinary(k, ev)
  <2>1. ev.type \notin UrgentEvents
    BY ProgressTypes
  <2>2. ~(dt < 0)
    OBVIOUS
  <2> QED BY <2>1, <2>2 DEF Dispatch
<1> HIDE DEF k, d
<1>6. CASE Expired(k)
  <2>1. k.state \in TimedStates /\ k.state # "Disabled"
    BY <1>6 DEF Expired, TimedStates, PrePttStates, OnAirStates, AudioStates
  <2>2. Ends(k, d.tx, "Error") /\ d.ok
    BY <1>1, <1>5, <1>6, <2>1, SessionEnds DEF Accept
  <2>3. TimesOut(m, d.tx)
    BY <1>1, <1>2, <2>1, <2>2, EndsLater DEF TimesOut
  <2> QED BY <1>4, <1>6, <2>2, <2>3, OutMoves DEF d
<1>7. CASE ~Expired(k)
  <2>1. d.ok /\ d.tx.age = 0
    BY <1>1, <1>2, <1>5, <1>7, Taken DEF Awaits
  <2>2. Progresses(k, d.tx, ev)
    BY <1>1, <1>5, <1>7, <2>1, OrdinaryMoves DEF Reject
  <2>3. Progresses(m, d.tx, ev)
    BY <1>2, <2>2 DEF Progresses
  <2>4. ~Expired(d.tx)
    BY <2>1, MachineAssumption DEF MachineAssumption, Expired
  <2> QED BY <2>1, <2>3, <2>4 DEF d
<1> QED BY <1>6, <1>7

\* An event that is not awaited, or comes too late, is an event all the same.
LEMMA AnyMoves ==
    ASSUME NEW m, Good(m), NEW dt \in Nat, NEW ev \in Progress,
           ev.type # "PttRequestDispatched"
    PROVE  Moves(m, Dispatch(m, dt, ev).tx)
  BY ProgressMoves, SameMoves, OutMoves, PassMoves

LEMMA TickOnTime ==
    ASSUME NEW m, Good(m), NEW dt \in Nat
    PROVE  LET n == Dispatch(m, dt, Event("Tick")).tx
           IN  Sending(n) => ~Expired(n)
<1> DEFINE k == Elapse(m, dt)
           d == Dispatch(m, dt, Event("Tick"))
<1>1. Good(k)
  BY TimePasses
<1>2. d = IF Expired(k) THEN Accept(RequestTerminal(k, "Error")) ELSE Accept(k)
  BY DEF Dispatch, Event, UrgentEvents, Ordinary
<1> HIDE DEF k, d
<1>3. CASE Expired(k)
  <2>1. k.state \in TimedStates /\ k.state # "Disabled"
    BY <1>3 DEF Expired, TimedStates, PrePttStates, OnAirStates, AudioStates
  <2>2. Ends(k, d.tx, "Error")
    BY <1>1, <1>2, <1>3, <2>1, SessionEnds DEF Accept
  <2>3. TimesOut(k, d.tx)
    BY <2>1, <2>2 DEF TimesOut
  <2> QED BY <1>1, <2>3, OutMoves DEF d
<1>4. CASE ~Expired(k)
  BY <1>2, <1>4 DEF Accept, d
<1> QED BY <1>3, <1>4

-----------------------------------------------------------------------------
(* The methods: what is clear before them is clear after them.             *)

\* The clock has been read, and the phase is not over its budget.
Fresh(x) == x.dt = 0 /\ (Sending(x.tx) => ~Expired(x.tx))

LEMMA LikeFresh ==
    ASSUME NEW x, NEW y, Like(x, y), Fresh(x) PROVE Fresh(y)
  BY DEF Like, Fresh

LEMMA OverFresh ==
    ASSUME NEW x, NEW y, Follows(x, y), x.dt = 0, ~Sending(x.tx) \/ ~Sending(y.tx)
    PROVE  Fresh(y)
  BY DEF Follows, Fresh

\* A session that has not come to its release has nothing to be told of.
LEMMA StaysQuiet ==
    ASSUME NEW x, Quieted(x), NEW y, Kept(y), Moves(x.tx, y.tx), Sees(x.co, y.co),
           y.tx.state # "ReleasingPtt"
    PROVE  Clear(y)
<1>1. Kept(x) /\ Paired(x)
  BY DEF Quieted, Kept
<1>2. ~Vox /\ Sending(x.tx) => Sending(y.tx)
  BY <1>1 DEF Paired, Moves, Sending
<1>3. Quieted(y)
  BY <1>2 DEF Quieted, Sees
<1>4. Sending(y.tx) \/ LetGo(y)
  BY DEF Kept, Owing
<1> QED BY <1>3, <1>4 DEF Clear

LEMMA AskStartKept ==
    ASSUME NEW x, Quieted(x), Sending(x.tx), x.tx.state # "WaitingForPtt", x.co.device
    PROVE  LET y == AskStart(x)
           IN  Clear(y) /\ Follows(x, y) /\ y.tx = x.tx /\ y.dt = x.dt
<1> DEFINE k == Calling(x, "start")
           c == [k.co EXCEPT !.startAttempted = TRUE, !.attached = TRUE]
           y == [k EXCEPT !.co = c]
<1>1. Kept(x) /\ x \in Runs /\ x.co \in Coordinators
  BY KeptMeans DEF Quieted
<1>2. /\ k \in Runs /\ k.tx = x.tx /\ k.co = x.co /\ k.dt = x.dt
      /\ k.calls = x.calls \cup {"start"}
  BY <1>1, CallingIs DEF Hooks
<1>3. k.over = x.over
  BY <1>1 DEF Calling, Runs
<1>4. AskStart(x) = y
  <2> DEFINE z == [k EXCEPT !.co.startAttempted = TRUE, !.co.attached = TRUE]
  <2>1. AskStart(x) = z
    BY DEF AskStart
  <2> HIDE DEF k
  <2>2. z = y
    BY <1>2 DEF Runs
  <2> QED BY <2>1, <2>2
<1> HIDE DEF k
<1>5. /\ c \in Coordinators /\ c.startAttempted /\ c.device = x.co.device
      /\ c.detachAttempted = x.co.detachAttempted /\ c.complete = x.co.complete
      /\ c.offAttempted = x.co.offAttempted /\ c.session = x.co.session
  BY <1>1, <1>2 DEF Coordinators
<1> HIDE DEF c
<1>6. /\ y \in Runs /\ y.tx = x.tx /\ y.co = c /\ y.dt = x.dt
      /\ y.calls = x.calls \cup {"start"} /\ y.over = x.over
  BY <1>2, <1>3, <1>5 DEF Runs
<1> HIDE DEF y
<1>7. Paired(x) /\ Effects(x)
  BY <1>1 DEF Kept
<1>8. Paired(y)
  BY <1>5, <1>6, <1>7 DEF Paired
<1>9. Effects(y)
  BY <1>5, <1>6, <1>7 DEF Effects, OwnsAfter
<1>10. Clear(y)
  BY <1>5, <1>6, <1>8, <1>9 DEF Kept, Quieted, Clear
<1> QED BY <1>4, <1>6, <1>10 DEF Follows

LEMMA StartAudioKept ==
    ASSUME NEW h \in HookAnswers, NEW x, Quieted(x), Fresh(x)
    PROVE  LET y == StartAudio(x, h)
           IN  /\ Quieted(y) /\ Follows(x, y) /\ Fresh(y)
               /\ Clear(x) => Clear(y)
<1> DEFINE y == StartAudio(x, h)
           ev == Event("LeadElapsed")
           led == Do(x, ev)
           asked == AskStart(led)
           Right(z) == Clear(z) /\ Follows(x, z) /\ Fresh(z)
<1>1. /\ Kept(x) /\ x \in Runs /\ Good(x.tx) /\ x.dt = 0
  BY KeptMeans DEF Quieted, Fresh
<1>2. CASE \/ x.co.startAttempted \/ ~x.co.device
           \/ x.tx.state # "WaitingForPtt" \/ ~x.tx.confirmed
  <2>1. y = Return(x, FALSE)
    BY <1>2 DEF StartAudio
  <2> HIDE DEF y
  <2>2. Like(x, y)
    BY <1>1, <2>1, ReturnLike
  <2> QED BY <2>2, LikeKept, LikeFollows, LikeFresh DEF y
<1>3. CASE /\ ~x.co.startAttempted /\ x.co.device
           /\ x.tx.state = "WaitingForPtt" /\ x.tx.confirmed
  <2> DEFINE d == Dispatch(x.tx, x.dt, ev)
  <2>1. y = StartLed(led, h)
    BY <1>3 DEF StartAudio
  <2>2. ev \in Progress /\ ev.type = "LeadElapsed" /\ ev \in Events
    <3>1. ev \in Progress /\ ev.type = "LeadElapsed"
      BY DEF Progress, From, Event
    <3> QED BY <3>1, ProgressTypes
  <2>3. Awaits(x.tx, ev) /\ Sending(x.tx)
    BY <1>3, <2>2 DEF Awaits, From, Sending, Active, OnAirStates
  <2>4. /\ d.ok /\ Progresses(x.tx, d.tx, ev) /\ (Sending(d.tx) => ~Expired(d.tx))
    BY <1>1, <2>2, <2>3, OnTime DEF Fresh
  <2>5. Moves(x.tx, d.tx) /\ Sending(d.tx)
    BY <1>1, <2>2, <2>4, PassMoves
  <2>6. d.tx.state = "TransmittingHeader"
    BY <2>2, <2>4 DEF Progresses, To
  <2> HIDE DEF d, ev, y
  <2>7. /\ Quieted(led) /\ Follows(x, led) /\ led.dt = 0 /\ led.tx = d.tx /\ led.ok
        /\ Sees(x.co, led.co)
    BY <1>1, <2>2, <2>4, <2>5, DoKept DEF d
  <2> HIDE DEF led
  <2>8. Clear(asked) /\ Follows(led, asked) /\ asked.tx = led.tx /\ asked.dt = led.dt
    BY <1>3, <2>5, <2>6, <2>7, AskStartKept DEF Sees
  <2> HIDE DEF asked
  <2>9. Right(asked)
    BY <2>4, <2>7, <2>8, FollowsOn DEF Fresh
  <2>10. Right(Return(Publish(asked), TRUE))
    <3> DEFINE p == Publish(asked)
               r == Return(p, TRUE)
    <3>1. Like(asked, p)
      BY <2>9, PublishLike, KeptMeans DEF Clear, Quieted
    <3> HIDE DEF p
    <3>2. Right(p)
      BY <2>9, <3>1, LikeKept, LikeFollows, LikeFresh, FollowsOn
    <3>3. Like(p, r)
      BY <3>2, ReturnLike, KeptMeans DEF Clear, Quieted
    <3> HIDE DEF r
    <3>4. Right(r)
      BY <3>2, <3>3, LikeKept, LikeFollows, LikeFresh, FollowsOn
    <3> QED BY <3>4 DEF r, p
  <2>11. Right(Fail(asked, h))
    <3> DEFINE r == Fail(asked, h)
    <3>1. Clear(r) /\ Follows(asked, r) /\ ~Sending(r.tx)
      BY <2>9, FailKept DEF Clear, Quieted
    <3> HIDE DEF r
    <3> QED BY <2>9, <3>1, FollowsOn, OverFresh DEF Fresh, r
  <2>12. y \in {Return(Publish(asked), TRUE), Fail(asked, h)}
    BY <2>1, <2>7 DEF StartLed, asked
  <2>13. Right(y)
    BY <2>10, <2>11, <2>12
  <2> QED BY <2>13 DEF Clear, y
<1> QED BY <1>2, <1>3

LEMMA ReturnKept ==
    ASSUME NEW x \in Runs, NEW ok \in BOOLEAN
    PROVE  LET y == Return(x, ok)
           IN  /\ Quieted(x) => Quieted(y)
               /\ Clear(x) => Clear(y)
               /\ Fresh(x) => Fresh(y)
               /\ Follows(x, y) /\ y.tx = x.tx /\ y.co = x.co /\ y.ok = ok
               /\ y \in Runs
<1> DEFINE y == Return(x, ok)
<1>1. Like(x, y) /\ y.co = x.co /\ y.ok = ok
  BY ReturnLike
<1> HIDE DEF y
<1>2. /\ Quieted(x) => Quieted(y)
      /\ Clear(x) => Clear(y)
      /\ Fresh(x) => Fresh(y)
      /\ Follows(x, y)
  BY <1>1, LikeKept, LikeFollows, LikeFresh
<1> QED BY <1>1, <1>2 DEF Like, y

LEMMA PublishKept ==
    ASSUME NEW x \in Runs
    PROVE  LET y == Publish(x)
           IN  /\ Quieted(x) => Quieted(y)
               /\ Clear(x) => Clear(y)
               /\ Fresh(x) => Fresh(y)
               /\ Follows(x, y) /\ y.tx = x.tx /\ y.co = x.co /\ y.ok = x.ok
               /\ y \in Runs
<1> DEFINE y == Publish(x)
<1>1. Like(x, y) /\ y.co = x.co /\ y.ok = x.ok
  BY PublishLike
<1> HIDE DEF y
<1>2. /\ Quieted(x) => Quieted(y)
      /\ Clear(x) => Clear(y)
      /\ Fresh(x) => Fresh(y)
      /\ Follows(x, y)
  BY <1>1, LikeKept, LikeFollows, LikeFresh
<1> QED BY <1>1, <1>2 DEF Like, y

\* The audio of a session that never started it is let go without a word.
LEMMA LetLeaseGo ==
    ASSUME NEW x, Clear(x), ~Pulled(x)
    PROVE  LET y == ReleaseLease(x)
           IN  Clear(y) /\ Follows(x, y) /\ y.tx = x.tx /\ y.dt = x.dt /\ y \in Runs
<1> DEFINE y == ReleaseLease(x)
<1>1. /\ Kept(y) /\ Quieted(y) /\ Follows(x, y) /\ y.tx = x.tx
      /\ y.dt = x.dt /\ (LetGo(x) <=> LetGo(y))
  BY ReleaseLeaseKept DEF Clear, Quieted
<1> HIDE DEF y
<1> QED BY <1>1, KeptMeans DEF Clear, y

\* The last sample has been played, or what is left of it is stopped.
LEMMA StopKept ==
    ASSUME NEW h \in HookAnswers, NEW x, Kept(x)
    PROVE  LET y == RequestPttRelease(DetachAudio(x, h), h)
           IN  Clear(y) /\ Follows(x, y) /\ y \in Runs
<1> DEFINE d == DetachAudio(x, h)
           y == RequestPttRelease(d, h)
<1>1. Quieted(d) /\ Follows(x, d)
  BY DetachKept
<1> HIDE DEF d
<1>2. Clear(y) /\ Follows(d, y) /\ y \in Runs
  BY <1>1, RequestPttReleaseKept
<1> HIDE DEF y
<1> QED BY <1>1, <1>2, FollowsOn DEF y, d

LEMMA TailedKept ==
    ASSUME NEW h \in HookAnswers, NEW x, Kept(x), x.dt = 0, ~x.co.device,
           x.tx.state = "TailDelay"
    PROVE  LET y == Tailed(Do(x, Event("TailElapsed")), h)
           IN  Clear(y) /\ Follows(x, y) /\ Fresh(y)
<1> DEFINE ev == Event("TailElapsed")
           e == Do(x, ev)
           r == RequestPttRelease(e, h)
           f == Fail(e, h)
           y == Tailed(e, h)
           d == Dispatch(x.tx, x.dt, ev)
           Right(z) == Clear(z) /\ Follows(x, z) /\ Fresh(z)
<1>1. x \in Runs /\ Good(x.tx) /\ x.dt \in Nat
  BY KeptMeans
<1>2. ev \in Progress /\ ev.type = "TailElapsed" /\ ev \in Events
  <2>1. ev \in Progress /\ ev.type = "TailElapsed"
    BY DEF Progress, From, Event
  <2> QED BY <2>1, ProgressTypes
<1>3. Moves(x.tx, d.tx)
  BY <1>1, <1>2, AnyMoves
<1>4. d.ok => ~Sending(d.tx)
  <2>1. \/ ~d.ok
        \/ TimesOut(x.tx, d.tx)
        \/ Progresses(x.tx, d.tx, ev)
    BY <1>1, <1>2, ProgressMoves
  <2>2. Progresses(x.tx, d.tx, ev) => d.tx.state = "ReleasingPtt"
    BY <1>2 DEF Progresses, To
  <2> HIDE DEF d
  <2> QED BY <1>1, <2>1, <2>2, OutMoves DEF Sending
<1> HIDE DEF ev, d
<1>5. /\ Kept(e) /\ Follows(x, e) /\ e.dt = 0 /\ e.tx = d.tx /\ (e.ok <=> d.ok)
      /\ Sees(x.co, e.co)
  BY <1>2, <1>3, DoKept DEF d
<1>6. y = IF e.ok THEN Return(r, TRUE) ELSE f
  BY DEF Tailed
<1> HIDE DEF e, y
<1>7. CASE e.ok
  <2>1. Quieted(e) /\ ~Sending(e.tx)
    BY <1>4, <1>5, <1>7 DEF Quieted, Sees
  <2>2. Clear(r) /\ Follows(e, r) /\ r \in Runs
    BY <2>1, RequestPttReleaseKept
  <2> HIDE DEF r
  <2>3. Right(r)
    BY <1>5, <2>1, <2>2, FollowsOn, OverFresh
  <2> DEFINE q == Return(r, TRUE)
  <2>4. Clear(q) /\ Fresh(q) /\ Follows(r, q)
    BY <2>2, <2>3, ReturnKept
  <2> HIDE DEF q
  <2> QED BY <1>6, <1>7, <2>3, <2>4, FollowsOn DEF q, y, e, ev
<1>8. CASE ~e.ok
  <2>1. Clear(f) /\ Follows(e, f) /\ ~Sending(f.tx)
    BY <1>5, FailKept
  <2> HIDE DEF f
  <2> QED BY <1>5, <1>6, <1>8, <2>1, FollowsOn, OverFresh DEF y, e, ev
<1> QED BY <1>7, <1>8

LEMMA TickKept ==
    ASSUME NEW h \in HookAnswers, NEW x, Quieted(x)
    PROVE  LET y == Tick(x, h)
           IN  Clear(y) /\ Follows(x, y) /\ Fresh(y)
<1> DEFINE ev == Event("Tick")
           d == Do(x, ev)
           n == Dispatch(x.tx, x.dt, ev)
           y == Tick(x, h)
           Right(z) == Clear(z) /\ Follows(x, z) /\ Fresh(z)
<1>1. Kept(x) /\ x \in Runs /\ Good(x.tx) /\ x.dt \in Nat
  BY KeptMeans DEF Quieted
<1>2. ev \in Events
  BY DEF Events, PlainEvents
<1>3. n.ok /\ Moves(x.tx, n.tx) /\ (Sending(n.tx) => ~Expired(n.tx))
  <2>1. Moves(x.tx, n.tx)
    BY <1>1, TickMoves, SameMoves, OutMoves
  <2> QED BY <1>1, <2>1, TickMoves, TickOnTime
<1>4. y = Ticked(x.tx.state, d, h)
  BY DEF Tick
<1> HIDE DEF ev, n
<1>5. /\ Kept(d) /\ Follows(x, d) /\ d.dt = 0 /\ d.tx = n.tx /\ d.ok /\ Sees(x.co, d.co)
      /\ (Sending(x.tx) => Sending(d.tx)) => Quieted(d)
  BY <1>1, <1>2, <1>3, DoKept DEF n
<1> HIDE DEF d, y
<1>6. Fresh(d) /\ Moves(x.tx, d.tx) /\ d \in Runs
  BY <1>3, <1>5, KeptMeans DEF Fresh
<1>7. ASSUME NEW r, Clear(r), Follows(d, r), Fresh(r), r \in Runs
      PROVE  Right(Return(r, TRUE))
  <2> DEFINE q == Return(r, TRUE)
  <2>1. Clear(q) /\ Fresh(q) /\ Follows(r, q)
    BY <1>7, ReturnKept
  <2> HIDE DEF q
  <2>2. Follows(x, r)
    BY <1>5, <1>7, FollowsOn
  <2>3. Follows(x, q)
    BY <2>1, <2>2, FollowsOn
  <2> QED BY <2>1, <2>3 DEF q
<1>8. CASE d.tx.state = "ReleasingPtt" /\ x.tx.state # "ReleasingPtt"
  <2> DEFINE r == RequestPttRelease(DetachAudio(d, h), h)
  <2>1. y = Return(r, TRUE)
    BY <1>4, <1>5, <1>8 DEF Ticked
  <2>2. Clear(r) /\ Follows(d, r) /\ r \in Runs
    BY <1>5, StopKept
  <2> HIDE DEF r
  <2>3. Fresh(r)
    BY <1>5, <1>8, <2>2, OverFresh DEF Sending
  <2> QED BY <1>7, <2>1, <2>2, <2>3 DEF y
<1>9. CASE d.tx.state = "ReleasingPtt" /\ x.tx.state = "ReleasingPtt"
  <2> DEFINE r == RequestPttRelease(d, h)
  <2>1. y = Return(r, TRUE)
    BY <1>4, <1>5, <1>9 DEF Ticked
  <2>2. Quieted(d)
    BY <1>5, <1>9 DEF Sending
  <2>3. Clear(r) /\ Follows(d, r) /\ r \in Runs
    BY <2>2, RequestPttReleaseKept
  <2> HIDE DEF r
  <2>4. Fresh(r)
    BY <1>5, <1>9, <2>3, OverFresh DEF Sending
  <2> QED BY <1>7, <2>1, <2>3, <2>4 DEF y
<1>10. CASE d.tx.state # "ReleasingPtt"
  <2>1. Clear(d)
    BY <1>5, <1>6, <1>10, StaysQuiet
  <2>2. Right(d)
    BY <1>5, <1>6, <2>1
  <2>3. CASE y = d
    BY <2>2, <2>3 DEF y
  <2>4. CASE y = Return(IF d.co.startAttempted THEN d ELSE ReleaseLease(d), TRUE)
    <3>1. CASE d.co.startAttempted
      <4>1. y = Return(d, TRUE)
        BY <2>4, <3>1
      <4>2. Follows(d, d)
        BY DEF Follows
      <4> QED BY <1>6, <1>7, <2>1, <4>1, <4>2 DEF y
    <3>2. CASE ~d.co.startAttempted
      <4> DEFINE r == ReleaseLease(d)
      <4>1. y = Return(r, TRUE)
        BY <2>4, <3>2
      <4>2. ~Pulled(d)
        BY <1>5, <3>2 DEF Kept, Effects
      <4>3. Clear(r) /\ Follows(d, r) /\ r.tx = d.tx /\ r.dt = d.dt /\ r \in Runs
        BY <2>1, <4>2, LetLeaseGo
      <4> HIDE DEF r
      <4>4. Fresh(r)
        BY <1>6, <4>3 DEF Fresh
      <4> QED BY <1>7, <4>1, <4>3, <4>4 DEF y
    <3> QED BY <3>1, <3>2
  <2>5. CASE y = StartAudio(d, h)
    <3>1. Clear(y) /\ Follows(d, y) /\ Fresh(y)
      BY <1>6, <2>1, <2>5, StartAudioKept DEF Clear
    <3> QED BY <1>5, <3>1, FollowsOn DEF y
  <2>6. CASE /\ y = Tailed(Do(d, Event("TailElapsed")), h)
             /\ d.tx.state = "TailDelay" /\ TailOver(d)
    <3>1. ~d.co.device
      BY <2>1, <2>6 DEF Clear, Quieted, TailOver
    <3>2. Clear(y) /\ Follows(d, y) /\ Fresh(y)
      BY <1>5, <2>6, <3>1, TailedKept
    <3> QED BY <1>5, <3>2, FollowsOn DEF y
  <2>7. \/ y = d
        \/ y = Return(IF d.co.startAttempted THEN d ELSE ReleaseLease(d), TRUE)
        \/ y = StartAudio(d, h)
        \/ /\ y = Tailed(Do(d, Event("TailElapsed")), h)
           /\ d.tx.state = "TailDelay" /\ TailOver(d)
    BY <1>4, <1>5, <1>10 DEF Ticked
  <2> QED BY <2>3, <2>4, <2>5, <2>6, <2>7
<1> QED BY <1>8, <1>9, <1>10

\* A confirmation that comes too late ends the session, and the OFF is left
\* to the tick that follows it.
LEMMA NotifyPttConfirmedKept ==
    ASSUME NEW h \in HookAnswers, NEW x, Clear(x), NEW sid
    PROVE  LET y == NotifyPttConfirmed(x, h, sid)
           IN  Quieted(y) /\ Follows(x, y)
<1> DEFINE ev == Event("PttConfirmed")
           d == Do(x, ev)
           n == Dispatch(x.tx, x.dt, ev)
           y == NotifyPttConfirmed(x, h, sid)
<1>1. /\ Quieted(x) /\ Kept(x) /\ x \in Runs /\ Good(x.tx) /\ x.dt \in Nat
      /\ x.tx.state = "WaitingForPtt" => ~x.co.startAttempted
  BY KeptMeans DEF Clear, Quieted, Kept, Paired
<1>2. CASE ~Matches(x, sid) \/ x.tx.state # "WaitingForPtt" \/ x.tx.confirmed
  <2>1. y = Return(x, FALSE)
    BY <1>2 DEF NotifyPttConfirmed
  <2> QED BY <1>1, <2>1, ReturnKept
<1>3. CASE Matches(x, sid) /\ x.tx.state = "WaitingForPtt" /\ ~x.tx.confirmed
  <2>1. y = Confirmed(d, h)
    BY <1>3 DEF NotifyPttConfirmed
  <2>2. ev \in Progress /\ ev.type = "PttConfirmed" /\ ev \in Events
    <3>1. ev \in Progress /\ ev.type = "PttConfirmed"
      BY DEF Progress, From, Event
    <3> QED BY <3>1, ProgressTypes
  <2>3. Awaits(x.tx, ev)
    BY <1>3, <2>2 DEF Awaits, From
  <2>4. n.ok /\ (Sending(n.tx) => ~Expired(n.tx)) /\ Moves(x.tx, n.tx)
    BY <1>1, <2>2, <2>3, OnTime, AnyMoves
  <2> HIDE DEF ev, n, y
  <2>5. /\ Kept(d) /\ Follows(x, d) /\ d.dt = 0 /\ d.tx = n.tx /\ d.ok /\ Sees(x.co, d.co)
    BY <1>1, <2>2, <2>4, DoKept DEF n
  <2> HIDE DEF d
  <2>6. Quieted(d) /\ Fresh(d) /\ d \in Runs
    BY <1>1, <1>3, <2>4, <2>5, KeptMeans DEF Quieted, Sees, Fresh
  <2>7. y = IF NoLead(d) THEN StartAudio(d, h) ELSE Return(d, TRUE)
    BY <2>1, <2>5 DEF Confirmed
  <2>8. CASE y = StartAudio(d, h)
    <3>1. Quieted(y) /\ Follows(d, y)
      BY <2>6, <2>8, StartAudioKept
    <3> QED BY <2>5, <3>1, FollowsOn DEF y
  <2>9. CASE y = Return(d, TRUE)
    <3>1. Quieted(y) /\ Follows(d, y)
      BY <2>6, <2>9, ReturnKept
    <3> QED BY <2>5, <3>1, FollowsOn DEF y
  <2> QED BY <2>7, <2>8, <2>9
<1> QED BY <1>2, <1>3

LEMMA NotifyPttReleasedKept ==
    ASSUME NEW h \in HookAnswers, NEW x, Clear(x), NEW sid
    PROVE  LET y == NotifyPttReleased(x, h, sid)
           IN  Clear(y) /\ Follows(x, y)
<1> DEFINE d == Do(x, Event("PttReleased"))
           l == ReleaseLease(d)
           b == IF d.co.startAttempted THEN d ELSE l
           y == NotifyPttReleased(x, h, sid)
<1>1. Quieted(x) /\ Kept(x) /\ x \in Runs
  BY KeptMeans DEF Clear, Quieted
<1>2. CASE ~Matches(x, sid) \/ x.tx.state # "ReleasingPtt"
  <2>1. y = Return(x, FALSE)
    BY <1>2 DEF NotifyPttReleased
  <2> QED BY <1>1, <2>1, ReturnKept
<1>3. CASE Matches(x, sid) /\ x.tx.state = "ReleasingPtt"
  <2>1. LetGo(x)
    BY <1>3 DEF Clear, Sending
  <2>2. Follows(x, d) /\ d.ok /\ Clear(d) /\ Kept(d)
    BY <1>1, <1>3, <2>1, CloseKept
  <2>3. y = Publish(b)
    BY <1>3, <2>2 DEF NotifyPttReleased, Released
  <2> HIDE DEF d, y
  <2>4. ~d.co.startAttempted => Clear(l) /\ Follows(d, l) /\ l \in Runs
    <3>1. ~d.co.startAttempted => ~Pulled(d)
      BY <2>2 DEF Kept, Effects
    <3> QED BY <2>2, <3>1, LetLeaseGo
  <2>5. Follows(d, d) /\ d \in Runs
    BY <2>2, KeptMeans DEF Follows
  <2> HIDE DEF l
  <2>6. Clear(b) /\ Follows(d, b) /\ b \in Runs
    BY <2>2, <2>4, <2>5
  <2> HIDE DEF b
  <2>7. Clear(y) /\ Follows(b, y)
    BY <2>3, <2>6, PublishKept
  <2>8. Follows(x, y)
    BY <2>2, <2>6, <2>7, FollowsOn
  <2> QED BY <2>7, <2>8 DEF y
<1> QED BY <1>2, <1>3

LEMMA NotifyAudioErrorKept ==
    ASSUME NEW h \in HookAnswers, NEW x, Clear(x), NEW sid
    PROVE  LET y == NotifyAudioError(x, h, sid)
           IN  Clear(y) /\ Follows(x, y)
<1> DEFINE y == NotifyAudioError(x, h, sid)
<1>1. Kept(x) /\ x \in Runs
  BY KeptMeans DEF Clear, Quieted
<1>2. y \in {Return(x, FALSE), Fail(x, h)}
  BY DEF NotifyAudioError
<1>3. CASE y = Return(x, FALSE)
  BY <1>1, <1>3, ReturnKept
<1>4. CASE y = Fail(x, h)
  BY <1>1, <1>4, FailKept
<1> QED BY <1>2, <1>3, <1>4

LEMMA CancelKept ==
    ASSUME NEW h \in HookAnswers, NEW x, Clear(x)
    PROVE  LET y == Cancel(x, h)
           IN  Clear(y) /\ Follows(x, y)
<1> DEFINE e == Do(x, Event("Cancel"))
           d == DetachAudio(e, h)
           a == AfterEnd(d, h)
           y == Cancel(x, h)
<1>1. Kept(x) /\ x \in Runs
  BY KeptMeans DEF Clear, Quieted
<1>2. CASE ~Active(x.tx)
  <2>1. y = Return(x, FALSE)
    BY <1>2 DEF Cancel
  <2> QED BY <1>1, <2>1, ReturnKept
<1>3. CASE Active(x.tx)
  <2>1. Kept(e) /\ Follows(x, e) /\ e.ok
    BY <1>1, <1>3, EndKept
  <2>2. y = Return(a, TRUE)
    BY <1>3, <2>1 DEF Cancel, Ended
  <2> HIDE DEF e, y
  <2>3. Quieted(d) /\ Follows(e, d) /\ ~d.co.device
    BY <2>1, DetachKept
  <2> HIDE DEF d
  <2>4. Clear(a) /\ Follows(d, a) /\ a \in Runs
    BY <2>3, AfterEndKept
  <2> HIDE DEF a
  <2>5. Clear(y) /\ Follows(a, y)
    BY <2>2, <2>4, ReturnKept
  <2>6. Follows(e, y)
    BY <2>3, <2>4, <2>5, FollowsOn
  <2>7. Follows(x, y)
    BY <2>1, <2>6, FollowsOn
  <2> QED BY <2>5, <2>7 DEF y
<1> QED BY <1>2, <1>3

LEMMA CloseIsKept ==
    ASSUME NEW h \in HookAnswers, NEW x, Quieted(x), ~x.co.device
    PROVE  LET y == Close(x, h)
           IN  Clear(y) /\ Follows(x, y) /\ y \in Runs
<1> DEFINE r == RequestPttRelease(x, h)
           l == ReleaseLease(x)
           b == IF x.tx.state = "ReleasingPtt" THEN r
                ELSE IF x.tx.state = "Disabled" /\ ~x.co.detachPending THEN l
                ELSE x
           y == Publish(b)
<1>1. Kept(x) /\ x \in Runs /\ ~Pulled(x)
  BY KeptMeans DEF Quieted, Kept, Effects
<1>2. x.tx.state # "ReleasingPtt" => Clear(x)
  BY <1>1 DEF Kept, Owing, Clear
<1>3. Clear(r) /\ Follows(x, r) /\ r \in Runs
  BY RequestPttReleaseKept
<1>4. Clear(x) => Clear(l) /\ Follows(x, l) /\ l \in Runs
  BY <1>1, LetLeaseGo
<1>5. Follows(x, x)
  BY DEF Follows
<1>6. Close(x, h) = y
  BY DEF Close
<1> HIDE DEF r, l
<1>7. Clear(b) /\ Follows(x, b) /\ b \in Runs
  BY <1>1, <1>2, <1>3, <1>4, <1>5
<1> HIDE DEF b
<1>8. Clear(y) /\ Follows(b, y) /\ y \in Runs
  BY <1>7, PublishKept
<1> HIDE DEF y
<1> QED BY <1>6, <1>7, <1>8, FollowsOn

LEMMA ShutdownKept ==
    ASSUME NEW h \in HookAnswers, NEW x, Clear(x)
    PROVE  LET y == Shutdown(x, h)
           IN  Clear(y) /\ ~Sending(y.tx)
<1> DEFINE ev == Event("Disable")
           e == IF x.tx.enabled THEN Do(x, ev) ELSE Return(x, TRUE)
           d == DetachAudio(e, h)
           z == Close(d, h)
           y == Shutdown(x, h)
<1>1. /\ Kept(x) /\ x \in Runs /\ Good(x.tx) /\ x.dt \in Nat /\ x.tx \in Machines
      /\ InvariantsHold(x.tx)
  BY KeptMeans DEF Clear, Quieted
<1>2. CASE x.tx.state = "Disabled"
  <2>1. y = Return(x, TRUE)
    BY <1>2 DEF Shutdown
  <2>2. ~Sending(x.tx)
    BY <1>2 DEF Sending, Active, PrePttStates, OnAirStates, AudioStates
  <2> QED BY <1>1, <2>1, <2>2, ReturnKept
<1>3. CASE x.tx.state # "Disabled"
  <2>1. Kept(e) /\ e.ok /\ ~Sending(e.tx)
    <3>1. CASE x.tx.enabled
      <4> DEFINE n == Dispatch(x.tx, x.dt, ev)
      <4>1. ev \in Events
        BY DEF Events, PlainEvents
      <4>2. Moves(x.tx, n.tx) /\ ~Sending(n.tx) /\ n.ok
        BY <1>1, <3>1, DisabledMoves, DisableMoves
      <4> HIDE DEF ev, n
      <4>3. LET q == Do(x, ev) IN Kept(q) /\ q.tx = n.tx /\ (q.ok <=> n.ok)
        BY <1>1, <4>1, <4>2, DoKept DEF n
      <4> QED BY <3>1, <4>2, <4>3
    <3>2. CASE ~x.tx.enabled
      <4>1. ~Sending(x.tx)
        BY <1>1, <3>2 DEF InvariantsHold, Sending, Active, PrePttStates,
           OnAirStates, AudioStates
      <4> DEFINE r == Return(x, TRUE)
      <4>2. r.ok /\ r.tx = x.tx /\ Clear(r)
        BY <1>1, ReturnKept
      <4> HIDE DEF r
      <4>3. e = r
        BY <3>2 DEF r
      <4> QED BY <4>1, <4>2, <4>3 DEF Clear, Quieted
    <3> QED BY <3>1, <3>2
  <2>2. y = Return(z, TRUE)
    BY <1>3, <2>1 DEF Shutdown, Disabled
  <2> HIDE DEF e, y
  <2>3. Quieted(d) /\ Follows(e, d) /\ ~d.co.device
    BY <2>1, DetachKept
  <2> HIDE DEF d
  <2>4. Clear(z) /\ Follows(d, z) /\ z \in Runs
    BY <2>3, CloseIsKept
  <2> HIDE DEF z
  <2>5. Clear(y) /\ Follows(z, y)
    BY <2>2, <2>4, ReturnKept
  <2>6. ~Sending(y.tx)
    BY <2>1, <2>3, <2>4, <2>5 DEF Follows
  <2> QED BY <2>5, <2>6 DEF y
<1> QED BY <1>2, <1>3

LEMMA PollPttKept ==
    ASSUME NEW h \in HookAnswers, NEW x, Clear(x)
    PROVE  LET y == PollPtt(x, h)
           IN  Quieted(y) /\ Follows(x, y)
<1> DEFINE c == IF x.tx.state = "WaitingForPtt" /\ (Vox \/ fb)
                THEN NotifyPttConfirmed(x, h, x.tx.session) ELSE x
           r == NotifyPttReleased(c, h, c.tx.session)
           y == PollPtt(x, h)
<1>1. y = IF c.tx.state = "ReleasingPtt" /\ ~fb THEN r ELSE c
  BY DEF PollPtt
<1>2. Quieted(x) /\ Follows(x, x)
  BY DEF Clear, Follows
<1>3. Quieted(c) /\ Follows(x, c) /\ (Clear(c) \/ Vox \/ fb)
  BY <1>2, NotifyPttConfirmedKept
<1>4. ~fb => Clear(c)
  BY <1>3 DEF Clear, LetGo
<1> HIDE DEF c
<1>5. ~fb => Clear(r) /\ Follows(c, r)
  BY <1>4, NotifyPttReleasedKept
<1> HIDE DEF r, y
<1>6. CASE ~fb /\ y = r
  <2>1. Quieted(y)
    BY <1>5, <1>6 DEF Clear
  <2>2. Follows(x, y)
    BY <1>3, <1>5, <1>6, FollowsOn
  <2> QED BY <2>1, <2>2 DEF y
<1>7. CASE y = c
  BY <1>3, <1>7 DEF y
<1> QED BY <1>1, <1>6, <1>7

LEMMA PassKept ==
    ASSUME NEW x, Clear(x), Fresh(x), NEW guard \in BOOLEAN,
           NEW type \in {"HeaderComplete", "ImageComplete", "FskIdComplete"},
           guard => x.tx.state = From[type]
    PROVE  LET y == IF guard THEN Do(x, Event(type)) ELSE x
           IN  Clear(y) /\ Fresh(y) /\ Follows(x, y)
<1> DEFINE ev == Event(type)
           d == Dispatch(x.tx, x.dt, ev)
           y == Do(x, ev)
<1>1. Kept(x) /\ Good(x.tx) /\ x.dt \in Nat
  BY KeptMeans DEF Clear, Quieted
<1>2. ev \in Progress /\ ev.type = type /\ ev \in Events
  <2>1. ev \in Progress /\ ev.type = type
    BY DEF Progress, From, Event
  <2> QED BY <2>1, ProgressTypes
<1>3. CASE guard
  <2>1. Awaits(x.tx, ev)
    BY <1>2, <1>3 DEF Awaits
  <2>2. /\ Progresses(x.tx, d.tx, ev) /\ (Sending(d.tx) => ~Expired(d.tx))
        /\ Sending(x.tx) => ~Expired(x.tx)
    <3>1. Sending(x.tx)
      BY <1>2, <1>3 DEF From, Sending, Active, OnAirStates, AudioStates
    <3> QED BY <1>1, <1>2, <2>1, <3>1, OnTime DEF Fresh
  <2>3. Moves(x.tx, d.tx) /\ Sending(d.tx)
    BY <1>1, <1>2, <2>2, PassMoves
  <2> HIDE DEF ev, d
  <2>4. Clear(y) /\ Follows(x, y) /\ y.dt = 0 /\ y.tx = d.tx
    BY <1>1, <1>2, <2>3, DoKept DEF d
  <2> HIDE DEF y
  <2>5. Fresh(y)
    BY <2>2, <2>4 DEF Fresh
  <2> QED BY <1>3, <2>4, <2>5 DEF y, ev
<1>4. CASE ~guard
  BY <1>4 DEF Follows
<1> QED BY <1>3, <1>4

LEMMA AdvancedKept ==
    ASSUME NEW x, Clear(x), Fresh(x), NEW frames \in 0..Total
    PROVE  LET y == Advanced(x, frames)
           IN  Clear(y) /\ Fresh(y) /\ Follows(x, y)
<1> DEFINE c == [x.co EXCEPT !.played = frames]
           z == [x EXCEPT !.co = c]
           start == Publish(Return(z, TRUE))
           reached(y, state, end) == y.ok /\ y.tx.state = state /\ frames >= end
           header == IF reached(start, "TransmittingHeader", HeaderEnd)
                     THEN Do(start, Event("HeaderComplete")) ELSE start
           image == IF reached(header, "TransmittingImage", ImageEnd)
                    THEN Do(header, Event("ImageComplete")) ELSE header
           last == IF reached(image, "TransmittingFskId", ProtocolEnd)
                   THEN Do(image, Event("FskIdComplete")) ELSE image
<1>1. x \in Runs /\ x.co \in Coordinators
  BY KeptMeans DEF Clear, Quieted
<1>2. c \in Coordinators /\ Sees(x.co, c)
  BY <1>1 DEF Coordinators, Sees
<1> HIDE DEF c
<1>3. /\ z \in Runs /\ z.tx = x.tx /\ z.co = c /\ z.dt = x.dt
      /\ z.calls = x.calls /\ z.over = x.over
  BY <1>1, <1>2 DEF Runs
<1>4. z = [x EXCEPT !.co.played = frames]
  BY DEF c
<1> HIDE DEF z
<1>5. Like(x, z)
  BY <1>2, <1>3 DEF Like
<1>6. Clear(z) /\ Fresh(z) /\ Follows(x, z) /\ z \in Runs
  BY <1>3, <1>5, LikeKept, LikeFollows, LikeFresh
<1>7. Clear(start) /\ Fresh(start) /\ Follows(x, start)
  <2> DEFINE r == Return(z, TRUE)
  <2>1. Clear(r) /\ Fresh(r) /\ Follows(z, r) /\ r \in Runs
    BY <1>6, ReturnKept
  <2> HIDE DEF r
  <2> DEFINE p == Publish(r)
  <2>2. Clear(p) /\ Fresh(p) /\ Follows(r, p)
    BY <2>1, PublishKept
  <2> HIDE DEF p
  <2>3. Follows(x, p)
    BY <1>6, <2>1, <2>2, FollowsOn
  <2> QED BY <2>2, <2>3 DEF p, r
<1>8. Advanced(x, frames) = last
  BY <1>4 DEF Advanced, Publish, Return
<1> HIDE DEF start
<1>9. ASSUME NEW y, Clear(y), Fresh(y), Follows(x, y), NEW state, NEW end,
             NEW type \in {"HeaderComplete", "ImageComplete", "FskIdComplete"},
             state = From[type]
      PROVE  LET w == IF reached(y, state, end) THEN Do(y, Event(type)) ELSE y
             IN  Clear(w) /\ Fresh(w) /\ Follows(x, w)
  <2> DEFINE guard == reached(y, state, end)
             w == IF guard THEN Do(y, Event(type)) ELSE y
  <2>1. guard \in BOOLEAN /\ (guard => y.tx.state = From[type])
    BY <1>9, KeptMeans DEF Clear, Quieted
  <2> HIDE DEF guard
  <2>2. Clear(w) /\ Fresh(w) /\ Follows(y, w)
    BY <1>9, <2>1, PassKept
  <2> HIDE DEF w
  <2>3. Follows(x, w)
    BY <1>9, <2>2, FollowsOn
  <2> QED BY <2>2, <2>3 DEF w, guard
<1> HIDE DEF reached
<1>10. Clear(header) /\ Fresh(header) /\ Follows(x, header)
  BY <1>7, <1>9 DEF From
<1> HIDE DEF header
<1>11. Clear(image) /\ Fresh(image) /\ Follows(x, image)
  BY <1>9, <1>10 DEF From
<1> HIDE DEF image
<1>12. Clear(last) /\ Fresh(last) /\ Follows(x, last)
  BY <1>9, <1>11 DEF From
<1> QED BY <1>8, <1>12

LEMMA PlayedKept ==
    ASSUME NEW h \in HookAnswers, NEW x, Clear(x), NEW complete \in BOOLEAN
    PROVE  LET y == Played(x, h, complete)
           IN  Clear(y) /\ Follows(x, y)
<1> DEFINE c == [x.co EXCEPT !.complete = TRUE]
           z == [x EXCEPT !.co = c]
           d == DetachAudio(z, h)
           y == Played(x, h, complete)
<1>1. Kept(x) /\ Quieted(x) /\ x \in Runs /\ x.co \in Coordinators
  BY KeptMeans DEF Clear, Quieted
<1>2. CASE y = x
  BY <1>2 DEF Follows
<1>3. CASE y = Fail(x, h)
  BY <1>1, <1>3, FailKept
<1>4. CASE x.tx.state = "TailDelay" /\ y = OrFail(d, h)
  <2>1. /\ c \in Coordinators /\ c.device = x.co.device /\ c.session = x.co.session
        /\ c.startAttempted = x.co.startAttempted
        /\ c.detachAttempted = x.co.detachAttempted
        /\ c.offAttempted = x.co.offAttempted
    BY <1>1 DEF Coordinators
  <2> HIDE DEF c, y
  <2>2. /\ z \in Runs /\ z.tx = x.tx /\ z.co = c /\ z.dt = x.dt
        /\ z.calls = x.calls /\ z.over = x.over
    BY <1>1, <2>1 DEF Runs
  <2> HIDE DEF z
  <2>3. Paired(x) /\ Effects(x) /\ Sending(x.tx)
    BY <1>1, <1>4 DEF Kept, Sending, Active, OnAirStates, AudioStates
  <2>4. Paired(z)
    BY <2>1, <2>2, <2>3 DEF Paired
  <2>5. Effects(z)
    BY <2>1, <2>2, <2>3 DEF Effects, OwnsAfter, Pulled
  <2>6. Kept(z)
    BY <2>2, <2>3, <2>4, <2>5 DEF Kept
  <2>7. Quieted(d) /\ Follows(z, d) /\ d.ok /\ d.tx = z.tx /\ d.dt = z.dt
    BY <2>6, DetachKept
  <2> HIDE DEF d
  <2>8. Clear(d) /\ Follows(x, d)
    BY <2>2, <2>3, <2>7 DEF Clear, Follows
  <2> QED BY <1>4, <2>7, <2>8 DEF OrFail, y
<1>5. z = [x EXCEPT !.co.complete = TRUE]
  OBVIOUS
<1> HIDE DEF z
<1>6. \/ y = x
      \/ y = Fail(x, h)
      \/ x.tx.state = "TailDelay" /\ y = OrFail(d, h)
  BY <1>5 DEF Played, OrFail
<1> QED BY <1>2, <1>3, <1>4, <1>6 DEF z

LEMMA NotifyPlaybackKept ==
    ASSUME NEW h \in HookAnswers, NEW x, Clear(x), Fresh(x), NEW sid, NEW p,
           p.frames \in 0..Total, p.complete \in BOOLEAN
    PROVE  LET y == NotifyPlayback(x, h, sid, p)
           IN  Clear(y) /\ Follows(x, y)
<1> DEFINE a == Advanced(x, p.frames)
           y == NotifyPlayback(x, h, sid, p)
<1>1. Kept(x) /\ x \in Runs
  BY KeptMeans DEF Clear, Quieted
<1>2. y \in {Return(x, FALSE), Fail(x, h), Played(a, h, p.complete)}
  BY DEF NotifyPlayback
<1>3. CASE y = Return(x, FALSE)
  BY <1>1, <1>3, ReturnKept
<1>4. CASE y = Fail(x, h)
  BY <1>1, <1>4, FailKept
<1>5. CASE y = Played(a, h, p.complete)
  <2>1. Clear(a) /\ Follows(x, a)
    BY AdvancedKept
  <2> HIDE DEF a, y
  <2>2. Clear(y) /\ Follows(a, y)
    BY <1>5, <2>1, PlayedKept
  <2> QED BY <2>1, <2>2, FollowsOn DEF y
<1> QED BY <1>2, <1>3, <1>4, <1>5

-----------------------------------------------------------------------------
(* A session begins.                                                       *)

\* It has its lease and its number, nothing has been attempted, and the
\* radio has not been asked for.
Opens(x) ==
    /\ x \in Runs /\ Good(x.tx) /\ x.dt = 0 /\ x.ok
    /\ x.tx.sessions <= MaxStarts /\ Sending(x.tx) /\ ~Expired(x.tx)
    /\ x.co.session = x.tx.session
    /\ x.co.device /\ ~x.co.startAttempted /\ ~x.co.detachAttempted
    /\ ~x.co.offAttempted /\ ~x.co.complete
    /\ ~Pulled(x)

LEMMA OpensOn ==
    ASSUME NEW x, Opens(x), NEW ev \in Progress,
           ev.type \in {"ImagePrepared", "EncodingComplete", "Request",
                        "PttRequestDispatched"},
           x.tx.state = From[ev.type]
    PROVE  LET y == Then(x, ev)
           IN  /\ Opens(y) /\ y.tx.state \in To[ev.type]
               /\ ev.type = "PttRequestDispatched" => y.tx.releaseRequired = ev.release
<1> DEFINE d == Dispatch(x.tx, x.dt, ev)
           y == Do(x, ev)
<1>1. /\ x \in Runs /\ Good(x.tx) /\ x.dt = 0 /\ x.ok /\ ~Expired(x.tx)
  BY DEF Opens
<1>2. Then(x, ev) = y /\ ev \in Events
  BY <1>1, ProgressTypes DEF Then
<1>3. Awaits(x.tx, ev)
  BY DEF Awaits
<1>4. d.ok /\ Progresses(x.tx, d.tx, ev) /\ (Sending(d.tx) => ~Expired(d.tx))
  BY <1>1, <1>3, OnTime
<1>5. /\ y \in Runs /\ Good(y.tx) /\ y.tx = d.tx /\ (y.ok <=> d.ok)
      /\ Sees(x.co, y.co) /\ y.calls = x.calls /\ y.dt = 0
  BY <1>1, <1>2, DoSees
<1> HIDE DEF d, y
<1>6. Sending(y.tx)
  BY <1>4, <1>5 DEF Progresses, To, Sending, Active, PrePttStates, OnAirStates
<1>7. /\ y.tx.session = x.tx.session /\ y.tx.sessions = x.tx.sessions
      /\ y.tx.state \in To[ev.type]
      /\ ev.type = "PttRequestDispatched" => y.tx.releaseRequired = ev.release
  BY <1>4, <1>5 DEF Progresses
<1>8. ~Pulled(y)
  BY <1>5 DEF Opens, Pulled
<1>9. y.ok /\ y.ok \in BOOLEAN
  BY <1>4, <1>5 DEF Runs
<1>10. Opens(y)
  BY <1>4, <1>5, <1>6, <1>7, <1>8, <1>9 DEF Opens, Sees
<1> QED BY <1>2, <1>7, <1>10

LEMMA NamedOpens ==
    ASSUME NEW t, Clear(t), t.dt = 0, t.tx.sessions < MaxStarts, t.tx.enabled,
           ~Active(t.tx), ~t.co.device, NEW release \in BOOLEAN
    PROVE  LET d == Do(NewSession(t, release), PrepareEvent(TRUE))
               n == [d EXCEPT !.co.session = d.tx.session]
           IN  d.ok /\ Opens(n) /\ n.tx.state = "PreparingImage"
<1> DEFINE c == [NewCoordinator EXCEPT !.device = TRUE, !.needsRelease = release]
           z == [t EXCEPT !.co = c]
           ev == PrepareEvent(TRUE)
           d == Do(z, ev)
           e == [d.co EXCEPT !.session = d.tx.session]
           n == [d EXCEPT !.co = e]
<1>1. t \in Runs /\ Good(t.tx) /\ t.tx \in Machines /\ ~Pulled(t)
  BY KeptMeans DEF Clear, Quieted, Kept, Effects
<1>2. /\ c \in Coordinators /\ c.device /\ ~c.detachAttempted /\ ~c.startAttempted
      /\ ~c.offAttempted /\ ~c.complete
  <2>1. 0 \in 0..Total /\ 0 \in 0..MaxAge
    BY CoordinatorAssumption, MachineAssumption DEF CoordinatorAssumption, MachineAssumption
  <2> QED BY <2>1 DEF NewCoordinator, Coordinators
<1> HIDE DEF c
<1>3. z \in Runs /\ z.tx = t.tx /\ z.dt = 0 /\ z.calls = t.calls /\ z.co = c
  BY <1>1, <1>2 DEF Runs
<1>4. NewSession(t, release) = z
  BY DEF NewSession, c
<1> HIDE DEF z
<1>5. ev \in Events
  <2>1. ev \in {PrepareEvent(valid) : valid \in BOOLEAN}
    OBVIOUS
  <2> HIDE DEF ev
  <2> QED BY <2>1 DEF Events
<1>6. /\ d \in Runs /\ Good(d.tx) /\ d.tx = Dispatch(t.tx, 0, ev).tx
      /\ (d.ok <=> Dispatch(t.tx, 0, ev).ok) /\ Sees(c, d.co)
      /\ d.calls = t.calls /\ d.dt = 0
  <2>1. z.dt \in Nat /\ Good(z.tx)
    BY <1>1, <1>3
  <2> HIDE DEF ev
  <2>2. /\ d \in Runs /\ Good(d.tx) /\ d.tx = Dispatch(z.tx, z.dt, ev).tx
        /\ (d.ok <=> Dispatch(z.tx, z.dt, ev).ok) /\ Sees(z.co, d.co)
        /\ d.calls = z.calls /\ d.dt = 0
    BY <1>3, <1>5, <2>1, DoSees
  <2> QED BY <1>3, <2>2
<1>7. /\ d.ok /\ d.tx.state = "PreparingImage" /\ d.tx.age = 0
      /\ d.tx.session = t.tx.sessions + 1 /\ d.tx.sessions = t.tx.sessions + 1
  <2> DEFINE g == Dispatch(t.tx, 0, ev)
             m == t.tx
  <2>1. Good(m) /\ m.enabled /\ ~Active(m) /\ 0 \in Nat
    BY <1>1
  <2> HIDE DEF m
  <2>2. /\ g.ok /\ g.tx.state = "PreparingImage" /\ g.tx.age = 0
        /\ g.tx.session = m.sessions + 1 /\ g.tx.sessions = m.sessions + 1
    BY <2>1, PrepareMoves, Zenon DEF m
  <2>3. d.tx = g.tx /\ (d.ok <=> g.ok)
    BY <1>6
  <2> HIDE DEF g, d
  <2> QED BY <2>2, <2>3 DEF m
<1> HIDE DEF d
<1>8. d.tx \in Machines /\ d.co \in Coordinators /\ d.tx.session \in Nat
  BY <1>6 DEF Runs, Machines
<1>9. /\ e \in Coordinators /\ e.device /\ ~e.detachAttempted /\ ~e.startAttempted
      /\ ~e.offAttempted /\ ~e.complete /\ e.session = d.tx.session
  BY <1>2, <1>6, <1>8 DEF Coordinators, Sees
<1> HIDE DEF e
<1>10. n \in Runs /\ n.tx = d.tx /\ n.co = e /\ n.calls = t.calls /\ n.dt = 0 /\ n.ok
  BY <1>6, <1>7, <1>9 DEF Runs
<1>11. n = [d EXCEPT !.co.session = d.tx.session]
  BY <1>6 DEF e, Runs
<1> HIDE DEF n
<1>12. Sending(n.tx) /\ ~Expired(n.tx)
  <2>1. Sending(n.tx)
    BY <1>7, <1>10 DEF Sending, Active, PrePttStates
  <2> QED BY <1>7, <1>10, <2>1, MachineAssumption DEF MachineAssumption, Expired
<1>13. n.tx.sessions <= MaxStarts
  BY <1>1, <1>7, <1>10, BridgeAssumption DEF BridgeAssumption, Machines
<1>14. ~Pulled(n)
  BY <1>1, <1>10 DEF Pulled
<1>15. Opens(n)
  BY <1>6, <1>9, <1>10, <1>12, <1>13, <1>14 DEF Opens
<1> QED BY <1>4, <1>7, <1>10, <1>11, <1>15 DEF d

LEMMA RequestOnKept ==
    ASSUME NEW h \in HookAnswers, NEW x, Opens(x), x.tx.state = "WaitingForPtt",
           ~Vox => x.tx.releaseRequired
    PROVE  Clear(RequestOn(x, h))
<1> DEFINE c == Calling(x, "on")
           p == Publish(c)
           r == Return(p, TRUE)
<1>1. x \in Runs /\ Good(x.tx) /\ x.ok /\ h.on
  BY DEF Opens, HookAnswers
<1>2. RequestOn(x, h) = r
  BY <1>1 DEF RequestOn
<1>3. /\ c \in Runs /\ c.tx = x.tx /\ c.co = x.co /\ c.dt = x.dt
      /\ c.calls = x.calls \cup {"on"}
  BY <1>1, CallingIs DEF Hooks
<1> HIDE DEF c
<1>4. x.tx \in Machines /\ x.tx.session > 0 /\ x.tx.session <= x.tx.sessions
  BY <1>1, GoodMeans DEF Opens, Sending, Machines
<1>5. Paired(c)
  BY <1>3, <1>4 DEF Paired, Opens
<1>6. Effects(c)
  BY <1>3, <1>4 DEF Effects, Opens, OwnsAfter, Pulled
<1>7. Clear(c)
  BY <1>3, <1>5, <1>6 DEF Opens, Kept, Quieted, Clear
<1>8. Clear(p) /\ p \in Runs
  BY <1>3, <1>7, PublishKept
<1> HIDE DEF p
<1>9. Clear(r)
  BY <1>8, ReturnKept
<1> QED BY <1>2, <1>9

LEMMA StartKept ==
    ASSUME NEW h \in HookAnswers, NEW x, Clear(x), x.tx.sessions < MaxStarts,
           NEW built \in BOOLEAN, NEW fskId \in BOOLEAN
    PROVE  LET pf == [ok |-> built, release |-> ~Vox, fskId |-> fskId]
           IN  Clear(Start(x, h, pf))
<1> DEFINE pf == [ok |-> built, release |-> ~Vox, fskId |-> fskId]
           t == Tick(x, h)
           y == Start(x, h, pf)
<1>1. Clear(t) /\ Follows(x, t) /\ Fresh(t) /\ t \in Runs
  <2>1. Clear(t) /\ Follows(x, t) /\ Fresh(t)
    BY TickKept DEF Clear
  <2> HIDE DEF t
  <2> QED BY <2>1, KeptMeans DEF Clear, Quieted
<1>2. y = StartTicked(t, h, pf)
  BY DEF Start
<1> HIDE DEF t, y
<1>3. CASE Refuses(t, pf)
  <2>1. y = Return(t, FALSE)
    BY <1>2, <1>3 DEF StartTicked
  <2> QED BY <1>1, <2>1, ReturnKept DEF y
<1>4. CASE ~Refuses(t, pf)
  <2> DEFINE d == Do(NewSession(t, pf.release), PrepareEvent(TRUE))
             n == [d EXCEPT !.co.session = d.tx.session]
             prepared == Event("ImagePrepared")
             encoded == EncodingCompleteEvent(TRUE, pf.fskId)
             request == Event("Request")
             dispatched == PttRequestDispatchedEvent(pf.release)
             e == Then(n, prepared)
             f == Then(e, encoded)
             g == Then(f, request)
             q == Then(g, dispatched)
  <2>1. pf.release = ~Vox /\ pf.fskId = fskId /\ Vox \in BOOLEAN
    BY BridgeAssumption DEF BridgeAssumption
  <2>2. d.ok /\ Opens(n) /\ n.tx.state = "PreparingImage"
    <3>1. t.tx.enabled /\ ~Active(t.tx) /\ ~t.co.device
      BY <1>4 DEF Refuses
    <3>2. t.dt = 0 /\ t.tx.sessions < MaxStarts
      BY <1>1 DEF Fresh, Follows
    <3> HIDE DEF pf
    <3> QED BY <1>1, <2>1, <3>1, <3>2, NamedOpens
  <2>3. y = RequestOn(q, h)
    <3>1. y = Begin(d, h, pf)
      BY <1>2, <1>4 DEF StartTicked
    <3> HIDE DEF d, pf
    <3> QED BY <2>2, <3>1 DEF Begin, Requested
  <2> HIDE DEF d, n, pf
  <2>4. {prepared, encoded, request, dispatched} \subseteq Progress
    BY <2>1 DEF Progress, From
  <2>5. /\ prepared.type = "ImagePrepared" /\ encoded.type = "EncodingComplete"
        /\ request.type = "Request" /\ dispatched.type = "PttRequestDispatched"
        /\ dispatched.release = ~Vox
    BY <2>1 DEF Event, EncodingCompleteEvent, PttRequestDispatchedEvent
  <2> HIDE DEF prepared, encoded, request, dispatched
  <2>6. Opens(e) /\ e.tx.state = "Encoding"
    BY <2>2, <2>4, <2>5, OpensOn DEF From, To
  <2> HIDE DEF e
  <2>7. Opens(f) /\ f.tx.state = "Ready"
    BY <2>4, <2>5, <2>6, OpensOn DEF From, To
  <2> HIDE DEF f
  <2>8. Opens(g) /\ g.tx.state = "RequestingPtt"
    BY <2>4, <2>5, <2>7, OpensOn DEF From, To
  <2> HIDE DEF g
  <2>9. Opens(q) /\ q.tx.state = "WaitingForPtt" /\ (~Vox => q.tx.releaseRequired)
    <3>1. /\ Opens(q) /\ q.tx.state = "WaitingForPtt"
          /\ q.tx.releaseRequired = dispatched.release
      BY <2>4, <2>5, <2>8, OpensOn DEF From, To
    <3> HIDE DEF q
    <3>2. ~Vox => dispatched.release
      BY <2>5
    <3> QED BY <3>1, <3>2
  <2> HIDE DEF q
  <2> QED BY <2>3, <2>9, RequestOnKept DEF y, pf
<1> QED BY <1>3, <1>4 DEF y

-----------------------------------------------------------------------------
(* What is true of the bridge between two steps.                           *)

\* The machine and the coordinator when no method is running
Rested(m, c) ==
    /\ Good(m) /\ c \in Coordinators
    /\ m.sessions <= MaxStarts /\ c.session <= m.sessions
    /\ Active(m) => c.session = m.session
    /\ c.device => ~c.detachAttempted /\ c.session > 0
    /\ m.state = "WaitingForPtt" => ~c.startAttempted
    /\ Sending(m) => ~c.offAttempted
    /\ ~Vox /\ Active(m) => m.releaseRequired
    /\ ~Vox /\ c.device /\ c.startAttempted => Sending(m)
    /\ c.complete => ~c.device

\* With VOX nobody keys the radio, and nobody else posts a confirmation.
VoxHasNoPtt ==
    /\ Vox => ~keyed /\ \A i \in DOMAIN cat : ~cat[i]
    /\ Vox \/ \A callback \in posted : callback[1] # "confirmed"

BridgeIInv ==
    /\ BridgeTypeOK /\ Rested(machine, coordinator)
    /\ Active(machine) \/ coordinator.device => owns
    /\ playing # Silence => /\ coordinator.device /\ coordinator.startAttempted
                            /\ playing.session = coordinator.session
    /\ Sending(machine) \/ Vox \/ LastIsOff
    /\ VoxHasNoPtt

LEMMA RunClear ==
    ASSUME BridgeIInv, NEW dt \in Nat
    PROVE  LET x == Run(machine, coordinator, dt)
           IN  /\ Clear(x) /\ x.tx = machine /\ x.co = coordinator /\ x.dt = dt
               /\ x.calls = {} /\ ~x.over
<1> DEFINE x == Run(machine, coordinator, dt)
<1>1. machine \in Machines /\ Good(machine) /\ coordinator \in Coordinators
  BY GoodMeans DEF BridgeIInv, Rested
<1>2. /\ x \in Runs /\ x.tx = machine /\ x.co = coordinator /\ x.dt = dt
      /\ x.calls = {} /\ ~x.over
  BY <1>1 DEF Run, Runs, Hooks
<1> HIDE DEF x
<1>3. Paired(x)
  BY <1>1, <1>2 DEF BridgeIInv, Rested, Paired
<1>4. Effects(x)
  BY <1>1, <1>2 DEF BridgeIInv, Rested, Effects, OwnsAfter, Pulled
<1>5. Sending(x.tx) \/ LetGo(x)
  BY <1>2 DEF BridgeIInv, LetGo
<1>6. Clear(x)
  BY <1>2, <1>3, <1>4, <1>5 DEF BridgeIInv, Rested, Kept, Quieted, Clear
<1> QED BY <1>2, <1>6 DEF x

LEMMA Queued ==
    ASSUME NEW s \in Seq(BOOLEAN), NEW on \in BOOLEAN
    PROVE  LET t == s \o <<on>>
           IN  /\ t \in Seq(BOOLEAN) /\ t # <<>> /\ t[Len(t)] = on
               /\ \A i \in DOMAIN t : t[i] = on \/ (i \in DOMAIN s /\ t[i] = s[i])
<1> DEFINE t == s \o <<on>>
<1>1. <<on>> \in Seq(BOOLEAN) /\ Len(<<on>>) = 1 /\ <<on>>[1] = on
  OBVIOUS
<1>2. /\ t \in Seq(BOOLEAN) /\ Len(t) = Len(s) + 1
      /\ \A i \in 1..Len(s) + 1 : t[i] = IF i <= Len(s) THEN s[i] ELSE <<on>>[i - Len(s)]
  BY <1>1, ConcatProperties
<1>3. Len(s) \in Nat /\ DOMAIN s = 1..Len(s) /\ DOMAIN t = 1..Len(t)
  BY <1>2, LenProperties
<1> HIDE DEF t
<1>4. t[Len(t)] = on /\ t # <<>>
  BY <1>1, <1>2, <1>3
<1>5. ASSUME NEW i \in DOMAIN t
      PROVE  t[i] = on \/ (i \in DOMAIN s /\ t[i] = s[i])
  <2>1. i \in 1..Len(s) + 1
    BY <1>2, <1>3
  <2>2. CASE i <= Len(s)
    BY <1>2, <1>3, <2>1, <2>2
  <2>3. CASE i = Len(s) + 1
    BY <1>2, <1>3, <1>4, <2>3
  <2> QED BY <1>3, <2>1, <2>2, <2>3
<1> QED BY <1>2, <1>4, <1>5 DEF t

LEMMA Unqueued ==
    ASSUME NEW s \in Seq(BOOLEAN) PROVE s \o <<>> = s
  BY ConcatEmptySeq

\* An OFF at the end of the queue is the last word, whatever is before it.
LEMMA OffIsLast ==
    ASSUME NEW s \in Seq(BOOLEAN)
    PROVE  LET t == s \o <<FALSE>> IN t # <<>> /\ ~t[Len(t)]
<1>1. FALSE \in BOOLEAN
  OBVIOUS
<1> QED BY <1>1, Queued

LEMMA SettleKept ==
    ASSUME BridgeIInv, NEW y, Clear(y), NEW handled, Settle(y, handled),
           UNCHANGED Radio, down' \in BOOLEAN
    PROVE  BridgeIInv'
<1> DEFINE ons == IF "on" \in y.calls /\ ~Vox THEN <<TRUE>> ELSE <<>>
           offs == IF "off" \in y.calls THEN <<FALSE>> ELSE <<>>
           asked == cat \o ons
<1>1. /\ machine' = y.tx /\ coordinator' = y.co
      /\ owns' = IF "on" \in y.calls THEN TRUE ELSE owns /\ ~y.over
      /\ playing' = IF "detach" \in y.calls THEN Silence
                    ELSE IF "start" \in y.calls
                    THEN [session |-> y.co.session, heard |-> 0]
                    ELSE playing
      /\ posted' =
           (posted \ handled)
           \cup (IF "on" \in y.calls /\ Vox
                 THEN {<<"confirmed", y.co.session>>} ELSE {})
           \cup (IF "off" \in y.calls /\ ~fb
                 THEN {<<"released", y.co.session>>} ELSE {})
      /\ cat' = asked \o offs
  BY DEF Settle
<1>2. keyed' = keyed /\ report' = report /\ fb' = fb
  BY DEF Radio
<1>3. /\ BridgeTypeOK /\ VoxHasNoPtt
      /\ Sending(machine) \/ Vox \/ LastIsOff
  BY DEF BridgeIInv
<1>4. /\ Quieted(y) /\ Kept(y) /\ Paired(y) /\ Effects(y)
      /\ Sending(y.tx) \/ LetGo(y)
  BY DEF Clear, Quieted, Kept
<1>5. /\ y.tx \in Machines /\ y.co \in Coordinators /\ Good(y.tx)
      /\ y.calls \in SUBSET Hooks /\ y.over \in BOOLEAN
  BY <1>4, KeptMeans DEF Paired, Runs
<1>6. Rested(y.tx, y.co)
  BY <1>4, <1>5 DEF Quieted, Paired, Effects, Rested
<1>7. Rested(machine', coordinator')
  BY <1>1, <1>6
<1>8. owns' = OwnsAfter(y)
  BY <1>1, <1>3 DEF OwnsAfter, BridgeTypeOK
<1>9. Active(machine') \/ coordinator'.device => owns'
  BY <1>1, <1>4, <1>8 DEF Effects
<1>10. playing' # Silence => /\ coordinator'.device /\ coordinator'.startAttempted
                             /\ playing'.session = coordinator'.session
  BY <1>1, <1>4 DEF Effects, Pulled
<1>11. y.co.session \in 0..MaxStarts
  BY <1>4, <1>5, BridgeAssumption DEF Paired, BridgeAssumption, Machines, Coordinators
<1>12. "on" \in y.calls \/ "off" \in y.calls => y.co.session \in 1..MaxStarts
  BY <1>4, <1>11 DEF Effects
<1>13. asked \in Seq(BOOLEAN) /\ cat' \in Seq(BOOLEAN)
  <2>1. cat \in Seq(BOOLEAN) /\ ons \in Seq(BOOLEAN) /\ offs \in Seq(BOOLEAN)
    <3>1. cat \in Seq(BOOLEAN)
      BY <1>3 DEF BridgeTypeOK
    <3>2. /\ <<TRUE>> \in Seq(BOOLEAN) /\ <<FALSE>> \in Seq(BOOLEAN)
          /\ <<>> \in Seq(BOOLEAN)
      OBVIOUS
    <3>3. ons \in {<<TRUE>>, <<>>} /\ offs \in {<<FALSE>>, <<>>}
      OBVIOUS
    <3> HIDE DEF ons, offs
    <3> QED BY <3>1, <3>2, <3>3
  <2> HIDE DEF ons, offs
  <2>2. asked \in Seq(BOOLEAN)
    BY <2>1, ConcatProperties
  <2> HIDE DEF asked
  <2> QED BY <1>1, <2>1, <2>2, ConcatProperties
<1>14. BridgeTypeOK'
  <2>1. posted' \subseteq ({"confirmed", "released", "error"} \X (1..MaxStarts))
    BY <1>1, <1>3, <1>12 DEF BridgeTypeOK
  <2>2. playing' \in [session : 0..MaxStarts, heard : 0..Total]
    <3>1. 0 \in 0..MaxStarts /\ 0 \in 0..Total
      BY BridgeAssumption, CoordinatorAssumption DEF BridgeAssumption, CoordinatorAssumption
    <3> QED BY <1>1, <1>3, <1>11, <3>1 DEF BridgeTypeOK, Silence
  <2>3. owns' \in BOOLEAN
    BY <1>1, <1>3 DEF BridgeTypeOK
  <2> QED BY <1>1, <1>2, <1>3, <1>5, <1>13, <2>1, <2>2, <2>3 DEF BridgeTypeOK
<1>15. VoxHasNoPtt'
  <2>1. ASSUME Vox
        PROVE  ~keyed' /\ \A i \in DOMAIN cat' : ~cat'[i]
    <3>1. cat \in Seq(BOOLEAN) /\ ~keyed /\ \A i \in DOMAIN cat : ~cat[i]
      BY <1>3, <2>1 DEF VoxHasNoPtt, BridgeTypeOK
    <3>2. asked = cat
      BY <2>1, <3>1, Unqueued
    <3>3. cat' = cat \/ cat' = cat \o <<FALSE>>
      BY <1>1, <3>1, <3>2, Unqueued
    <3>4. \A i \in DOMAIN cat' : ~cat'[i]
      BY <3>1, <3>3, Queued
    <3> QED BY <1>2, <3>1, <3>4
  <2>2. ASSUME ~Vox
        PROVE  \A callback \in posted' : callback[1] # "confirmed"
    BY <1>1, <1>3, <2>2 DEF VoxHasNoPtt
  <2> QED BY <2>1, <2>2 DEF VoxHasNoPtt
<1>16. Sending(machine') \/ Vox \/ LastIsOff'
  <2>1. CASE "off" \in y.calls
    <3>1. cat' = asked \o <<FALSE>>
      BY <1>1, <2>1
    <3>2. cat' # <<>> /\ ~cat'[Len(cat')]
      BY <1>13, <3>1, OffIsLast
    <3> QED BY <3>2 DEF LastIsOff
  <2>2. CASE "off" \notin y.calls /\ "on" \notin y.calls /\ LastIsOff
    <3>1. cat' = cat
      BY <1>1, <1>3, <2>2, Unqueued DEF BridgeTypeOK
    <3> QED BY <1>2, <2>2, <3>1 DEF LastIsOff
  <2> QED BY <1>1, <1>4, <2>1, <2>2 DEF LetGo
<1> QED BY <1>7, <1>9, <1>10, <1>14, <1>15, <1>16 DEF BridgeIInv

\* initialiseSstvTx enables the machine.
LEMMA NewMachineGood ==
    LET m == [NewMachine EXCEPT !.enabled = TRUE, !.state = "Idle"]
    IN  /\ Good(NewMachine) /\ NewMachine \in Machines
        /\ Good(m) /\ m \in Machines
        /\ m.state = "Idle" /\ m.sessions = 0 /\ ~m.releaseRequired
<1> DEFINE n == NewMachine
           m == [n EXCEPT !.enabled = TRUE, !.state = "Idle"]
<1>1. Good(n) /\ n \in Machines
  <2>1. Good(n)
    BY MachineAssumption, SessionAssumption, SameSets, Lifecycle!InitGood DEF Good
  <2> QED BY <2>1, GoodMeans
<1>2. /\ ~n.confirmed /\ ~n.requested /\ ~n.audioStarted /\ ~n.releaseRequired
      /\ n.deferred = "None" /\ n.session = 0 /\ n.sessions = 0
  BY DEF NewMachine
<1> HIDE DEF n
<1>3. /\ m \in Machines /\ m.state = "Idle" /\ m.enabled
      /\ m.confirmed = n.confirmed /\ m.requested = n.requested
      /\ m.audioStarted = n.audioStarted /\ m.releaseRequired = n.releaseRequired
      /\ m.deferred = n.deferred /\ m.session = n.session /\ m.sessions = n.sessions
  BY <1>1 DEF Machines, States
<1> HIDE DEF m
<1>4. Good(m)
  BY <1>2, <1>3, GoodMeans DEF InvariantsHold, Active, PrePttStates,
     OnAirStates, AudioStates, Terminals
<1> QED BY <1>1, <1>2, <1>3, <1>4 DEF m, n

LEMMA BridgeInitIInv == BridgeInit => BridgeIInv
<1> SUFFICES ASSUME BridgeInit PROVE BridgeIInv
  OBVIOUS
<1> DEFINE m == [NewMachine EXCEPT !.enabled = TRUE, !.state = "Idle"]
<1>1. machine = m
  BY DEF BridgeInit
<1>2. m \in Machines /\ m.state = "Idle" /\ m.sessions = 0 /\ ~m.releaseRequired
  BY NewMachineGood
<1>3. Good(m)
  BY NewMachineGood
<1>4. NewCoordinator \in Coordinators
  BY MachineAssumption, CoordinatorAssumption
     DEF MachineAssumption, CoordinatorAssumption, NewCoordinator, Coordinators
<1>5. /\ coordinator = NewCoordinator /\ ~coordinator.device /\ coordinator.session = 0
      /\ ~coordinator.startAttempted /\ ~coordinator.complete
      /\ owns = FALSE /\ posted = {} /\ playing = Silence /\ cat = <<>>
      /\ keyed = FALSE /\ report = {} /\ fb = FALSE /\ down = FALSE
  BY DEF BridgeInit, NewCoordinator
<1> HIDE DEF m
<1>6. ~Active(m) /\ ~Sending(m) /\ m.state # "WaitingForPtt"
  BY <1>2 DEF Active, Sending, PrePttStates, OnAirStates, AudioStates
<1>7. BridgeTypeOK
  <2>1. playing \in [session : 0..MaxStarts, heard : 0..Total]
    BY <1>5, BridgeAssumption, CoordinatorAssumption
       DEF BridgeAssumption, CoordinatorAssumption, Silence
  <2>2. cat \in Seq(BOOLEAN)
    BY <1>5, EmptySeq
  <2>3. machine \in Machines /\ coordinator \in Coordinators
    BY <1>1, <1>2, <1>4, <1>5
  <2> QED BY <1>5, <2>1, <2>2, <2>3 DEF BridgeTypeOK
<1>8. Rested(machine, coordinator)
  BY <1>1, <1>2, <1>3, <1>4, <1>5, <1>6, BridgeAssumption DEF BridgeAssumption, Rested
<1>9. LastIsOff /\ VoxHasNoPtt
  BY <1>5 DEF LastIsOff, VoxHasNoPtt
<1> QED BY <1>1, <1>5, <1>6, <1>7, <1>8, <1>9 DEF BridgeIInv

\* The machine and the coordinator are gone: what is left is the queue.
LEMMA ShutdownSstvTxKept ==
    ASSUME BridgeIInv, NEW h \in HookAnswers, ShutdownSstvTx(h)
    PROVE  BridgeIInv'
<1> DEFINE x == Run(machine, coordinator, 0)
           closed == Shutdown(x, h)
           heard == IF closed.tx.state = "ReleasingPtt" /\ ~fb
                    THEN NotifyPttReleased(closed, h, closed.tx.session)
                    ELSE closed
           gone == Shutdown(heard, h)
           offs == IF "off" \in gone.calls THEN <<FALSE>> ELSE <<>>
           extra == IF owns /\ ~heard.over /\ ~Vox THEN <<FALSE>> ELSE <<>>
           asked == cat \o offs
<1>1. /\ down' = TRUE /\ machine' = NewMachine /\ coordinator' = NewCoordinator
      /\ owns' = FALSE /\ playing' = Silence /\ posted' = {}
      /\ keyed' = keyed /\ report' = report /\ fb' = fb
      /\ cat' = asked \o extra
  BY DEF ShutdownSstvTx, Radio
<1>2. BridgeTypeOK /\ VoxHasNoPtt
  BY DEF BridgeIInv
<1>3. Clear(gone) /\ ~Sending(gone.tx)
  <2>1. 0 \in Nat
    OBVIOUS
  <2>2. Clear(x)
    BY <2>1, RunClear
  <2> HIDE DEF x
  <2>3. Clear(closed)
    BY <2>2, ShutdownKept
  <2> HIDE DEF closed
  <2>4. Clear(heard)
    BY <2>3, NotifyPttReleasedKept
  <2> HIDE DEF heard
  <2> QED BY <2>4, ShutdownKept
<1>4. LetGo(gone)
  BY <1>3 DEF Clear
<1> HIDE DEF gone, heard, closed, x
<1>5. cat \in Seq(BOOLEAN) /\ <<FALSE>> \in Seq(BOOLEAN) /\ <<>> \in Seq(BOOLEAN)
  BY <1>2 DEF BridgeTypeOK
<1>6. asked = cat \o <<FALSE>> \/ (asked = cat /\ "off" \notin gone.calls)
  BY <1>5, Unqueued
<1>7. asked \in Seq(BOOLEAN)
  BY <1>5, <1>6, ConcatProperties
<1>8. cat' = asked \o <<FALSE>> \/ cat' = asked
  BY <1>1, <1>7, Unqueued
<1> HIDE DEF asked
<1>9. cat' \in Seq(BOOLEAN)
  <2>1. asked \o <<FALSE>> \in Seq(BOOLEAN)
    BY <1>5, <1>7, ConcatProperties
  <2> QED BY <1>7, <1>8, <2>1
<1>10. Vox \/ LastIsOff'
  <2>1. CASE cat' = asked \o <<FALSE>>
    <3>1. cat' # <<>> /\ ~cat'[Len(cat')]
      BY <1>7, <2>1, OffIsLast
    <3> QED BY <3>1 DEF LastIsOff
  <2>2. CASE cat' = asked /\ asked = cat \o <<FALSE>>
    <3>1. cat' # <<>> /\ ~cat'[Len(cat')]
      BY <1>5, <2>2, OffIsLast
    <3> QED BY <3>1 DEF LastIsOff
  <2>3. CASE cat' = cat /\ "off" \notin gone.calls
    BY <1>1, <1>4, <2>3 DEF LetGo, LastIsOff
  <2> QED BY <1>6, <1>8, <2>1, <2>2, <2>3
<1>11. VoxHasNoPtt'
  <2>1. ASSUME Vox
        PROVE  ~keyed' /\ \A i \in DOMAIN cat' : ~cat'[i]
    <3>1. ~keyed /\ \A i \in DOMAIN cat : ~cat[i]
      BY <1>2, <2>1 DEF VoxHasNoPtt
    <3>2. \A i \in DOMAIN asked : ~asked[i]
      BY <1>5, <1>6, <3>1, Queued
    <3>3. \A i \in DOMAIN cat' : ~cat'[i]
      BY <1>7, <1>8, <3>2, Queued
    <3> QED BY <1>1, <3>1, <3>3
  <2>2. \A callback \in posted' : callback[1] # "confirmed"
    BY <1>1
  <2> QED BY <2>1, <2>2 DEF VoxHasNoPtt
<1>12. /\ NewMachine \in Machines /\ NewMachine.state = "Disabled"
       /\ NewMachine.sessions = 0 /\ Good(NewMachine)
  BY NewMachineGood DEF NewMachine
<1>13. /\ NewCoordinator \in Coordinators /\ ~NewCoordinator.device
       /\ NewCoordinator.session = 0 /\ ~NewCoordinator.startAttempted
       /\ ~NewCoordinator.complete
  BY MachineAssumption, CoordinatorAssumption
     DEF MachineAssumption, CoordinatorAssumption, NewCoordinator, Coordinators
<1>14. ~Active(machine') /\ ~Sending(machine') /\ machine'.state # "WaitingForPtt"
  BY <1>1, <1>12 DEF Active, Sending, PrePttStates, OnAirStates, AudioStates
<1>15. Rested(machine', coordinator')
  BY <1>1, <1>12, <1>13, <1>14, BridgeAssumption DEF BridgeAssumption, Rested
<1>16. BridgeTypeOK'
  <2>1. playing' \in [session : 0..MaxStarts, heard : 0..Total]
    BY <1>1, BridgeAssumption, CoordinatorAssumption
       DEF BridgeAssumption, CoordinatorAssumption, Silence
  <2> QED BY <1>1, <1>2, <1>9, <1>12, <1>13, <2>1 DEF BridgeTypeOK
<1> QED BY <1>1, <1>10, <1>11, <1>13, <1>14, <1>15, <1>16 DEF BridgeIInv

\* The CAT worker takes the commands as they come.
LEMMA ExecuteKept ==
    ASSUME BridgeIInv, Execute
    PROVE  BridgeIInv'
<1> DEFINE n == Len(cat)
<1>1. /\ cat \in Seq(BOOLEAN) /\ cat # <<>> /\ cat' = Tail(cat) /\ keyed' = cat[1]
      /\ BridgeTypeOK /\ VoxHasNoPtt
  BY DEF Execute, BridgeIInv, BridgeTypeOK
<1>2. /\ machine' = machine /\ coordinator' = coordinator /\ owns' = owns
      /\ posted' = posted /\ down' = down /\ playing' = playing
      /\ report' = report /\ fb' = fb
  BY DEF Execute, Owner
<1>3. /\ n \in Nat \ {0} /\ DOMAIN cat = 1..n /\ cat[1] \in BOOLEAN
      /\ cat' \in Seq(BOOLEAN) /\ Len(cat') = n - 1
      /\ \A i \in 1..n - 1 : cat'[i] = cat[i + 1]
  BY <1>1, EmptySeq, LenProperties, ElementOfSeq, HeadTailProperties
<1>4. DOMAIN cat' = 1..n - 1
  BY <1>3, LenProperties
<1> HIDE DEF n
<1>5. LastIsOff => LastIsOff'
  <2> SUFFICES ASSUME LastIsOff, keyed' \/ \E i \in DOMAIN cat' : cat'[i]
               PROVE  cat' # <<>> /\ ~cat'[Len(cat')]
    BY DEF LastIsOff
  <2>1. \E i \in DOMAIN cat : cat[i]
    <3>1. CASE keyed'
      <4>1. cat[1]
        BY <1>1, <3>1
      <4>2. 1 \in DOMAIN cat
        BY <1>3
      <4> QED BY <4>1, <4>2
    <3>2. CASE \E i \in DOMAIN cat' : cat'[i]
      <4>1. PICK i \in 1..n - 1 : cat'[i]
        BY <1>4, <3>2
      <4>2. i + 1 \in DOMAIN cat /\ cat[i + 1]
        BY <1>3, <4>1
      <4> QED BY <4>2
    <3> QED BY <3>1, <3>2
  <2>2. ~cat[n]
    BY <2>1 DEF LastIsOff, n
  <2>3. n # 1
    <3>1. CASE n = 1
      BY <1>3, <2>1, <2>2, <3>1
    <3> QED BY <3>1
  <2>4. n - 1 \in 1..n - 1 /\ (n - 1) + 1 = n
    BY <1>3, <2>3
  <2>5. ~cat'[n - 1]
    BY <1>3, <2>2, <2>4
  <2>6. cat' # <<>>
    BY <1>3, <2>4, EmptySeq
  <2> QED BY <1>3, <2>5, <2>6
<1>6. VoxHasNoPtt'
  <2>1. ASSUME Vox
        PROVE  ~keyed' /\ \A i \in DOMAIN cat' : ~cat'[i]
    <3>1. \A i \in 1..n : ~cat[i]
      BY <1>1, <1>3, <2>1 DEF VoxHasNoPtt
    <3>2. \A i \in 1..n - 1 : i + 1 \in 1..n
      BY <1>3
    <3> QED BY <1>1, <1>3, <1>4, <3>1, <3>2
  <2> QED BY <1>1, <1>2, <2>1 DEF VoxHasNoPtt
<1>7. BridgeTypeOK'
  BY <1>1, <1>2, <1>3 DEF BridgeTypeOK
<1> QED BY <1>2, <1>5, <1>6, <1>7 DEF BridgeIInv

LEMMA BridgeStep == BridgeIInv /\ [BridgeNext]_bridgeVars => BridgeIInv'
<1> SUFFICES ASSUME BridgeIInv, [BridgeNext]_bridgeVars PROVE BridgeIInv'
  OBVIOUS
<1>1. BridgeTypeOK /\ VoxHasNoPtt /\ Rested(machine, coordinator)
  BY DEF BridgeIInv
<1>2. ASSUME NEW dt \in 0..MaxGap, NEW h \in HookAnswers,
             NEW built \in BOOLEAN, NEW fskId \in BOOLEAN,
             StartSstvTx(dt, h, built, fskId)
      PROVE  BridgeIInv'
  <2> DEFINE x == Run(machine, coordinator, dt)
             pf == [ok |-> built, release |-> ~Vox, fskId |-> fskId]
             y == Start(Tick(x, h), h, pf)
  <2>1. Clear(x) /\ x.tx = machine
    BY RunClear
  <2>2. /\ machine.sessions < MaxStarts /\ Settle(y, {}) /\ UNCHANGED Radio
        /\ down' = down
    BY <1>2 DEF StartSstvTx
  <2> HIDE DEF x
  <2> DEFINE t == Tick(x, h)
  <2>3. Clear(t) /\ t.tx.sessions = machine.sessions
    BY <2>1, TickKept DEF Clear, Follows
  <2> HIDE DEF t
  <2>4. Clear(Start(t, h, pf))
    BY <2>2, <2>3, StartKept
  <2>5. Clear(y)
    BY <2>4 DEF t
  <2> HIDE DEF y
  <2> QED BY <1>1, <2>2, <2>5, SettleKept DEF BridgeTypeOK
<1>3. ASSUME NEW dt \in 0..MaxGap, NEW h \in HookAnswers, CancelSstvTx(dt, h)
      PROVE  BridgeIInv'
  <2> DEFINE x == Run(machine, coordinator, dt)
             y == Cancel(x, h)
  <2>1. Clear(x)
    BY RunClear
  <2>2. Settle(y, {}) /\ UNCHANGED Radio /\ down' = down
    BY <1>3 DEF CancelSstvTx
  <2> HIDE DEF x
  <2>3. Clear(y)
    BY <2>1, CancelKept
  <2> HIDE DEF y
  <2> QED BY <1>1, <2>2, <2>3, SettleKept DEF BridgeTypeOK
<1>4. ASSUME NEW dt \in 0..MaxGap, NEW h \in HookAnswers, Deliver(dt, h)
      PROVE  BridgeIInv'
  <2> DEFINE x == Run(machine, coordinator, dt)
  <2>1. Clear(x)
    BY RunClear
  <2>2. PICK callback \in posted :
          Settle(CASE callback[1] = "confirmed" -> NotifyPttConfirmed(x, h, callback[2])
                   [] callback[1] = "released" -> NotifyPttReleased(x, h, callback[2])
                   [] OTHER -> NotifyAudioError(x, h, callback[2]), {callback})
    BY <1>4 DEF Deliver
  <2>3. UNCHANGED Radio /\ down' = down
    BY <1>4 DEF Deliver
  <2> HIDE DEF x
  <2> DEFINE y == CASE callback[1] = "confirmed" -> NotifyPttConfirmed(x, h, callback[2])
                    [] callback[1] = "released" -> NotifyPttReleased(x, h, callback[2])
                    [] OTHER -> NotifyAudioError(x, h, callback[2])
  <2>4. CASE callback[1] = "confirmed"
    <3> DEFINE z == NotifyPttConfirmed(x, h, callback[2])
    <3>1. y = z
      BY <2>4
    <3>2. Quieted(z)
      BY <2>1, NotifyPttConfirmedKept
    <3> HIDE DEF z, y
    <3>3. Vox
      BY <1>1, <2>4 DEF VoxHasNoPtt
    <3>4. Clear(y)
      BY <3>1, <3>2, <3>3 DEF Clear, LetGo
    <3> QED BY <1>1, <2>2, <2>3, <3>4, SettleKept DEF BridgeTypeOK, y
  <2>5. CASE callback[1] # "confirmed"
    <3>1. Clear(NotifyPttReleased(x, h, callback[2]))
      BY <2>1, NotifyPttReleasedKept
    <3>2. Clear(NotifyAudioError(x, h, callback[2]))
      BY <2>1, NotifyAudioErrorKept
    <3>3. y \in {NotifyPttReleased(x, h, callback[2]), NotifyAudioError(x, h, callback[2])}
      BY <2>5
    <3> HIDE DEF y
    <3>4. Clear(y)
      BY <3>1, <3>2, <3>3
    <3> QED BY <1>1, <2>2, <2>3, <3>4, SettleKept DEF BridgeTypeOK, y
  <2> QED BY <2>4, <2>5
<1>5. ASSUME NEW dt \in 1..MaxGap, NEW h \in HookAnswers, NEW broken \in BOOLEAN,
             TickSstvTx(dt, h, broken)
      PROVE  BridgeIInv'
  <2> DEFINE x == Run(machine, coordinator, dt)
             polled == PollPtt(x, h)
             ticked == Tick(polled, h)
             p == PlaybackProgress(broken)
             y == IF ticked.co.attached /\ playing # Silence
                  THEN NotifyPlayback(ticked, h, machine.session, p)
                  ELSE ticked
  <2>1. Clear(x)
    <3>1. dt \in Nat
      BY BridgeAssumption DEF BridgeAssumption
    <3> QED BY <3>1, RunClear
  <2>2. Settle(y, {}) /\ UNCHANGED Radio /\ down' = down
    BY <1>5 DEF TickSstvTx
  <2> HIDE DEF x
  <2>3. Quieted(polled)
    BY <2>1, PollPttKept
  <2> HIDE DEF polled
  <2>4. Clear(ticked) /\ Fresh(ticked)
    BY <2>3, TickKept
  <2> HIDE DEF ticked
  <2>5. p.frames \in 0..Total /\ p.complete \in BOOLEAN
    BY <1>1 DEF PlaybackProgress, BridgeTypeOK
  <2> HIDE DEF p
  <2>6. Clear(y)
    BY <2>4, <2>5, NotifyPlaybackKept
  <2> HIDE DEF y
  <2> QED BY <1>1, <2>2, <2>6, SettleKept DEF BridgeTypeOK
<1>6. ASSUME NEW h \in HookAnswers, ShutdownSstvTx(h) PROVE BridgeIInv'
  BY <1>6, ShutdownSstvTxKept
<1>7. CASE TimerFires
  BY <1>7 DEF TimerFires, Radio, BridgeIInv, BridgeTypeOK, VoxHasNoPtt, LastIsOff
<1>8. CASE Play
  <2>1. /\ playing' = [playing EXCEPT !.heard = @ + 1] /\ playing # Silence
        /\ playing.heard < Total /\ playing.heard \in 0..Total
        /\ playing \in [session : 0..MaxStarts, heard : 0..Total]
    BY <1>1, <1>8 DEF Play, BridgeTypeOK
  <2>2. playing' \in [session : 0..MaxStarts, heard : 0..Total]
    BY <2>1, CoordinatorAssumption DEF CoordinatorAssumption
  <2>3. playing'.session = playing.session
    BY <2>1
  <2>4. /\ machine' = machine /\ coordinator' = coordinator /\ owns' = owns
        /\ posted' = posted /\ down' = down /\ cat' = cat
        /\ keyed' = keyed /\ report' = report /\ fb' = fb
    BY <1>8 DEF Play, Owner, Radio
  <2>5. BridgeTypeOK' /\ VoxHasNoPtt' /\ (LastIsOff => LastIsOff')
    BY <1>1, <2>2, <2>4 DEF BridgeTypeOK, VoxHasNoPtt, LastIsOff
  <2> QED BY <2>1, <2>3, <2>4, <2>5 DEF BridgeIInv
<1>9. CASE SoundFails
  <2>1. playing.session \in 1..MaxStarts
    BY <1>1, <1>9 DEF SoundFails, BridgeIInv, Rested, BridgeTypeOK
  <2>2. /\ machine' = machine /\ coordinator' = coordinator /\ owns' = owns
        /\ playing' = playing /\ down' = down /\ cat' = cat
        /\ keyed' = keyed /\ report' = report /\ fb' = fb
        /\ posted' = posted \cup {<<"error", playing.session>>}
    BY <1>9 DEF SoundFails, Radio
  <2>3. BridgeTypeOK' /\ VoxHasNoPtt' /\ (LastIsOff => LastIsOff')
    BY <1>1, <2>1, <2>2 DEF BridgeTypeOK, VoxHasNoPtt, LastIsOff
  <2> QED BY <2>2, <2>3 DEF BridgeIInv
<1>10. CASE Execute
  BY <1>10, ExecuteKept
<1>11. CASE Poll
  BY <1>11 DEF Poll, Owner, BridgeIInv, BridgeTypeOK, VoxHasNoPtt, LastIsOff
<1>12. CASE Arrive
  BY <1>12 DEF Arrive, Owner, BridgeIInv, BridgeTypeOK, VoxHasNoPtt, LastIsOff
<1>13. CASE UNCHANGED bridgeVars
  BY <1>13 DEF bridgeVars, BridgeIInv, BridgeTypeOK, VoxHasNoPtt, LastIsOff
<1> QED BY <1>2, <1>3, <1>4, <1>5, <1>6, <1>7, <1>8, <1>9, <1>10, <1>11, <1>12,
     <1>13 DEF BridgeNext

\* Audio of a session that is over: only VOX can leave it playing.
LEMMA SoundIs ==
    ASSUME BridgeIInv
    PROVE  /\ playing # Silence => owns /\ playing.session = coordinator.session
           /\ ~Vox => PcmOnlyOwned
           /\ OffHasTheLastWord
<1>1. /\ playing # Silence => /\ coordinator.device /\ coordinator.startAttempted
                              /\ playing.session = coordinator.session /\ owns
      /\ Sending(machine) => Active(machine)
      /\ ~Vox /\ coordinator.device /\ coordinator.startAttempted => Sending(machine)
      /\ Active(machine) => coordinator.session = machine.session
  BY DEF BridgeIInv, Rested, Sending
<1>2. ~Vox => PcmOnlyOwned
  BY <1>1 DEF PcmOnlyOwned
<1>3. OffHasTheLastWord
  <2>1. CASE Vox
    BY <2>1 DEF BridgeIInv, VoxHasNoPtt, OffHasTheLastWord
  <2>2. CASE ~Vox
    BY <1>1, <2>2 DEF BridgeIInv, LastIsOff, OffHasTheLastWord
  <2> QED BY <2>1, <2>2
<1> QED BY <1>1, <1>2, <1>3

(* However the calls, callbacks and reports of a CAT radio follow each      *)
(* other: the sound output plays the audio of the session that owns the    *)
(* transmit path and no other, and a radio that is or will be keyed gets   *)
(* an OFF last once the session is over.                                    *)
THEOREM BridgeIsSound == ~Vox => (BridgeSpec => []BridgeInv)
<1>1. BridgeIInv /\ ~Vox => BridgeInv
  BY SoundIs DEF BridgeIInv, BridgeInv
<1>2. BridgeSpec => []BridgeIInv
  BY BridgeInitIInv, BridgeStep, PTL DEF BridgeSpec
<1>3. CASE Vox
  BY <1>3
<1>4. ASSUME ~Vox PROVE BridgeSpec => []BridgeInv
  <2>1. BridgeIInv => BridgeInv
    BY <1>1, <1>4
  <2> QED BY <1>2, <2>1, PTL
<1> QED BY <1>3, <1>4

(* Of VOX the same is true but for audio that the watchdog has left        *)
(* attached to a session that timed out: it plays on, for the last session *)
(* that began, and the transmit path is not given back before it is gone.  *)
THEOREM VoxAudioIsOwned ==
    BridgeSpec =>
        [](/\ BridgeTypeOK /\ OffHasTheLastWord
           /\ playing # Silence => owns /\ playing.session = coordinator.session)
<1>1. BridgeIInv =>
        /\ BridgeTypeOK /\ OffHasTheLastWord
        /\ playing # Silence => owns /\ playing.session = coordinator.session
  BY SoundIs DEF BridgeIInv
<1> QED BY <1>1, BridgeInitIInv, BridgeStep, PTL DEF BridgeSpec
=============================================================================

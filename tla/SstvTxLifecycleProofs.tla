----------------------- MODULE SstvTxLifecycleProofs -----------------------
(***************************************************************************)
(* What holds of the SSTV transmit state machine for every budget, every   *)
(* delay and any number of sessions.  The inductive invariant is Good: the *)
(* type of the record and MachineInv.  Each operator that writes the       *)
(* record has a lemma that it keeps it, and the theorems follow from the   *)
(* lemma about Dispatch, which the proofs about the coordinator cite too.  *)
(***************************************************************************)
EXTENDS SstvTxLifecycle, TLAPS

Good(m) == m \in Machines /\ MachineInv(m)

\* An age of zero is an age.
LEMMA ZeroAge == ASSUME MachineAssumption PROVE 0 \in 0..MaxAge
  BY DEF MachineAssumption

\* Entering a state keeps the type of the record.
LEMMA EnterType ==
    ASSUME MachineAssumption, NEW m \in Machines, NEW s \in States
    PROVE  Enter(m, s) \in Machines
  BY ZeroAge DEF Enter, Machines

\* Clearing the session keeps the type of the record.
LEMMA ClearSessionType ==
    ASSUME NEW m \in Machines
    PROVE  ClearSession(m) \in Machines
  BY DEF Machines, ClearSession, Deferred

\* Ending a session keeps the type of the record.
LEMMA EnterTerminalType ==
    ASSUME MachineAssumption, NEW m \in Machines, NEW s \in Deferrable
    PROVE  EnterTerminal(m, s) \in Machines
<1> DEFINE e == IF s = "Disabled" THEN ClearSession(m) ELSE m
           f == [e EXCEPT !.releaseRequired = FALSE, !.confirmed = FALSE,
                          !.requested = FALSE, !.audioStarted = FALSE,
                          !.deferred = "None"]
<1>1. e \in Machines
  BY ClearSessionType
<1>2. f \in Machines
  <2> HIDE DEF e
  <2> QED BY <1>1 DEF Machines, Deferred
<1>3. Enter(f, s) \in Machines
  <2> HIDE DEF f
  <2> QED BY <1>2, EnterType DEF States, Deferrable, Terminals
<1> QED BY <1>3 DEF EnterTerminal

\* The deferred outcome is one of the outcomes.
LEMMA DeferType ==
    ASSUME NEW m \in Machines, NEW outcome \in Deferred
    PROVE  [m EXCEPT !.deferred = outcome] \in Machines
  BY DEF Machines

\* Terminal outcomes are outcomes, and outcomes are states.
LEMMA OutcomeSets ==
    /\ Terminals \subseteq Deferrable
    /\ Deferrable \subseteq Deferred
    /\ Deferrable \subseteq States
    /\ "ReleasingPtt" \in States
    /\ "Idle" \in States
  BY DEF Terminals, Deferrable, Deferred, States, OnAirStates

(* Ending a session, by an outcome the record's enabled flag agrees with,  *)
(* leaves a good record: this is where a forgotten flag would show.        *)
LEMMA EnterTerminalGood ==
    ASSUME MachineAssumption, NEW m, Good(m), NEW outcome \in Deferrable,
           outcome = "Disabled" <=> ~m.enabled
    PROVE  Good(EnterTerminal(m, outcome))
<1> DEFINE n == EnterTerminal(m, outcome)
<1>1. n \in Machines
  BY EnterTerminalType DEF Good
<1>2. /\ n.state = outcome
      /\ n.enabled = m.enabled
      /\ n.deferred = "None"
      /\ ~n.requested /\ ~n.confirmed /\ ~n.releaseRequired
      /\ ~n.audioStarted
      /\ n.session \in {0, m.session}
      /\ n.sessions = m.sessions
  BY DEF Good, EnterTerminal, ClearSession, Enter, Machines
<1>3. InvariantsHold(n)
  <2> HIDE DEF n
  <2> QED BY <1>2 DEF InvariantsHold, Deferrable, Terminals
<1>4. m.sessions \in Nat /\ m.session \in 0..m.sessions
  BY DEF Good, MachineInv, Machines
<1>5. MachineInv(n)
  <2> HIDE DEF n
  <2> QED BY <1>2, <1>3, <1>4 DEF MachineInv, Deferrable, Terminals, PrePttStates,
             AudioStates, OnAirStates, Active
<1> QED BY <1>1, <1>5 DEF Good

(* A request to end the session, whatever its reason, keeps the record     *)
(* good: behind the barrier it only re-enters ReleasingPtt.                *)
LEMMA RequestTerminalGood ==
    ASSUME MachineAssumption, NEW m, Good(m), m.state # "Disabled",
           NEW outcome \in Terminals
    PROVE  Good(RequestTerminal(m, outcome))
<1> DEFINE n == RequestTerminal(m, outcome)
<1>1. CASE m.state = "ReleasingPtt" \/ m.releaseRequired
  <2> DEFINE d == IF m.state = "ReleasingPtt"
                  THEN IF /\ m.deferred # "Disabled"
                          /\ outcome = "Error" \/ m.deferred = "None"
                       THEN outcome ELSE m.deferred
                  ELSE outcome
             p == [m EXCEPT !.deferred = d]
  <2>1. d \in Deferred
    BY OutcomeSets DEF Good, Machines
  <2>2. n = Enter(p, "ReleasingPtt")
    BY <1>1 DEF RequestTerminal
  <2>3. n \in Machines
    <3> HIDE DEF d, n
    <3> QED BY <2>1, <2>2, DeferType, EnterType, OutcomeSets DEF Good
  <2>4. /\ n.state = "ReleasingPtt" /\ n.deferred = d
        /\ n.enabled = m.enabled /\ n.requested = m.requested
        /\ n.confirmed = m.confirmed
        /\ n.releaseRequired = m.releaseRequired
        /\ n.audioStarted = m.audioStarted
        /\ n.session = m.session /\ n.sessions = m.sessions
    <3> HIDE DEF d, n
    <3> QED BY <2>2 DEF Good, Enter, Machines
  <2>5. /\ d # "None"
        /\ d = "Disabled" <=> ~m.enabled
        /\ d \in {"Cancelled", "Disabled"} => m.releaseRequired
    BY <1>1 DEF Good, MachineInv, InvariantsHold, Terminals
  <2>6. InvariantsHold(n)
    <3> HIDE DEF d, n
    <3> QED BY <2>4, <2>5 DEF Good, MachineInv, InvariantsHold, Terminals
  <2>7. /\ m.session \in 0..m.sessions
        /\ m.session > 0
    BY <1>1 DEF Good, MachineInv, InvariantsHold, Active, OnAirStates
  <2>8. MachineInv(n)
    <3> HIDE DEF d, n
    <3> QED BY <2>4, <2>5, <2>6, <2>7 DEF MachineInv, AudioStates,
               OnAirStates, Active
  <2> QED BY <2>3, <2>8 DEF Good
<1>2. CASE m.state # "ReleasingPtt" /\ ~m.releaseRequired
  <2>1. m.enabled /\ outcome # "Disabled" /\ outcome \in Deferrable
    BY <1>2, OutcomeSets DEF Good, MachineInv, InvariantsHold, Terminals
  <2> QED BY <1>2, <2>1, EnterTerminalGood DEF RequestTerminal
<1> QED BY <1>1, <1>2

-----------------------------------------------------------------------------
\* The passage of time changes nothing but the age.
LEMMA ElapseGood ==
    ASSUME MachineAssumption, NEW m, Good(m), NEW dt \in Nat
    PROVE  /\ Good(Elapse(m, dt))
           /\ \E a \in 0..MaxAge : Elapse(m, dt) = [m EXCEPT !.age = a]
<1> DEFINE a == IF m.state \notin TimedStates THEN 0
                ELSE IF m.age + dt > MaxAge THEN MaxAge ELSE m.age + dt
           n == [m EXCEPT !.age = a]
<1>1. a \in 0..MaxAge
  BY DEF MachineAssumption, Good, Machines
<1>2. n \in Machines
  <2> HIDE DEF a
  <2> QED BY <1>1 DEF Good, Machines
<1>3. MachineInv(n)
  <2> HIDE DEF a
  <2> QED BY DEF Good, Machines, MachineInv, InvariantsHold, Active
<1>4. Elapse(m, dt) = n
  BY DEF Elapse, Good, Machines
<1> QED BY <1>1, <1>2, <1>3, <1>4 DEF Good

\* Every event carries the data its handler reads.
LEMMA EventData ==
    ASSUME NEW ev \in Events
    PROVE  /\ ev.type = "EncodingComplete" => ev.fskId \in BOOLEAN
           /\ ev.type = "PttRequestDispatched" => ev.release \in BOOLEAN
           /\ ev.type \in PlainEvents \cup
                {"Prepare", "EncodingComplete", "PttRequestDispatched"}
  BY DEF Events, Event, PrepareEvent, EncodingCompleteEvent,
         PttRequestDispatchedEvent, PlainEvents

\* The acknowledgement and the fail-safe events keep the record good.
LEMMA UrgentGood ==
    ASSUME MachineAssumption, NEW m, Good(m), NEW type \in UrgentEvents
    PROVE  Good(Urgent(m, type).tx)
<1> DEFINE n == Urgent(m, type).tx
<1>1. CASE type = "PttReleased"
  <2>1. CASE m.state = "ReleasingPtt"
    <3>1. /\ m.deferred \in Deferrable
          /\ m.deferred = "Disabled" <=> ~m.enabled
      BY <2>1 DEF Good, MachineInv, InvariantsHold, Machines, Deferred
    <3>2. n = EnterTerminal(m, m.deferred)
      BY <1>1, <2>1, <3>1 DEF Urgent, When, Accept, Deferrable, Terminals
    <3> QED BY <3>1, <3>2, EnterTerminalGood
  <2> QED BY <1>1, <2>1 DEF Urgent, When, Reject
<1>2. CASE type \in {"Failure", "Cancel"}
  <2>1. Active(m) => m.state # "Disabled"
    BY DEF Active, PrePttStates, OnAirStates, AudioStates
  <2>2. n = IF Active(m)
            THEN RequestTerminal(m, IF type = "Failure" THEN "Error"
                                    ELSE "Cancelled")
            ELSE m
    BY <1>2 DEF Urgent, When, Accept, Reject
  <2> QED BY <2>1, <2>2, RequestTerminalGood DEF Terminals
<1>3. CASE type = "Disable"
  <2> DEFINE off == [m EXCEPT !.enabled = FALSE]
             cleared == ClearSession(off)
             deferring == [off EXCEPT !.deferred = "Disabled"]
  <2>1. off \in Machines /\ cleared \in Machines /\ deferring \in Machines
    <3>1. off \in Machines
      BY DEF Good, Machines
    <3>2. cleared \in Machines
      <4> HIDE DEF off
      <4> QED BY <3>1, ClearSessionType
    <3> QED BY <3>1, <3>2, DeferType DEF Deferred, Deferrable
  <2>2. CASE ~m.enabled
    BY <1>3, <2>2 DEF Urgent, When, Reject
  <2>3. CASE m.enabled /\ ~m.releaseRequired
    <3>1. n = Enter(cleared, "Disabled")
      BY <1>3, <2>3 DEF Urgent, When, Accept
    <3>2. n \in Machines
      BY <2>1, <3>1, EnterType DEF States
    <3>3. MachineInv(n)
      BY <3>1 DEF Enter, ClearSession, Good, Machines, MachineInv,
         InvariantsHold, Active, PrePttStates, OnAirStates, AudioStates,
         Terminals
    <3> QED BY <3>2, <3>3 DEF Good
  <2>4. CASE m.enabled /\ m.releaseRequired
    <3>1. n = IF m.state = "ReleasingPtt" THEN deferring
              ELSE Enter(deferring, "ReleasingPtt")
      BY <1>3, <2>4 DEF Urgent, When, Accept
    <3>3. n \in Machines
      <4> HIDE DEF deferring, n
      <4> QED BY <2>1, <3>1, EnterType, OutcomeSets
    <3>4. /\ n.state = "ReleasingPtt" /\ n.deferred = "Disabled"
          /\ ~n.enabled /\ n.releaseRequired
          /\ n.requested = m.requested /\ n.confirmed = m.confirmed
          /\ n.audioStarted = m.audioStarted
          /\ n.session = m.session /\ n.sessions = m.sessions
      <4> HIDE DEF n
      <4> QED BY <2>4, <3>1 DEF Good, Machines, Enter
    <3>5. m.requested /\ m.session > 0
      BY <2>4 DEF Good, MachineInv, InvariantsHold, Active
    <3>6. MachineInv(n)
      <4> HIDE DEF n
      <4> QED BY <3>4, <3>5 DEF Good, MachineInv, InvariantsHold, Active,
                 OnAirStates, AudioStates, Terminals
    <3> QED BY <3>3, <3>6 DEF Good
  <2> QED BY <2>2, <2>3, <2>4 DEF Good, Machines
<1>4. CASE type = "Reset"
  <2>1. CASE m.enabled /\ ~Active(m) /\ ~m.releaseRequired
    <3>1. n = Enter(ClearSession(m), "Idle")
      BY <1>4, <2>1 DEF Urgent, When, Accept
    <3>2. n \in Machines
      BY <3>1, ClearSessionType, EnterType, OutcomeSets DEF Good
    <3>3. MachineInv(n)
      BY <2>1, <3>1 DEF Enter, ClearSession, Good, Machines, MachineInv,
         InvariantsHold, Active, PrePttStates, OnAirStates, AudioStates,
         Terminals
    <3> QED BY <3>2, <3>3 DEF Good
  <2> QED BY <1>4, <2>1 DEF Urgent, When, Reject
<1> QED BY <1>1, <1>2, <1>3, <1>4 DEF UrgentEvents

\* Preparing a session from a terminal state or from Idle keeps it good.
LEMMA PrepareGood ==
    ASSUME MachineAssumption, NEW m, Good(m), NEW valid
    PROVE  Good(Prepare(m, valid).tx)
<1> DEFINE idle == IF m.state \in Terminals THEN Enter(ClearSession(m), "Idle")
                   ELSE m
           n == Prepare(m, valid).tx
<1>1. idle \in Machines
  BY ClearSessionType, EnterType, OutcomeSets DEF Good
<1>2. MachineInv(idle)
  BY DEF Enter, ClearSession, Good, Machines, MachineInv,
         InvariantsHold, Active, PrePttStates, OnAirStates, AudioStates,
         Terminals
<1>3. CASE idle.enabled /\ idle.state = "Idle" /\ valid
  <2>1. n = BeginSession(idle)
    BY <1>3 DEF Prepare, When, Accept
  <2> HIDE DEF idle
  <2> DEFINE c == ClearSession(idle)
             fresh == [c EXCEPT !.sessions = @ + 1,
                                !.session = idle.sessions + 1]
  <2>2. c \in Machines /\ c.sessions = idle.sessions
    BY <1>1, ClearSessionType DEF ClearSession, Machines
  <2>3. fresh \in Machines
    <3>1. c.sessions + 1 \in Nat /\ idle.sessions + 1 \in Nat
      BY <1>1, <2>2 DEF Machines
    <3> HIDE DEF c
    <3> QED BY <2>2, <3>1 DEF Machines
  <2>4. n \in Machines
    BY <2>1, <2>3, EnterType DEF BeginSession, States, PrePttStates
  <2>5. /\ n.state = "PreparingImage" /\ n.enabled = idle.enabled
        /\ n.deferred = "None" /\ ~n.requested /\ ~n.confirmed
        /\ ~n.releaseRequired /\ ~n.audioStarted
        /\ n.session = idle.sessions + 1 /\ n.sessions = idle.sessions + 1
    BY <1>1, <2>1 DEF BeginSession, Enter, ClearSession, Machines
  <2>6. idle.sessions \in Nat /\ idle.enabled
    BY <1>1, <1>3 DEF Machines
  <2>7. MachineInv(n)
    <3> HIDE DEF n
    <3> QED BY <2>5, <2>6 DEF MachineInv, InvariantsHold, Active,
               PrePttStates, OnAirStates, AudioStates, Terminals
  <2> QED BY <2>4, <2>7 DEF Good
<1>4. CASE ~(idle.enabled /\ idle.state = "Idle" /\ valid)
  <2>1. n = idle
    BY <1>4 DEF Prepare, When, Reject
  <2> QED BY <1>1, <1>2, <2>1 DEF Good
<1> QED BY <1>3, <1>4

(* One step of the session forward keeps the record good.  The record a    *)
(* handler enters its next state with, p, is m with at most one flag set.  *)
LEMMA OrdinaryGood ==
    ASSUME MachineAssumption, NEW m, Good(m),
           NEW ev \in Events, ev.type \notin UrgentEvents
    PROVE  Good(Ordinary(m, ev).tx)
<1> DEFINE n == Ordinary(m, ev).tx
<1> USE DEF When, Accept, Reject
<1>1. CASE ev.type = "Enable"
  <2>1. CASE ~m.enabled /\ m.state = "Disabled"
    <3> DEFINE p == [ClearSession(m) EXCEPT !.enabled = TRUE]
    <3>1. p \in Machines
      <4>1. ClearSession(m) \in Machines
        BY ClearSessionType DEF Good
      <4> QED BY <4>1 DEF Machines
    <3>2. n = Enter(p, "Idle")
      BY <1>1, <2>1 DEF Ordinary
    <3>3. n \in Machines
      BY <3>1, <3>2, EnterType, OutcomeSets
    <3>4. MachineInv(n)
      BY <3>2 DEF Enter, ClearSession, Good, Machines, MachineInv,
         InvariantsHold, Active, PrePttStates, OnAirStates, AudioStates,
         Terminals
    <3> QED BY <3>3, <3>4 DEF Good
  <2> QED BY <1>1, <2>1 DEF Ordinary
<1>2. CASE ev.type = "Tick"
  BY <1>2 DEF Ordinary
<1>3. CASE ev.type = "Prepare"
  BY <1>3, PrepareGood DEF Ordinary
<1>4. CASE ev.type \in {"ImagePrepared", "EncodingComplete", "Request",
                        "PttRequestDispatched"}
  <2> DEFINE p == CASE ev.type = "EncodingComplete" -> [m EXCEPT !.fskId = ev.fskId]
                    [] ev.type = "PttRequestDispatched" ->
                         [m EXCEPT !.requested = TRUE,
                                   !.releaseRequired = ev.release]
                    [] OTHER -> m
             s == CASE ev.type = "ImagePrepared" -> "Encoding"
                    [] ev.type = "EncodingComplete" -> "Ready"
                    [] ev.type = "Request" -> "RequestingPtt"
                    [] OTHER -> "WaitingForPtt"
             b == CASE ev.type = "ImagePrepared" -> "PreparingImage"
                    [] ev.type = "EncodingComplete" -> "Encoding"
                    [] ev.type = "Request" -> "Ready"
                    [] OTHER -> "RequestingPtt"
  <2>1. n = m \/ (m.state = b /\ n = Enter(p, s))
    BY <1>4 DEF Ordinary
  <2>2. p \in Machines
    BY <1>4, EventData DEF Good, Machines
  <2>3. s \in States
    BY <1>4 DEF States, PrePttStates, OnAirStates
  <2>4. Enter(p, s) \in Machines
    <3> HIDE DEF p, s
    <3> QED BY <2>2, <2>3, EnterType
  <2>5. ASSUME m.state = b PROVE MachineInv(Enter(p, s))
    BY <1>4, <2>5, EventData DEF Enter, Good, Machines, MachineInv,
       InvariantsHold, Active, PrePttStates, OnAirStates, AudioStates,
       Terminals
  <2> QED BY <2>1, <2>4, <2>5 DEF Good
<1>5. CASE ev.type \in {"PttConfirmed", "LeadElapsed"}
  <2> DEFINE p == IF ev.type = "PttConfirmed"
                  THEN [m EXCEPT !.confirmed = TRUE]
                  ELSE [m EXCEPT !.audioStarted = TRUE]
             s == IF ev.type = "PttConfirmed" THEN "WaitingForPtt"
                  ELSE "TransmittingHeader"
  <2>1. \/ n = m
        \/ /\ m.state = "WaitingForPtt" /\ m.requested
           /\ m.confirmed <=> ev.type = "LeadElapsed"
           /\ n = Enter(p, s)
    BY <1>5 DEF Ordinary, Good, MachineInv
  <2>2. p \in Machines
    BY DEF Good, Machines
  <2>3. s \in States
    BY DEF States, OnAirStates, AudioStates
  <2>4. Enter(p, s) \in Machines
    <3> HIDE DEF p, s
    <3> QED BY <2>2, <2>3, EnterType
  <2>5. ASSUME m.state = "WaitingForPtt", m.requested,
               m.confirmed <=> ev.type = "LeadElapsed"
        PROVE  MachineInv(Enter(p, s))
    BY <1>5, <2>5 DEF Enter, Good, Machines, MachineInv,
       InvariantsHold, Active, PrePttStates, OnAirStates, AudioStates,
       Terminals
  <2> QED BY <2>1, <2>4, <2>5 DEF Good
<1>6. CASE ev.type \in {"HeaderComplete", "ImageComplete", "FskIdComplete"}
  <2>1. \/ n = m
        \/ \E s \in AudioStates : m.state \in AudioStates /\ n = Enter(m, s)
    BY <1>6 DEF Ordinary, AudioStates
  <2>2. ASSUME NEW s \in AudioStates, m.state \in AudioStates
        PROVE  Good(Enter(m, s))
    <3>1. Enter(m, s) \in Machines
      BY EnterType DEF Good, States, OnAirStates
    <3>2. MachineInv(Enter(m, s))
      BY <2>2 DEF Enter, Good, Machines, MachineInv,
         InvariantsHold, Active, PrePttStates, OnAirStates, AudioStates,
         Terminals
    <3> QED BY <3>1, <3>2 DEF Good
  <2> QED BY <2>1, <2>2
<1>7. CASE ev.type = "TailElapsed"
  <2> DEFINE p == [m EXCEPT !.deferred = "Completed"]
  <2>1. n = m \/ (m.state = "TailDelay" /\ n = Enter(p, "ReleasingPtt"))
    BY <1>7 DEF Ordinary
  <2>2. Enter(p, "ReleasingPtt") \in Machines
    BY DeferType, EnterType, OutcomeSets DEF Good, Deferrable, Terminals
  <2>3. ASSUME m.state = "TailDelay"
        PROVE  MachineInv(Enter(p, "ReleasingPtt"))
    BY <2>3 DEF Enter, Good, Machines, MachineInv,
       InvariantsHold, Active, PrePttStates, OnAirStates, AudioStates,
       Terminals
  <2> QED BY <2>1, <2>2, <2>3 DEF Good
<1> QED BY <1>1, <1>2, <1>3, <1>4, <1>5, <1>6, <1>7, EventData
        DEF PlainEvents, UrgentEvents

-----------------------------------------------------------------------------
(* dispatch() keeps the record good, for every event and every clock:      *)
(* the callers' check of invariantsHold() after a dispatch never fails.    *)
LEMMA DispatchGood ==
    ASSUME MachineAssumption, NEW m, Good(m), NEW dt \in Int,
           NEW ev \in Events
    PROVE  /\ Good(Dispatch(m, dt, ev).tx)
           /\ InvariantsHold(Dispatch(m, dt, ev).tx)
<1>1. Good(Dispatch(m, dt, ev).tx)
  <2>1. CASE dt < 0
    BY <2>1, RequestTerminalGood DEF Dispatch, Reject, Terminals
  <2>2. CASE dt \in Nat
    <3> DEFINE n == Elapse(m, dt)
    <3>1. Good(n)
      BY <2>2, ElapseGood
    <3> HIDE DEF n
    <3>2. Good(Urgent(n, ev.type).tx) \/ ev.type \notin UrgentEvents
      BY <3>1, UrgentGood
    <3>3. Expired(n) => Good(RequestTerminal(n, "Error"))
      <4>1. Expired(n) => n.state # "Disabled"
        BY DEF Expired, TimedStates, PrePttStates, OnAirStates, AudioStates
      <4> QED BY <3>1, <4>1, RequestTerminalGood DEF Terminals
    <3>4. Good(Ordinary(n, ev).tx) \/ ev.type \in UrgentEvents
      BY <3>1, OrdinaryGood
    <3> QED BY <2>2, <3>2, <3>3, <3>4 DEF Dispatch, Accept, n
  <2> QED BY <2>1, <2>2
<1> QED BY <1>1 DEF Good, MachineInv

\* A new machine is good, and every step of the lifecycle keeps it so.
LEMMA InitGood == MachineAssumption => Good(NewMachine)
<1> SUFFICES ASSUME MachineAssumption PROVE Good(NewMachine)
  OBVIOUS
<1>1. NewMachine \in Machines
  BY ZeroAge DEF NewMachine, Machines, States, Deferred
<1>2. MachineInv(NewMachine)
  BY DEF NewMachine, MachineInv, InvariantsHold, Active, PrePttStates,
     OnAirStates, AudioStates, Terminals
<1> QED BY <1>1, <1>2 DEF Good

LEMMA StepGood ==
    ASSUME MachineAssumption, LifecycleAssumption, Good(tx), [Next]_vars
    PROVE  Good(tx')
<1>1. CASE Next
  BY <1>1, DispatchGood DEF Next, Step, LifecycleAssumption
<1>2. CASE UNCHANGED vars
  BY <1>2 DEF vars
<1> QED BY <1>1, <1>2

(* The transmit record is well typed, and invariantsHold() and the         *)
(* stronger MachineInv hold of it, in every state any caller can reach.    *)
THEOREM LifecycleInvariant == Spec => []LifecycleInv
<1>1. Init => Good(tx)
  BY InitGood, MachineAssumption DEF Init
<1>2. Good(tx) /\ [Next]_vars => Good(tx)'
  BY StepGood, MachineAssumption, LifecycleAssumption
<1>3. Good(tx) => LifecycleInv
  BY DEF Good, TypeOK, LifecycleInv
<1> QED BY <1>1, <1>2, <1>3, PTL DEF Spec

-----------------------------------------------------------------------------
(* One dispatch: the obligation to release a radio is dropped by the       *)
(* acknowledgement alone, in ReleasingPtt, and the outcome owed is paid.   *)
LEMMA DispatchKeepsObligation ==
    ASSUME MachineAssumption, NEW m, Good(m), NEW dt \in Int,
           NEW ev \in Events, m.releaseRequired,
           ~Dispatch(m, dt, ev).tx.releaseRequired
    PROVE  /\ ev.type = "PttReleased" /\ dt >= 0
           /\ m.state = "ReleasingPtt"
           /\ Dispatch(m, dt, ev).tx.state = m.deferred
<1> DEFINE d == Dispatch(m, dt, ev).tx
<1>1. m.state \in OnAirStates /\ m.state \notin Terminals
  BY DEF Good, MachineInv, InvariantsHold, OnAirStates, AudioStates, Terminals
<1>2. ASSUME NEW n, n \in Machines, n.releaseRequired, NEW outcome
      PROVE  RequestTerminal(n, outcome).releaseRequired
  BY <1>2 DEF RequestTerminal, Enter, Machines
<1>3. CASE dt < 0
  BY <1>1, <1>2, <1>3 DEF Dispatch, Reject, Good, OnAirStates, AudioStates
<1>4. CASE dt \in Nat
  <2> DEFINE n == Elapse(m, dt)
  <2>1. /\ Good(n) /\ n.releaseRequired /\ n.state = m.state
        /\ n.deferred = m.deferred
    BY <1>4, ElapseGood DEF Good, Machines
  <2> HIDE DEF n
  <2>2. CASE ev.type \in UrgentEvents
    <3>1. d = Urgent(n, ev.type).tx
      BY <1>4, <2>2 DEF Dispatch, n
    <3>2. CASE ev.type \in {"Failure", "Cancel"}
      BY <1>2, <2>1, <3>1, <3>2 DEF Urgent, When, Accept, Reject, Good
    <3>3. CASE ev.type = "Disable"
      BY <2>1, <3>1, <3>3 DEF Urgent, When, Accept, Reject, Enter, Good,
         Machines
    <3>4. CASE ev.type = "Reset"
      BY <2>1, <3>1, <3>4 DEF Urgent, When, Accept, Reject
    <3>5. CASE ev.type = "PttReleased"
      <4>1. n.state = "ReleasingPtt" /\ n.deferred # "None"
        BY <2>1, <3>1, <3>5
           DEF Urgent, When, Reject, Good, MachineInv, InvariantsHold
      <4>2. d = EnterTerminal(n, n.deferred)
        BY <3>1, <3>5, <4>1 DEF Urgent, When, Accept
      <4>3. d.state = n.deferred
        BY <2>1, <4>2 DEF EnterTerminal, Enter, ClearSession, Good, Machines
      <4> QED BY <1>4, <2>1, <3>5, <4>1, <4>3
    <3> QED BY <2>2, <3>2, <3>3, <3>4, <3>5 DEF UrgentEvents
  <2>3. CASE ev.type \notin UrgentEvents /\ Expired(n)
    BY <1>2, <1>4, <2>1, <2>3 DEF Dispatch, Accept, Good, n
  <2>4. CASE ev.type \notin UrgentEvents /\ ~Expired(n)
    <3>1. d = Ordinary(n, ev).tx
      BY <1>4, <2>4 DEF Dispatch, n
    <3>2. d.releaseRequired
      BY <1>1, <2>1, <2>4, <3>1, EventData DEF Ordinary, Prepare, When,
         Accept, Reject, Enter, Good, Machines, PlainEvents, UrgentEvents,
         OnAirStates, AudioStates
    <3> QED BY <3>2
  <2> QED BY <2>2, <2>3, <2>4
<1> QED BY <1>3, <1>4

(* Whatever ends a session, the obligation to release a radio that may be  *)
(* keyed ends with the acknowledgement of the release: no other event, in   *)
(* any state, at any time, makes a step that ends it, and the step ends the *)
(* session as was owed.                                                     *)
THEOREM ReleaseBarrier == Spec => ReleaseOnlyAcknowledged
<1>1. Init => Good(tx)
  BY InitGood, MachineAssumption DEF Init
<1>2. Good(tx) /\ [Next]_vars => Good(tx)'
  BY StepGood, MachineAssumption, LifecycleAssumption
<1>3. Good(tx) /\ [Next]_vars =>
        [tx.releaseRequired /\ ~tx'.releaseRequired =>
           \A dt \in -1..MaxDelay, ev \in Events :
              Step(dt, ev) => /\ ev.type = "PttReleased" /\ dt >= 0
                              /\ tx.state = "ReleasingPtt"
                              /\ tx'.state = tx.deferred]_vars
  <2> SUFFICES ASSUME Good(tx), tx.releaseRequired, ~tx'.releaseRequired,
                      NEW dt \in -1..MaxDelay, NEW ev \in Events, Step(dt, ev)
               PROVE  /\ ev.type = "PttReleased" /\ dt >= 0
                      /\ tx.state = "ReleasingPtt"
                      /\ tx'.state = tx.deferred
    OBVIOUS
  <2>1. dt \in Int
    BY LifecycleAssumption DEF LifecycleAssumption
  <2> QED BY <2>1, MachineAssumption, DispatchKeepsObligation DEF Step
<1> QED BY <1>1, <1>2, <1>3, PTL DEF Spec, ReleaseOnlyAcknowledged
-----------------------------------------------------------------------------
(* What OutcomeOnlyWorsens asks of the record m when an event makes it n.  *)
Worse(m, n) ==
    /\ m.deferred = "Disabled" => n.deferred = "Disabled" \/ n.state = "Disabled"
    /\ m.deferred = "Error" => /\ n.state \notin {"Completed", "Cancelled"}
                               /\ n.deferred \notin {"Completed", "Cancelled"}

(* One dispatch behind the barrier: a milder outcome never replaces the    *)
(* one that is owed, and the acknowledgement pays that one.                *)
LEMMA DispatchKeepsOutcome ==
    ASSUME MachineAssumption, NEW m, Good(m), m.state = "ReleasingPtt",
           NEW dt \in Int, NEW ev \in Events
    PROVE  Worse(m, Dispatch(m, dt, ev).tx)
<1> DEFINE d == Dispatch(m, dt, ev).tx
<1>1. ASSUME NEW n \in Machines, n.state = "ReleasingPtt", n.deferred = m.deferred,
             NEW outcome \in {"Error", "Cancelled"}
      PROVE  Worse(m, RequestTerminal(n, outcome))
  <2>1. m.deferred # "None"
    BY DEF Good, MachineInv, InvariantsHold
  <2>2. /\ RequestTerminal(n, outcome).state = "ReleasingPtt"
        /\ RequestTerminal(n, outcome).deferred =
             IF n.deferred # "Disabled" /\ outcome = "Error" THEN outcome ELSE n.deferred
    BY <1>1, <2>1 DEF RequestTerminal, Enter, Machines
  <2> QED BY <1>1, <2>2 DEF Worse
<1>2. CASE dt < 0
  BY <1>1, <1>2 DEF Dispatch, Reject, Good
<1>3. CASE dt \in Nat
  <2> DEFINE n == Elapse(m, dt)
  <2>1. n \in Machines /\ n.state = "ReleasingPtt" /\ n.deferred = m.deferred
    BY <1>3, ElapseGood DEF Good, Elapse, Machines
  <2>2. Worse(m, n)
    BY <2>1 DEF Worse
  <2> HIDE DEF n
  <2>3. CASE ev.type \in UrgentEvents
    <3>1. d = Urgent(n, ev.type).tx
      BY <1>3, <2>3 DEF Dispatch, n
    <3>2. CASE ev.type \in {"Failure", "Cancel"}
      BY <1>1, <2>1, <2>2, <3>1, <3>2 DEF Urgent, When, Accept, Reject
    <3>3. CASE ev.type = "Disable"
      <4> DEFINE off == [n EXCEPT !.enabled = FALSE]
      <4>1. off \in Machines /\ off.state = "ReleasingPtt"
        BY <2>1 DEF Machines
      <4>2. \/ d = n
            \/ d = Enter(ClearSession(off), "Disabled")
            \/ d = [off EXCEPT !.deferred = "Disabled"]
        BY <2>1, <3>1, <3>3, Zenon DEF Urgent, When, Accept, Reject
      <4> HIDE DEF off
      <4>3. CASE d = n
        BY <2>2, <4>3
      <4>4. CASE d = Enter(ClearSession(off), "Disabled")
        BY <4>1, <4>4 DEF Enter, ClearSession, Machines, Worse
      <4>5. CASE d = [off EXCEPT !.deferred = "Disabled"]
        BY <4>1, <4>5 DEF Machines, Worse
      <4> QED BY <4>2, <4>3, <4>4, <4>5
    <3>4. CASE ev.type = "Reset"
      BY <2>1, <2>2, <3>1, <3>4 DEF Urgent, When, Accept, Reject, Active, OnAirStates
    <3>5. CASE ev.type = "PttReleased"
      <4>1. d = EnterTerminal(n, IF n.deferred = "None" THEN "Error" ELSE n.deferred)
        BY <2>1, <3>1, <3>5 DEF Urgent, When, Accept
      <4>2. /\ d.deferred = "None"
            /\ d.state = IF n.deferred = "None" THEN "Error" ELSE n.deferred
        BY <2>1, <4>1 DEF EnterTerminal, Enter, ClearSession, Machines
      <4> QED BY <2>1, <4>2 DEF Worse
    <3> QED BY <2>3, <3>2, <3>3, <3>4, <3>5 DEF UrgentEvents
  <2>4. CASE ev.type \notin UrgentEvents /\ Expired(n)
    BY <1>1, <1>3, <2>1, <2>4 DEF Dispatch, Accept, n
  <2>5. CASE ev.type \notin UrgentEvents /\ ~Expired(n)
    <3>1. d = Ordinary(n, ev).tx
      BY <1>3, <2>5 DEF Dispatch, n
    <3>2. d = n
      BY <2>1, <2>5, <3>1, EventData DEF Ordinary, Prepare, When,
         Accept, Reject, PlainEvents, UrgentEvents, Terminals
    <3> QED BY <2>2, <3>2
  <2> QED BY <2>3, <2>4, <2>5
<1> QED BY <1>2, <1>3

(* A session that was disabled ends Disabled, and one that has failed is   *)
(* never reported as completed or cancelled, whatever still happens to it  *)
(* while its radio is being released.                                      *)
THEOREM OutcomeKept == Spec => OutcomeOnlyWorsens
<1>1. Init => Good(tx)
  BY InitGood, MachineAssumption DEF Init
<1>2. Good(tx) /\ [Next]_vars => Good(tx)'
  BY StepGood, MachineAssumption, LifecycleAssumption
<1>3. Good(tx) /\ [Next]_vars =>
        [tx.state = "ReleasingPtt" =>
           /\ tx.deferred = "Disabled" =>
                 tx'.deferred = "Disabled" \/ tx'.state = "Disabled"
           /\ tx.deferred = "Error" =>
                 tx'.state \notin {"Completed", "Cancelled"}
                    /\ tx'.deferred \notin {"Completed", "Cancelled"}]_vars
  BY MachineAssumption, LifecycleAssumption, DispatchKeepsOutcome
     DEF Next, Step, LifecycleAssumption, vars, Worse
<1> QED BY <1>1, <1>2, <1>3, PTL DEF Spec, OutcomeOnlyWorsens
=============================================================================

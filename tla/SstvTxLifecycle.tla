-------------------------- MODULE SstvTxLifecycle --------------------------
(***************************************************************************)
(* The SSTV transmit state machine driven by any caller at all: every      *)
(* event of SstvTxEvent, in any state, at any non-negative delay, or with  *)
(* a clock that ran backwards.                                             *)
(***************************************************************************)
EXTENDS SstvTxStateMachine

CONSTANTS
    MaxDelay,       \* longest delay between two events (a bound)
    MaxSessions     \* sessions begun in one behaviour (a bound)

ASSUME LifecycleAssumption == MaxDelay \in Nat /\ MaxSessions \in Nat

VARIABLE tx         \* metrics_, deferred_ and enabled_

vars == <<tx>>

Init == tx = NewMachine

Step(dt, ev) ==
    /\ ev.type = "Prepare" => tx.sessions < MaxSessions
    /\ tx' = Dispatch(tx, dt, ev).tx

Next == \E dt \in -1..MaxDelay, ev \in Events : Step(dt, ev)

Spec == Init /\ [][Next]_vars

-----------------------------------------------------------------------------
\* Every field stays in its range.
TypeOK == tx \in Machines

(* What invariantsHold() asserts, and what it leaves out: audio runs only  *)
(* between the end of the lead and the release, the phases of a session    *)
(* know their session, and no state but the on-air ones may leave a radio  *)
(* to release.                                                             *)
MachineInv(m) ==
    /\ InvariantsHold(m)
    /\ m.audioStarted => m.state \in AudioStates \cup {"ReleasingPtt"}
    /\ m.state \in AudioStates => m.audioStarted
    /\ m.confirmed => m.state \in OnAirStates
    /\ m.requested => m.state \in OnAirStates
    /\ m.state \in {"WaitingForPtt"} \cup AudioStates => m.requested
    /\ Active(m) => m.session > 0
    /\ m.session \in 0..m.sessions
    /\ m.deferred = "Disabled" <=> m.state = "ReleasingPtt" /\ ~m.enabled
    /\ m.deferred \in {"Cancelled", "Disabled"} => m.releaseRequired

LifecycleInv == TypeOK /\ MachineInv(tx)

(* Once a request may have reached a radio, the obligation to release it   *)
(* ends with the event PttReleased and no other, taken in ReleasingPtt by a *)
(* sound clock, and the session then ends as was owed: a completion, a      *)
(* cancellation, a failure, a timeout, a disable or a broken clock leads to *)
(* the barrier or stays behind it, and never escapes                        *)
(* (SstvTxStateMachine.cpp:70-94, 565-603).  Every event that could have    *)
(* made the step is asked, so that no other does what the acknowledgement   *)
(* does.                                                                    *)
ReleaseOnlyAcknowledged ==
    [][tx.releaseRequired /\ ~tx'.releaseRequired =>
         \A dt \in -1..MaxDelay, ev \in Events :
            Step(dt, ev) => /\ ev.type = "PttReleased" /\ dt >= 0
                            /\ tx.state = "ReleasingPtt"
                            /\ tx'.state = tx.deferred]_vars

(* A session whose release was asked for by disable() can end only         *)
(* Disabled, and a failure is never softened into a success behind the     *)
(* barrier.                                                                *)
OutcomeOnlyWorsens ==
    [][tx.state = "ReleasingPtt" =>
         /\ tx.deferred = "Disabled" =>
               tx'.deferred = "Disabled" \/ tx'.state = "Disabled"
         /\ tx.deferred = "Error" =>
               tx'.state \notin {"Completed", "Cancelled"}
                  /\ tx'.deferred \notin {"Completed", "Cancelled"}]_vars
=============================================================================

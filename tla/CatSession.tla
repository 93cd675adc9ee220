------------------------------- MODULE CatSession ------------------------------
(***************************************************************************)
(* A CAT session: the manager in the thread of the program                 *)
(* (src/src/radio/DecodiumTransceiverManager.cpp), the transceiver in its  *)
(* own (CatTransceiver), the two queues of posted calls between them, and  *)
(* a radio that obeys in its own time, whose operator has a dial and a     *)
(* microphone key, and whose port may fail.                                *)
(*                                                                         *)
(* One profile is configured throughout.  The bridge asks for a frequency  *)
(* or for the PTT only while the manager says it is connected.             *)
(***************************************************************************)
EXTENDS CatTransceiver

CONSTANTS
    Dials,          \* frequencies, from 1 on
    Requests,       \* bound: requests of the bridge
    Connects,       \* bound: connections and disconnections asked for
    Misses,         \* bound: commands, polls and openings that fail
    Turns,          \* bound: what the operator does at the radio
    Reports,        \* bound: reports queued, past which the worker waits
    MaxRetries,     \* maxRetries in scheduleTransientReconnect
    Inherits        \* restoreSatelliteHalfDuplexRx is used

ASSUME CatAssumption ==
    /\ Tolerated \in Nat \ {0} /\ Bursts \in Nat
    /\ Dials \subseteq Nat \ {0} /\ Dials # {}
    /\ Requests \in Nat /\ Connects \in Nat /\ Misses \in Nat /\ Turns \in Nat
    /\ Reports \in Nat \ {0} /\ MaxRetries \in Nat /\ Inherits \in BOOLEAN

VARIABLES
    desired,        \* d->desired
    seqNum,         \* d->seqNum
    present,        \* d->transceiver and d->xcvThread
    connecting, connected,      \* m_connecting, m_connected
    view,           \* m_frequency and m_pttActive
    blocked,        \* m_startupPttBlocked
    guard,          \* the 5 s timer of this session's PTT guard is running
    retryCount,     \* m_transientCatRetryCount
    retryPending,   \* m_transientCatReconnectPending
    disconnecting,  \* m_disconnectInProgress
    reconnectAfter, \* m_reconnectAfterDisconnect
    due,            \* connectRig has been put off to the next turn of the loop:
                    \* "always", or "ifFree" if there is no session then
    calls,          \* posted to the worker
    reports,        \* posted to the manager
    thread,         \* of the worker: "none", "running" or "quitting"
    w, rig,
    asked,          \* the user wants a connection: what was asked for last
    budget          \* what is left of the bounds

session == <<present, connecting, connected, disconnecting, reconnectAfter, due, asked>>
recovery == <<retryCount, retryPending>>
guarding == <<blocked, guard>>
worker == <<thread, w, rig>>
vars == <<desired, seqNum, session, view, guarding, recovery, calls, reports, worker, budget>>

NoCall == [by |-> "start", state |-> Idle, seq |-> 0]

Init == /\ desired = Idle /\ seqNum = 0
        /\ present = FALSE /\ connecting = FALSE /\ connected = FALSE
        /\ disconnecting = FALSE /\ reconnectAfter = FALSE /\ due = {} /\ asked = FALSE
        /\ view = [frequency |-> 0, ptt |-> FALSE]
        /\ blocked = FALSE /\ guard = FALSE
        /\ retryCount = 0 /\ retryPending = FALSE
        /\ calls = <<>> /\ reports = <<>>
        /\ thread = "none" /\ w = NewTransceiver
        /\ rig \in [open : {FALSE}, dial : Dials, dialTo : Dials, tx : {FALSE}, txTo : {FALSE},
                    mic : {FALSE}, ours : {FALSE}, since : {PollsToStabilize}]
        /\ rig.dialTo = rig.dial
        /\ budget = [requests |-> Requests, connects |-> Connects, misses |-> Misses, turns |-> Turns]

Spend(what) == budget[what] > 0 /\ budget' = [budget EXCEPT ![what] = @ - 1]

-----------------------------------------------------------------------------
(* The manager.  A call posted to a thread that has ended is never run.      *)
Post(call) == calls' = IF thread = "none" THEN calls ELSE Append(calls, call)

(* sendState, sendStateAsync *)
SendState(by, state) ==
    IF present
    THEN /\ seqNum' = seqNum + 1
         /\ Post([by |-> by, state |-> state, seq |-> seqNum + 1])
    ELSE UNCHANGED <<seqNum, calls>>

\* Mutant: the attempts are not counted against their limit.
ScheduleEndlessReconnect ==
    IF retryPending THEN UNCHANGED recovery
    ELSE retryCount' = retryCount + 1 /\ retryPending' = TRUE

ScheduleTransientReconnect ==
    IF retryPending THEN UNCHANGED recovery
    ELSE IF retryCount >= MaxRetries THEN retryCount' = 0 /\ UNCHANGED retryPending
    ELSE retryCount' = retryCount + 1 /\ retryPending' = TRUE

\* Mutant: the old session is forgotten at once, while its worker goes on.
StopSessionForgetful(again) ==
    /\ connecting' = FALSE /\ connected' = FALSE /\ desired' = Idle
    /\ present' = FALSE /\ guard' = FALSE
    /\ retryPending' = FALSE /\ reconnectAfter' = again
    /\ Post([NoCall EXCEPT !.by = "stop"])
    /\ UNCHANGED disconnecting

(* disconnectRigInternal with a session: it is there until its thread ends.  *)
StopSession(again) ==
    /\ connecting' = FALSE /\ connected' = FALSE /\ desired' = Idle
    /\ disconnecting' = TRUE
    /\ retryPending' = FALSE /\ reconnectAfter' = again
    /\ Post([NoCall EXCEPT !.by = "stop"])
    /\ UNCHANGED <<present, guard>>

DisconnectRigInternal(again) ==
    IF present /\ ~disconnecting THEN StopSession(again) /\ UNCHANGED due
    ELSE /\ retryPending' = FALSE
         /\ reconnectAfter' = (again /\ disconnecting)
         /\ connecting' = (connecting /\ disconnecting)
         /\ due' = IF again /\ ~disconnecting THEN due \cup {"always"} ELSE due
         /\ UNCHANGED <<present, guard, connected, desired, disconnecting, calls>>

(* connectRig past its guards: a thread and a transceiver, and start queued. *)
NewSession ==
    /\ present' = TRUE /\ connecting' = TRUE
    /\ desired' = [Idle EXCEPT !.online = TRUE]
    /\ blocked' = TRUE /\ guard' = TRUE
    /\ seqNum' = seqNum + 1
    /\ calls' = <<[NoCall EXCEPT !.seq = seqNum + 1]>>
    /\ thread' = "running" /\ w' = NewTransceiver
    /\ UNCHANGED <<connected, disconnecting, reconnectAfter, recovery, rig>>

(* connectRig.  An attempt that has lasted long enough is begun anew; a      *)
(* serial port that is not there is tried again later.                       *)
ConnectRig(there, stale) ==
    IF disconnecting
    THEN /\ reconnectAfter' = TRUE
         /\ UNCHANGED <<desired, seqNum, present, connecting, connected, disconnecting,
                        guarding, recovery, calls, worker>>
    ELSE IF ~present
    THEN IF there THEN NewSession
         ELSE /\ ScheduleTransientReconnect
              /\ UNCHANGED <<desired, seqNum, present, connecting, connected, disconnecting,
                             reconnectAfter, guarding, calls, worker>>
    ELSE IF connecting /\ ~connected /\ ~stale
    THEN UNCHANGED <<desired, seqNum, present, connecting, connected, disconnecting,
                     reconnectAfter, guarding, recovery, calls, worker>>
    ELSE StopSession(TRUE) /\ UNCHANGED <<seqNum, blocked, retryCount, worker>>

(* The port is looked for only without a session. *)
Missed(there) == IF there THEN 0 ELSE 1
PortLookedFor(there) == ~there => ~present /\ ~disconnecting /\ budget.misses > 0

(* The user, or the bridge for him, asks for a connection. *)
Connect(there, stale) ==
    /\ PortLookedFor(there)
    /\ budget.connects > 0
    /\ budget' = [budget EXCEPT !.connects = @ - 1, !.misses = @ - Missed(there)]
    /\ ConnectRig(there, stale)
    /\ asked' = TRUE
    /\ UNCHANGED <<due, view, reports>>

(* The turn of the loop to which a connection was put off; the slot of       *)
(* QThread::finished puts it off on condition that there is no session then. *)
Reconnect(how, there) ==
    /\ how \in due /\ due' = due \ {how}
    /\ PortLookedFor(there)
    /\ budget' = [budget EXCEPT !.misses = @ - Missed(there)]
    /\ IF how = "ifFree" /\ present
       THEN UNCHANGED <<desired, seqNum, present, connecting, connected, disconnecting,
                        reconnectAfter, guarding, recovery, calls, worker>>
       ELSE ConnectRig(there, FALSE)
    /\ UNCHANGED <<asked, view, reports>>

(* disconnectRig *)
Disconnect ==
    /\ Spend("connects")
    /\ DisconnectRigInternal(FALSE)
    /\ asked' = FALSE
    /\ UNCHANGED <<seqNum, view, blocked, retryCount, reports, worker>>

(* restartTransientCatConnectionNonBlocking *)
RetryTimer ==
    /\ retryPending
    /\ DisconnectRigInternal(TRUE)
    /\ UNCHANGED <<asked, seqNum, view, blocked, retryCount, reports, worker, budget>>

GuardTimer ==
    /\ guard /\ guard' = FALSE
    /\ blocked' = (blocked /\ ~connected)
    /\ UNCHANGED <<desired, seqNum, session, view, recovery, calls, reports, worker, budget>>

Request(by, state) ==
    /\ connected
    /\ Spend("requests")
    /\ desired' = state
    /\ SendState(by, state)

\* Mutant: the PTT read last is sent with the frequency.
SetRigFrequencyKeyed(f) ==
    /\ ~(desired.frequency = f /\ view.frequency = f)
    /\ Request("frequency", [desired EXCEPT !.frequency = f])
    /\ UNCHANGED <<session, view, guarding, recovery, reports, worker>>

SetRigFrequency(f) ==
    /\ ~(desired.frequency = f /\ view.frequency = f)
    /\ Request("frequency", [desired EXCEPT !.frequency = f, !.ptt = FALSE])
    /\ UNCHANGED <<session, view, guarding, recovery, reports, worker>>

SetRigPtt(on) ==
    /\ ~(on /\ blocked)
    /\ Request("ptt", [desired EXCEPT !.ptt = on])
    /\ UNCHANGED <<session, view, guarding, recovery, reports, worker>>

(* restoreSatelliteHalfDuplexRx *)
RestoreRx(f) ==
    /\ Inherits
    /\ Request("restore", [desired EXCEPT !.frequency = f])
    /\ view' = [view EXCEPT !.frequency = f]
    /\ UNCHANGED <<session, guarding, recovery, reports, worker>>

-----------------------------------------------------------------------------
(* What the worker has posted reaches the manager.                           *)

\* Mutant: a report that has crossed a request is taken for the outcome.
HandleUpdateCrossed(r) ==
    /\ desired' = r.state
    /\ connected' = r.state.online
    /\ connecting' = (connecting /\ connected = r.state.online)
    /\ retryCount' = IF r.state.online /\ ~connected THEN 0 ELSE retryCount
    /\ retryPending' = (retryPending /\ (connected \/ ~r.state.online))
    /\ view' = [frequency |-> IF r.state.frequency > 0 THEN r.state.frequency ELSE view.frequency,
                ptt |-> r.state.ptt]
    /\ UNCHANGED <<present, disconnecting, reconnectAfter, due, guard>>

(* The slot of Transceiver::update *)
HandleUpdate(r) ==
    LET became == r.state.online /\ ~connected
    IN /\ desired' = IF r.seq < seqNum THEN desired ELSE r.state
       /\ connected' = r.state.online
       /\ connecting' = (connecting /\ connected = r.state.online)
       /\ retryCount' = IF became THEN 0 ELSE retryCount
       /\ retryPending' = (retryPending /\ ~became)
       /\ view' = [frequency |-> IF r.state.frequency > 0 THEN r.state.frequency ELSE view.frequency,
                   ptt |-> r.state.ptt]
       /\ UNCHANGED <<present, disconnecting, reconnectAfter, due, guard>>

(* The slot of Transceiver::failure.  The first attempt of a session is not  *)
(* tried again, nor is one that failed at its PTT, nor any other that the    *)
(* words of the failure do not show to be transient.                         *)
HandleFailure(kind) ==
    LET startupAttempt == connecting /\ ~connected
    IN /\ connecting' = FALSE /\ connected' = FALSE
       /\ desired' = [desired EXCEPT !.online = FALSE]
       /\ \/ /\ ~startupAttempt /\ (connected \/ retryCount > 0) /\ kind = "failure"
             /\ ScheduleTransientReconnect
          \/ UNCHANGED recovery
       /\ UNCHANGED <<view, present, disconnecting, reconnectAfter, due, guard>>

\* Mutant: on the way to a reconnection the disconnection is not ended.
HandleFinishedReturning ==
    /\ present' = FALSE /\ guard' = FALSE
    /\ desired' = Idle /\ connecting' = FALSE /\ connected' = FALSE
    /\ disconnecting' = reconnectAfter /\ reconnectAfter' = FALSE
    /\ due' = IF reconnectAfter THEN due \cup {"ifFree"} ELSE due
    /\ UNCHANGED <<view, recovery>>

(* The slot of QThread::finished *)
HandleFinished ==
    /\ present' = FALSE /\ guard' = FALSE
    /\ desired' = Idle /\ connecting' = FALSE /\ connected' = FALSE
    /\ disconnecting' = FALSE /\ reconnectAfter' = FALSE
    /\ due' = IF reconnectAfter THEN due \cup {"ifFree"} ELSE due
    /\ UNCHANGED <<view, recovery>>

Receive ==
    /\ reports # <<>>
    /\ reports' = Tail(reports)
    /\ CASE Head(reports).kind = "update"   -> HandleUpdate(Head(reports))
         [] Head(reports).kind = "finished" -> HandleFinished
         [] OTHER                           -> HandleFailure(Head(reports).kind)
    /\ UNCHANGED <<asked, seqNum, blocked, calls, worker, budget>>

-----------------------------------------------------------------------------
(* The worker *)

Become(m) == w' = m.w /\ rig' = m.rig /\ reports' = reports \o m.out

Machine == [w |-> w, rig |-> rig, out |-> <<>>]

Cost(o) == IF o.heard THEN 0 ELSE 1

Run(call, opens, o, rel) ==
    CASE call.by = "start" -> Start(Machine, call.seq, opens, o, rel)
      [] call.by = "stop"  -> Shutdown(Machine, rel)
      [] OTHER             -> Set(Machine, call.state, call.seq, opens, o, rel)

(* A posted call.  The calls posted before a stop has been run are run in    *)
(* the same turn of the loop.                                                *)
RunCall(opens, o, rel) ==
    /\ thread # "none" /\ calls # <<>> /\ Len(reports) < Reports
    /\ LET cost == Cost(o) + Cost(rel) + (IF opens THEN 0 ELSE 1)
       IN /\ cost <= budget.misses
          /\ budget' = [budget EXCEPT !.misses = @ - cost]
    /\ \E m \in {Run(Head(calls), opens, o, rel)} : Become(m)
    /\ calls' = Tail(calls)
    /\ thread' = IF Head(calls).by = "stop" THEN "quitting" ELSE thread
    /\ UNCHANGED <<desired, seqNum, session, view, guarding, recovery>>

(* The loop ends; what was posted too late for it is dropped.  A request run *)
(* after the stop has opened the port anew: the destructor closes it         *)
(* (RIGDeleter, HamlibTransceiver.cpp:347, by rig_cleanup of the library).   *)
Finish ==
    /\ thread = "quitting" /\ thread' = "none"
    /\ calls' = <<>>
    /\ reports' = Append(reports, Report("finished", Idle, 0))
    /\ rig' = [rig EXCEPT !.open = FALSE]
    /\ UNCHANGED <<desired, seqNum, session, view, guarding, recovery, w, budget>>

Poll(got, rel) ==
    /\ thread = "running" /\ w.polling /\ Len(reports) < Reports
    /\ LET cost == Cost(rel) + (IF got = "all" THEN 0 ELSE 1)
       IN /\ cost <= budget.misses
          /\ budget' = [budget EXCEPT !.misses = @ - cost]
    /\ \E m \in {HandleTimeout(Machine, got, rel)} : Become(m)
    /\ UNCHANGED <<desired, seqNum, session, view, guarding, recovery, calls, thread>>

Burst ==
    /\ thread = "running" /\ w.bursts > 0 /\ Len(reports) < Reports
    /\ Become(PollTransmitTelemetry(Machine))
    /\ UNCHANGED <<desired, seqNum, session, view, guarding, recovery, calls, thread, budget>>

-----------------------------------------------------------------------------
(* The radio *)

RigStep(r) ==
    /\ rig' = r
    /\ UNCHANGED <<desired, seqNum, session, view, guarding, recovery, calls, reports, thread, w>>

Obey ==
    /\ rig.dial # rig.dialTo \/ rig.tx # rig.txTo
    /\ RigStep([rig EXCEPT !.dial = rig.dialTo, !.tx = rig.txTo])
    /\ UNCHANGED budget

(* The operator turns the dial, takes the microphone or puts it down.        *)
Turn(f) == f # rig.dialTo /\ Spend("turns") /\ RigStep([rig EXCEPT !.dial = f, !.dialTo = f])
Microphone == Spend("turns") /\ RigStep([rig EXCEPT !.mic = ~@])

(* The radio ends a transmission by itself.                                  *)
TimeOut == /\ rig.tx /\ Spend("turns")
           /\ RigStep([rig EXCEPT !.tx = FALSE, !.txTo = FALSE])

-----------------------------------------------------------------------------
Gui == \/ \E there, stale \in BOOLEAN : Connect(there, stale)
       \/ Disconnect
       \/ \E how \in {"always", "ifFree"}, there \in BOOLEAN : Reconnect(how, there)
       \/ RetryTimer
       \/ GuardTimer
       \/ \E f \in Dials : SetRigFrequency(f) \/ RestoreRx(f)
       \/ \E on \in BOOLEAN : SetRigPtt(on)
       \/ Receive

Worker == \/ \E opens \in BOOLEAN, o, rel \in Outcomes : RunCall(opens, o, rel)
          \/ Finish
          \/ \E got \in {"all", "dial", "none"}, rel \in Outcomes : Poll(got, rel)
          \/ Burst

Radio == Obey \/ (\E f \in Dials : Turn(f)) \/ Microphone \/ TimeOut

Next == Gui \/ Worker \/ Radio

Spec == Init /\ [][Next]_vars

(* Both event loops run, the poll timer fires and the radio obeys.           *)
FairSpec == /\ Spec
            /\ WF_vars(Receive) /\ WF_vars(Obey) /\ WF_vars(Finish)
            /\ WF_vars(\E how \in {"always", "ifFree"}, there \in BOOLEAN : Reconnect(how, there))
            /\ WF_vars(\E opens \in BOOLEAN, o, rel \in Outcomes : RunCall(opens, o, rel))
            /\ WF_vars(\E got \in {"all", "dial", "none"}, rel \in Outcomes : Poll(got, rel))

-----------------------------------------------------------------------------
(* Properties *)

(* The variables have their types; the queues stay bounded.                  *)
States == [online : BOOLEAN, frequency : Dials \cup {0}, ptt : BOOLEAN]
TypeOK ==
    /\ desired \in States /\ seqNum \in Nat
    /\ {present, connecting, connected, disconnecting, reconnectAfter, asked,
        blocked, guard, retryPending} \subseteq BOOLEAN
    /\ due \subseteq {"always", "ifFree"}
    /\ view \in [frequency : Dials \cup {0}, ptt : BOOLEAN]
    /\ retryCount \in 0 .. MaxRetries
    /\ \A i \in DOMAIN calls :
          calls[i] \in [by : {"start", "stop", "frequency", "ptt", "restore"},
                       state : States, seq : 0 .. seqNum]
    /\ \A i \in DOMAIN reports :
          reports[i] \in [kind : {"update", "failure", "pttFailure", "finished"},
                         state : States, seq : 0 .. seqNum]
    /\ thread \in {"none", "running", "quitting"}
    /\ w \in [requested : States, actual : States, last : States, next : States,
              signalled : States, seq : 0 .. seqNum, retries : 0 .. PollsToStabilize,
              failures : 0 .. Tolerated - 1, polling : BOOLEAN, fast : BOOLEAN,
              pttOn : BOOLEAN, bursts : 0 .. Bursts]
    /\ rig \in [open : BOOLEAN, dial : Dials, dialTo : Dials, tx : BOOLEAN, txTo : BOOLEAN,
                mic : BOOLEAN, ours : BOOLEAN, since : 0 .. PollsToStabilize]

(* While a request is on its way to the worker, no report of what the radio  *)
(* did before changes the state that the next request will be made of        *)
(* (DecodiumTransceiverManager.cpp:2195).                                    *)
RequestsSurvive ==
    LET sent == {i \in DOMAIN calls : calls[i].by \in {"frequency", "ptt", "restore"}}
    IN sent # {} /\ ~disconnecting =>
         LET newest == calls[CHOOSE i \in sent : \A j \in sent : j <= i].state
         IN desired.frequency = newest.frequency /\ desired.ptt = newest.ptt

(* The worker keys the radio for a request to transmit and for no other,     *)
(* whatever PTT the reports in between have brought                          *)
(* (DecodiumTransceiverManager.cpp:2690, 2948).                              *)
KeysOnlyWhenAsked ==
    [][~rig.txTo /\ rig'.txTo => Head(calls).by = "ptt" /\ Head(calls).state.ptt]_vars

(* A PTT keyed in this session, and not yet released by an order obeyed, is  *)
(* still requested for the worker: without that a request to release would   *)
(* send nothing (TransceiverBase.cpp:185, HamlibTransceiver.cpp:2586).       *)
KeyedIsRemembered == rig.open /\ rig.txTo /\ rig.ours => w.requested.ptt

(* What the manager and the worker, each with calls and reports of the other *)
(* still to come, know of what was asked of the radio.                       *)
RequestInv == RequestsSurvive /\ KeyedIsRemembered

(* In the polls after a new frequency was commanded, while the radio has not *)
(* got there, no poll reports another dial                                   *)
(* (PollingTransceiver.hpp:24).                                              *)
NoStepBack ==
    [][\A i \in Len(reports) + 1 .. Len(reports') :
          /\ calls' = calls
          /\ rig'.since < PollsToStabilize
          /\ rig'.dial # rig'.dialTo
          /\ reports'[i].kind = "update"
          /\ reports'[i].state.frequency > 0
          => reports'[i].state.frequency = rig'.dialTo]_vars

(* After a poll that was answered, unless a change is withheld, the manager  *)
(* has been told what the worker knows (PollingTransceiver.hpp:74).          *)
NothingUnsaid ==
    [][calls' = calls /\ w' # w /\ w'.polling /\ w'.failures = 0 /\ w'.retries = 0
         => w'.actual = w'.last]_vars

(* A poll tells what there is to tell, and not what is being undone.         *)
PollsTell == NoStepBack /\ NothingUnsaid

(* When neither queue holds anything, the manager says connected just when   *)
(* the worker is (DecodiumTransceiverManager.cpp:2255).                      *)
AgreeWhenQuiet ==
    calls = <<>> /\ reports = <<>> /\ thread # "quitting"
       => (connected <=> thread = "running" /\ w.requested.online)

(* What losses of the radio, reconnections and disconnections leave true.    *)
LinkInv == TypeOK /\ AgreeWhenQuiet

(* A session begins only when the thread of the one before has ended         *)
(* (doc/GITHUB_RELEASE_BODY_1.0.535.md:20).                                  *)
OneAfterTheOther == [][~connecting /\ connecting' => thread = "none"]_vars

(* A disconnection comes to its end, and with it the right to connect again. *)
DisconnectEnds == disconnecting ~> ~disconnecting

(* In the end the program, when it says it is connected, shows whether the   *)
(* radio transmits and, if it does not, its dial                             *)
(* (PollingTransceiver.cpp:245).                                             *)
Settles ==
    LET on == rig.tx \/ rig.mic
    IN <>[](connected => view.ptt = on /\ (~on => view.frequency = rig.dial))
=============================================================================

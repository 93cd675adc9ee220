------------------------------ MODULE SstvRxRuntime -----------------------------
(***************************************************************************)
(* The receiver of SSTV pictures (src/src/sstv/integration): the thread    *)
(* that owns it and calls start, switchSource, resetStream, cancel,        *)
(* restart, stop and shutdown, the thread that decodes, and the callback   *)
(* that brings the audio, with the bounded queue, the two condition        *)
(* variables and the mutexes between them.                                 *)
(*                                                                         *)
(* A step of the model ends where another thread can come between.  What   *)
(* is done with several mutexes held, none of them waited for elsewhere    *)
(* with a mutex of these held, is one step.  Decoding is left out but for  *)
(* what it publishes: a picture may be open after a block or not, a VIS    *)
(* code may have been heard or not, and it may throw.                      *)
(***************************************************************************)
EXTENDS Integers, Sequences

CONSTANTS
    Sizes,          \* of a block, in samples
    MaximumChunks, MaximumSamples,   \* m_maximumChunks, m_maximumSamples
    Calls,          \* bound: calls of the owner
    Blocks,         \* bound: blocks accepted in a generation
    Codes,          \* bound: VIS codes heard
    Failures        \* the decoder may throw

ASSUME RxAssumption == /\ MaximumChunks \in Nat \ {0} /\ MaximumSamples \in Nat \ {0}
                       /\ Sizes \subseteq 1 .. MaximumSamples
                       /\ Calls \in Nat /\ Blocks \in Nat /\ Codes \in Nat
                       /\ Failures \in BOOLEAN

VARIABLES
    state,      \* m_state
    stop,       \* m_stopRequested
    requested,  \* m_lifecycleBoundaryRequested
    route,      \* m_route.generation
    op, at,     \* the call the owner is in, and where in it
    calls,
    ingress,    \* SstvAudioIngress::m_state
    gen,        \* m_generation
    next,       \* m_nextSequence
    queue,      \* m_slots from m_head on
    cancelled,  \* m_cancelled of the queue
    epoch,      \* m_wakeEpoch
    w,          \* where the worker is, and where an await leads to
    awake,      \* it has been notified
    hand,       \* the block it has popped
    seen,       \* observedEpoch in waitPop, generation after it
    pipe,       \* WorkerPipeline: its generation, and whether a picture is open
    decoded,    \* the block decoded last
    image,      \* m_snapshot.image: the generation of the picture, 0 if none
    vis,        \* m_pendingVisGeneration, 0 if none is pending
    codes,      \* VIS codes heard
    emitted,    \* VIS codes the observers were told of
    fault,      \* m_workerErrorNotificationPending
    ahead       \* blocks the worker has begun since the owner asked for the boundary

owner == <<state, stop, requested, route, op, at, calls>>
intake == <<ingress, gen, next, queue, cancelled, epoch>>
worker == <<w, awake, hand, seen, pipe>>
results == <<decoded, image, vis, codes, emitted, fault>>
vars == <<owner, intake, worker, results, ahead>>

None == [gen |-> 0, seq |-> 0, size |-> 0]
At(place) == [at |-> place, to |-> "-"]

Init == /\ state = "Inactive" /\ stop = FALSE /\ requested = FALSE /\ route = 0
        /\ op = "none" /\ at = "-" /\ calls = 0
        /\ ingress = "Inactive" /\ gen = 0 /\ next = 0
        /\ queue = <<>> /\ cancelled = FALSE /\ epoch = 0
        /\ w = At("none") /\ awake = FALSE /\ hand = None /\ seen = 0
        /\ pipe = [gen |-> 0, open |-> FALSE]
        /\ decoded = None /\ image = 0 /\ vis = 0 /\ codes = 0 /\ emitted = 0
        /\ fault = FALSE /\ ahead = 0

\* Mutant: the decoder works outside the boundary.
BoundaryNotHeld == w.at \in {"terminating", "clearing"}

(* The mutexes the worker holds between two of its steps *)
BoundaryHeld == w.at \in {"terminating", "clearing", "decoding"}
ControlHeld == w.at = "holding"

-----------------------------------------------------------------------------
(* The condition variables.  A thread that sleeps on one is told, and will  *)
(* evaluate its condition again.                                            *)

\* Mutant: only a sleeper of the queue is told.
NotifyQueueOnly(place) == awake' = (awake \/ (w.at = place /\ place = "asleep"))

\* Mutant: only a sleeper of the control condition is told.
NotifyControlOnly(place) == awake' = (awake \/ (w.at = place /\ place = "dozing"))

Notify(place) == awake' = (awake \/ w.at = place)

NotifyControlWaiters == ~ControlHeld /\ Notify("dozing")

-----------------------------------------------------------------------------
(* The callback that brings audio.  Its whole path runs under the mutex of  *)
(* the timestamps, which every call of the owner takes too.                 *)

(* m_queuedSamples *)
Samples(s) ==
    LET sum[i \in 0 .. Len(s)] == IF i = 0 THEN 0 ELSE sum[i - 1] + s[i].size
    IN sum[Len(s)]

\* Mutant: the number of samples is not bounded.
MakeRoomForBlocks(s, size) == IF Len(s) < MaximumChunks THEN s ELSE Tail(s)

(* The oldest blocks go until the new one has its place. *)
MakeRoom(s, size) ==
    LET Fits(i) == /\ Len(s) - i < MaximumChunks
                   /\ Samples(SubSeq(s, i + 1, Len(s))) + size <= MaximumSamples
        k == CHOOSE i \in 0 .. Len(s) : Fits(i) /\ \A j \in 0 .. i - 1 : ~Fits(j)
    IN SubSeq(s, k + 1, Len(s))

Accepts(token) == /\ state = "Running" /\ token = route
                  /\ ingress = "Active" /\ token = gen /\ ~cancelled

(* enqueuePcm16At, enqueuePcm16 and push *)
EnqueuePcm16(token, size) ==
    /\ Accepts(token)
    /\ next < Blocks
    /\ queue' = Append(MakeRoom(queue, size), [gen |-> token, seq |-> next, size |-> size])
    /\ next' = next + 1
    /\ Notify("asleep")
    /\ UNCHANGED <<owner, ingress, gen, cancelled, epoch, w, hand, seen, pipe, results, ahead>>

-----------------------------------------------------------------------------
(* The owner *)

(* activateSource, switchSource, resetStream and restart of the ingress,    *)
(* and the route the producers compare their tokens with                    *)
NewGeneration ==
    /\ ingress' = "Active" /\ gen' = gen + 1 /\ next' = 0 /\ route' = gen + 1
    /\ queue' = <<>> /\ cancelled' = FALSE /\ epoch' = epoch + 1

(* cancel, deactivate and shutdown of the ingress *)
Close(closed) ==
    /\ ingress' = closed /\ next' = 0
    /\ queue' = <<>> /\ cancelled' = TRUE /\ epoch' = epoch + 1
    /\ UNCHANGED gen

Start == /\ op = "none" /\ calls < Calls
         /\ state = "Inactive" /\ w.at = "none"
         /\ calls' = calls + 1
         /\ NewGeneration
         /\ image' = 0
         /\ stop' = FALSE /\ state' = "Running" /\ w' = At("begin")
         /\ UNCHANGED <<requested, op, at, awake, hand, seen, pipe, decoded, vis, codes, emitted, fault, ahead>>

(* The thread cannot be made. *)
StartFails ==
    /\ Failures
    /\ op = "none" /\ calls < Calls
    /\ state = "Inactive" /\ w.at = "none"
    /\ calls' = calls + 1
    /\ ingress' = "Inactive" /\ gen' = gen + 1 /\ next' = 0 /\ route' = 0
    /\ queue' = <<>> /\ cancelled' = TRUE /\ epoch' = epoch + 2
    /\ image' = 0
    /\ stop' = TRUE /\ state' = "Error" /\ fault' = TRUE
    /\ UNCHANGED <<requested, op, at, worker, decoded, vis, codes, emitted, ahead>>

Ending == {"stop", "shutdown"}

MayCall(o) == CASE o = "switch" -> state \in {"Running", "Cancelled"}
                [] o = "reset" -> state = "Running"
                [] o = "cancel" -> state = "Running"
                [] o = "restart" -> state = "Cancelled"
                [] o = "stop" -> state \notin {"Inactive", "Shutdown", "Stopping"}
                [] o = "shutdown" -> state # "Shutdown"

Call(o) == /\ op = "none" /\ calls < Calls /\ MayCall(o)
           /\ op' = o /\ at' = "request" /\ calls' = calls + 1
           /\ IF o \in Ending THEN state' = "Stopping" /\ stop' = TRUE ELSE UNCHANGED <<state, stop>>
           /\ UNCHANGED <<requested, route, intake, worker, results, ahead>>

(* LifecycleBoundaryRequest, made *)
Request == /\ at = "request"
           /\ requested' = TRUE /\ NotifyControlWaiters
           /\ at' = "cut" /\ ahead' = 0
           /\ UNCHANGED <<state, stop, route, op, calls, intake, w, hand, seen, pipe, results>>

(* What is done with the boundary and the timestamps held.  The state of    *)
(* the ingress follows that of the runtime (Agree), so the ingress refuses  *)
(* none of these calls.                                                     *)
Cut == /\ at = "cut" /\ ~BoundaryHeld
       /\ \/ op \in {"switch", "reset", "restart"} /\ NewGeneration
          \/ op = "cancel" /\ Close("Cancelled") /\ UNCHANGED route
          \/ /\ op = "stop" /\ route' = 0
             /\ IF ingress = "Inactive" THEN UNCHANGED intake ELSE Close("Inactive")
          \/ op = "shutdown" /\ Close("Shutdown") /\ route' = 0
       /\ Notify("asleep")
       /\ image' = 0
       /\ at' = "release"
       /\ UNCHANGED <<state, stop, requested, op, calls, w, hand, seen, pipe,
                      decoded, vis, codes, emitted, fault, ahead>>

(* LifecycleBoundaryRequest, destroyed *)
Release == /\ at = "release"
           /\ requested' = FALSE /\ NotifyControlWaiters
           /\ at' = IF op \in Ending \cup {"reset"} THEN "notify" ELSE "publish"
           /\ UNCHANGED <<state, stop, route, op, calls, intake, w, hand, seen, pipe, results, ahead>>

SetStateOnOwner ==
    /\ at = "publish"
    /\ state' = IF op = "cancel" THEN "Cancelled" ELSE "Running"
    /\ at' = "notify"
    /\ UNCHANGED <<stop, requested, route, op, calls, intake, worker, results, ahead>>

Return == op' = "none" /\ at' = "-"

NotifyAtTheEnd ==
    /\ at = "notify" /\ NotifyControlWaiters
    /\ IF op \in Ending THEN at' = "join" /\ UNCHANGED op ELSE Return
    /\ UNCHANGED <<state, stop, requested, route, calls, intake, w, hand, seen, pipe, results, ahead>>

\* Mutant: the thread is not waited for.
NotJoined == /\ at = "join"
             /\ state' = (IF op = "stop" THEN "Inactive" ELSE "Shutdown")
             /\ Return
             /\ UNCHANGED <<stop, requested, route, calls, intake, worker, results, ahead>>

JoinWorker ==
    /\ at = "join" /\ w.at \in {"none", "dead"}
    /\ w' = At("none")
    /\ state' = (IF op = "stop" THEN "Inactive" ELSE "Shutdown")
    /\ Return
    /\ UNCHANGED <<stop, requested, route, calls, intake, awake, hand, seen, pipe, results, ahead>>

\* Mutant: a code heard before the stream was cut is told of.
DeliversAnyVis == state = "Running"

DeliversVis == state = "Running" /\ route = vis

(* deliverVisNotification and deliverWorkerErrorNotification, on the loop   *)
(* of the owner                                                             *)
DeliverVis == /\ op = "none" /\ vis # 0
              /\ emitted' = IF DeliversVis THEN emitted + 1 ELSE emitted
              /\ vis' = 0
              /\ UNCHANGED <<owner, intake, worker, decoded, image, codes, fault, ahead>>

DeliverWorkerError == /\ op = "none" /\ fault
                      /\ fault' = FALSE
                      /\ UNCHANGED <<owner, intake, worker, decoded, image, vis, codes, emitted, ahead>>

-----------------------------------------------------------------------------
(* The worker *)

Go(place) == w' = At(place)
Gate(to) == w' = [at |-> "gate", to |-> to]
StopOr(place) == Go(IF stop THEN "ending" ELSE place)

\* Mutant: the worker does not stand back for a call.
NeverBack == /\ w.at = "gate"
             /\ StopOr(w.to)
             /\ UNCHANGED <<owner, intake, awake, hand, seen, pipe, results, ahead>>

(* awaitLifecycleBoundary, and the look at the stop around it *)
AwaitLifecycleBoundary ==
    /\ w.at = "gate"
    /\ IF requested /\ ~stop THEN w' = [w EXCEPT !.at = "lock"] ELSE StopOr(w.to)
    /\ UNCHANGED <<owner, intake, awake, hand, seen, pipe, results, ahead>>

(* What the worker waits for under m_controlMutex: the end of a call, or,   *)
(* to go round "again", the end of the cancellation it was told of *)
Ready == \/ stop
         \/ IF w.to = "again" THEN ingress # "Cancelled" \/ gen # seen ELSE ~requested

EvaluateCondition ==
    /\ w.at = "lock"
    /\ IF ~Ready THEN w' = [w EXCEPT !.at = "holding"]
       ELSE IF w.to = "again" THEN Gate("pop") ELSE StopOr(w.to)
    /\ UNCHANGED <<owner, intake, awake, hand, seen, pipe, results, ahead>>

Sleep == /\ w.at = "holding"
         /\ w' = [w EXCEPT !.at = "dozing"] /\ awake' = FALSE
         /\ UNCHANGED <<owner, intake, hand, seen, pipe, results, ahead>>

WakeUp == /\ w.at = "dozing" /\ awake
          /\ w' = [w EXCEPT !.at = "lock"] /\ awake' = FALSE
          /\ UNCHANGED <<owner, intake, hand, seen, pipe, results, ahead>>

(* waitPop, at its condition: observed is the epoch at its entry *)
Take(observed) ==
    /\ awake' = FALSE
    /\ \/ /\ cancelled \/ epoch # observed
          /\ Gate("chosen") /\ hand' = None /\ seen' = 0 /\ UNCHANGED queue
       \/ /\ ~cancelled /\ epoch = observed /\ queue # <<>>
          /\ hand' = Head(queue) /\ queue' = Tail(queue)
          /\ Gate("chosen") /\ seen' = 0
       \/ /\ ~cancelled /\ epoch = observed /\ queue = <<>>
          /\ Go("asleep") /\ seen' = observed /\ UNCHANGED <<queue, hand>>

WaitPop == /\ \/ w.at = "pop" /\ Take(epoch)
              \/ w.at = "asleep" /\ awake /\ Take(seen)
           /\ UNCHANGED <<owner, ingress, gen, next, cancelled, epoch, pipe, results, ahead>>

(* waitPop was cancelled: the pipeline is reset.  The generation is read    *)
(* before the boundary is taken.                                            *)
Cancelled == /\ w.at = "chosen" /\ hand = None
             /\ seen' = gen /\ Go("reset")
             /\ UNCHANGED <<owner, intake, awake, hand, pipe, results, ahead>>

Reset == /\ w.at = "reset"
         /\ Go("terminating")
         /\ UNCHANGED <<owner, intake, awake, hand, seen, pipe, results, ahead>>

Live(block) == block # None /\ ingress = "Active" /\ block.gen = gen

(* A block was popped: the boundary is taken, and the block is looked at.   *)
Chosen ==
    /\ w.at = "chosen" /\ hand # None
    /\ IF stop THEN Go("ending") /\ UNCHANGED <<hand, ahead>>
       ELSE /\ hand' = IF Live(hand) \/ pipe.gen # gen THEN hand ELSE None
            /\ ahead' = IF Live(hand) /\ requested THEN ahead + 1 ELSE ahead
            /\ IF pipe.gen # gen THEN Go("terminating")
               ELSE IF Live(hand) THEN Go("decoding")
               ELSE Gate("pop")
    /\ seen' = IF pipe.gen # gen THEN gen ELSE 0
    /\ UNCHANGED <<owner, intake, awake, pipe, results>>

(* The picture published when what is open is closed                        *)
ClosedImage == IF pipe.open THEN pipe.gen ELSE image

(* resetWorkerPipeline: an open picture is closed and published, ...        *)
Terminate ==
    /\ w.at = "terminating"
    /\ image' = ClosedImage
    /\ pipe' = [pipe EXCEPT !.open = FALSE]
    /\ Go("clearing")
    /\ UNCHANGED <<owner, intake, awake, hand, seen, decoded, vis, codes, emitted, fault, ahead>>

\* Mutant: the picture closed stays published.
ClearKeepsImage ==
    /\ w.at = "clearing"
    /\ pipe' = [gen |-> seen, open |-> FALSE]
    /\ hand' = (IF Live(hand) THEN hand ELSE None)
    /\ seen' = (IF hand = None THEN seen ELSE 0)
    /\ IF Live(hand) THEN Go("decoding")
       ELSE IF hand = None THEN w' = [at |-> "lock", to |-> "again"] ELSE Gate("pop")
    /\ UNCHANGED <<owner, intake, awake, results, ahead>>

(* ... everything is made anew, and what was published is withdrawn.  Then  *)
(* the block at hand is decoded, or dropped as stale, or, when there is     *)
(* none, the end of the cancellation is waited for.                         *)
Clear ==
    /\ w.at = "clearing"
    /\ pipe' = [gen |-> seen, open |-> FALSE] /\ image' = 0
    /\ hand' = (IF Live(hand) THEN hand ELSE None)
    /\ seen' = (IF hand = None THEN seen ELSE 0)
    /\ IF Live(hand) THEN Go("decoding")
       ELSE IF hand = None THEN w' = [at |-> "lock", to |-> "again"] ELSE Gate("pop")
    /\ UNCHANGED <<owner, intake, awake, decoded, vis, codes, emitted, fault, ahead>>

(* The same before the first block; nothing is open yet. *)
Begin == /\ w.at = "begin"
         /\ pipe' = [gen |-> gen, open |-> FALSE] /\ image' = 0
         /\ Gate("pop")
         /\ UNCHANGED <<owner, intake, awake, hand, seen, decoded, vis, codes, emitted, fault, ahead>>

(* processChunk *)
ProcessChunk ==
    /\ w.at = "decoding"
    /\ \E open, heard \in BOOLEAN :
         /\ heard => codes < Codes
         /\ vis' = IF heard THEN hand.gen ELSE vis
         /\ codes' = IF heard THEN codes + 1 ELSE codes
         /\ image' = IF open \/ pipe.open THEN pipe.gen ELSE image
         /\ pipe' = [pipe EXCEPT !.open = open]
    /\ decoded' = hand /\ hand' = None
    /\ Gate("pop")
    /\ UNCHANGED <<owner, intake, awake, seen, emitted, fault, ahead>>

(* The worker leaves its loop; a picture that is open is closed. *)
End == /\ w.at = "ending"
       /\ image' = ClosedImage
       /\ pipe' = [pipe EXCEPT !.open = FALSE] /\ hand' = None /\ seen' = 0
       /\ Go("dead")
       /\ UNCHANGED <<owner, intake, awake, decoded, vis, codes, emitted, fault, ahead>>

(* The decoder throws, and lets go of what it holds.                        *)
Throw == /\ Failures /\ w.at \in {"begin", "terminating", "clearing", "decoding",
                                 "ending"}
         /\ hand' = None /\ pipe' = [pipe EXCEPT !.open = FALSE] /\ seen' = 0
         /\ Go("failing")
         /\ UNCHANGED <<owner, intake, awake, results, ahead>>

RecordWorkerFailure ==
    /\ w.at = "failing"
    /\ state' = "Error" /\ stop' = TRUE /\ fault' = TRUE
    /\ Go("dead")
    /\ UNCHANGED <<requested, route, op, at, calls, intake, awake, hand, seen, pipe,
                   decoded, image, vis, codes, emitted, ahead>>

-----------------------------------------------------------------------------
OwnerStep == Request \/ Cut \/ Release \/ SetStateOnOwner \/ NotifyAtTheEnd \/ JoinWorker

WorkerStep == \/ AwaitLifecycleBoundary \/ EvaluateCondition \/ Sleep \/ WakeUp
              \/ WaitPop \/ Cancelled \/ Reset \/ Chosen \/ Terminate \/ Clear \/ Begin
              \/ ProcessChunk \/ End \/ Throw \/ RecordWorkerFailure

Next == \/ Start \/ StartFails
        \/ \E o \in {"switch", "reset", "cancel", "restart", "stop", "shutdown"} : Call(o)
        \/ OwnerStep \/ WorkerStep \/ DeliverVis \/ DeliverWorkerError
        \/ \E token \in 1 .. gen, size \in Sizes : EnqueuePcm16(token, size)

Spec == Init /\ [][Next]_vars

(* The two threads run; decoding a block ends. *)
FairSpec == Spec /\ WF_vars(OwnerStep) /\ WF_vars(WorkerStep)

-----------------------------------------------------------------------------
Generations == 0 .. Calls
Block == [gen : Generations \ {0}, seq : 0 .. Blocks - 1, size : Sizes]

TypeOK ==
    /\ state \in {"Inactive", "Running", "Cancelled", "Stopping", "Shutdown", "Error"}
    /\ stop \in BOOLEAN /\ requested \in BOOLEAN /\ route \in Generations
    /\ op \in {"none", "switch", "reset", "cancel", "restart", "stop", "shutdown"}
    /\ at \in {"-", "request", "cut", "release", "publish", "notify", "join"}
    /\ calls \in 0 .. Calls
    /\ ingress \in {"Inactive", "Active", "Cancelled", "Shutdown"}
    /\ gen \in Generations /\ next \in 0 .. Blocks
    /\ queue \in Seq(Block) /\ Len(queue) <= MaximumChunks /\ Samples(queue) <= MaximumSamples
    /\ cancelled \in BOOLEAN /\ epoch \in 0 .. 2 * Calls
    /\ w \in [at : {"none", "begin", "gate", "lock", "holding", "dozing", "pop", "asleep",
                    "chosen", "reset", "terminating", "clearing", "decoding", "ending",
                    "failing", "dead"},
              to : {"-", "pop", "chosen", "again"}]
    /\ awake \in BOOLEAN /\ hand \in Block \cup {None} /\ seen \in 0 .. 2 * Calls
    /\ pipe \in [gen : Generations, open : BOOLEAN]
    /\ decoded \in Block \cup {None} /\ image \in Generations /\ vis \in Generations
    /\ codes \in 0 .. Codes /\ emitted \in 0 .. codes
    /\ fault \in BOOLEAN /\ ahead \in Nat

(* When no call is under way, the runtime, its ingress, its queue and its   *)
(* worker say the same: a receiver that runs or is cancelled has an ingress *)
(* in that state, and one that was stopped has no worker and no audio       *)
(* (joinWorker, setStateOnOwner, and the callback that was in the middle of *)
(* enqueuePcm16At when the call began).                                     *)
Agree == op = "none" =>
    /\ state = "Running" => ingress = "Active" /\ route = gen /\ ~cancelled
    /\ state = "Cancelled" => ingress = "Cancelled" /\ queue = <<>>
    /\ state \in {"Inactive", "Shutdown"} => w.at = "none" /\ queue = <<>> /\ route = 0

(* "A lifecycle request made while waitPop() was returning wins the next    *)
(* DSP boundary" (SstvRxRuntime.cpp:1807): a call of the owner waits for    *)
(* one block at most.                                                       *)
OneBlockAhead == requested => ahead <= 1

(* What the owner, the audio callback and the worker leave true, in         *)
(* whatever order their steps come.                                         *)
RuntimeInv == TypeOK /\ Agree /\ OneBlockAhead

(* "No old acquisition can publish after its lifecycle transition returns"  *)
(* (SstvRxRuntime.cpp:5754): a VIS code the observers are told of was heard *)
(* in the stream that is current and not cancelled.                         *)
VisOfTheCurrent == [][emitted' # emitted => vis = gen /\ ingress = "Active"]_vars

(* Blocks are decoded in their order, at most once, only in their own       *)
(* generation and never after it was cut: the promise of SstvRxStream.      *)
Stream == INSTANCE SstvRxStream WITH
              waiting <- IF Live(hand) THEN <<hand>> \o queue ELSE queue
StreamKept == Stream!Spec

(* Every call of the owner returns: no wake-up is lost, the worker can be   *)
(* joined.                                                                  *)
CallsReturn == (op # "none") ~> (op = "none")

(* The worker is dead and nothing is being done about it (thrown out of by  *)
(* the decoder, recordWorkerFailure).                                       *)
Dead == w.at = "dead" /\ op = "none"

(* Audio that is accepted does not stay in the queue: it is decoded, drops  *)
(* out or is cleared, unless the worker dies.                               *)
QueueDrains == (queue # <<>>) ~> (queue = <<>> \/ Dead)

(* Neither a call nor the audio waits for a notification that has already   *)
(* been given (the conditions of condition_ and lifecycleCondition_).       *)
NoWakeUpLost == CallsReturn /\ QueueDrains

(* A picture of a generation that is over does not stay published           *)
(* (resetWorkerPipeline withdraws it), unless the receiver is stopped or    *)
(* its worker dies.                                                         *)
OldImageGoes == (image \notin {0, gen}) ~>
                    (image \in {0, gen} \/ state \in {"Inactive", "Shutdown"} \/ Dead)
=============================================================================

# Decodium: TLA+ models of the radio's control paths

Decodium is an amateur-radio station program (C++/Qt, with the decoders of the
WSJT-X family). This directory holds TLA+ models of the parts of it in which
an unlucky order of events does harm on the air or on a screen that an operator
trusts:

* **SSTV transmission**: who may key the radio, when audio may start, and how
  everything is given back, whatever fails on the way;
* **SSTV reception**: the threads of the receiver, and that what they show is of
  the stream that is current;
* **the CAT session**: what the program asks of a radio, what it believes the
  radio does, and how the connection ends and comes back;
* **one radio for several programs** (the DecoPort CAT multiplexer): whose
  answer is whose, and who lets go of the PTT;
* **a radio far away** (Decolink): audio in order over UDP, and a PTT that is
  released;
* **FT2-Link**: what a message shown as "Delivered" means, and what a session
  shown as connected means.

Paths below are relative to the repository root (`src/src/...` is the
repository's own folder `src/`).

## 1. The system and its parts

| Component | State it keeps | Operations | What is hard | Correct when |
|---|---|---|---|---|
| SSTV transmit state machine (`src/src/sstv/tx`) | phase, budgets, PTT flags, deferred outcome | `dispatch(now, event)` | every event in every phase; a clock that runs backwards; outcomes that meet behind the release barrier | a radio that may be keyed is released by acknowledgement only |
| SSTV transmit coordinator (`src/src/sstv/integration`) | the audio lease, what has been attempted, the session the callbacks must name | `start`, `cancel`, `tick`, `shutdown`, five `notify*` callbacks; hooks back into the bridge | hooks that fail or answer late; stale callbacks; several events within one call | no PCM before approval; a device outlives whoever pulls from it; "Completed" is true |
| SSTV in the bridge (`src/src/bridge/DecodiumBridgeSstv.cpp`) | ownership of the transmit path, posted callbacks, a 20 ms timer | the hooks, start, cancel, tick, shutdown | commands are queued to another thread; PTT feedback is late; shutdown in mid-session | the radio never stays keyed; the path always comes back |
| Sound output (`src/Audio`) | tracked playback | play, stop, report | another thread answers | used by the bridge as modelled here |
| FT2-Link ARQ transfer (`src/lib/ft2link/FT2LinkSession.cpp`) | per frame: attempts, acknowledged; frames received | `framesToSend`, `handleAckFrame`, `receive`, `makeAckFrame` | bitmaps and windows; lost, late and repeated frames | what is acknowledged is held |
| FT2-Link session driver (`src/controllers/FT2LinkQmlAdapter.cpp`) | one outbound and one inbound transfer per session, a retry record, ACKs due, a duplicate test | submit, ACK, DATA, retry check, delayed ACK | two peers, one half-duplex channel, messages that follow one another | Delivered means handed over, whole, once; every transfer settles |
| FT2-Link handshake, application model (`FT2LinkAppModel.cpp`, the adapter) | session table with message logs, HELLO retries, the radio queue | call, retry, answer, refuse, close, edit the block list | a frame names neither whom it is for nor, but by a small number, its session; answers are delayed, lists change meanwhile | a connected session has an answerer; the two ends agree on a refusal as long as no list is edited |
| CAT managers (`src/src/radio`) | desired state and its sequence number, what was reported, retry and disconnection flags, queued calls | connect, disconnect, request frequency or PTT, handle reports and failures | reports cross requests; a thread that ends late; timers nobody cancels | a request under way is not undone; one session at a time; a disconnection is final |
| Transceivers (`src/Transceiver`) | requested, actual, expected and last signalled state, tolerated failures, poll pace | start, stop, set, poll | a radio that obeys late; failures half-way | the radio is keyed only when asked; the reported state converges |
| DecoPort CAT multiplexer (`src/src/net/DecoPortCatMux.cpp`), CAT sharing | taps, queue, command in flight, keyed tap, permission | commands, replies, timeouts, pin polls, closing | late and unasked replies; programs that vanish | a reply goes to its asker; the PTT is released when its holder goes |
| Remote radio links (`src/src/net/DecolinkLink.cpp`) | reorder buffer, requests for what is missing; PTT request, turn of another operator, audio to send | datagrams, poll, watch, pacer | loss, repetition, overtaking, sequence wrap, a relay that is silent | audio in order or silence; a radio without audio is let go |
| SSTV receive chain (`src/src/sstv/integration`) | lifecycle state, generation, bounded queue, worker, published picture | start, switch, reset, cancel, restart, stop, shutdown; worker loop; audio callback | three threads; cuts in mid-block; a worker that dies | nothing of an old stream is shown; no wake-up is lost |
| Weak-signal sequencer (`src/Sequencer`, `DecodiumBridge.cpp`) | QSO progress, retries, AutoCQ, up to several streams | decode, period, operator click | very large state spread over one class | a QSO closes; retries are bounded |
| SSTV sharing | a persisted transfer queue | upload, pause, resume | restart in mid-transfer | nothing repeated |
| SSTV codecs, decoders, modulators, UI, services, vendored code | - | - | numeric or I/O | out of scope |

How they interact. The operator starts a picture in the bridge; the bridge asks
the coordinator; the coordinator dispatches events to the state machine and
carries out the accepted transitions through hooks that the bridge implements:
claim the path and queue PTT ON, start the tracked playback, stop it, queue PTT
OFF. Answers come back as calls: the timer reads the PTT feedback and the
playback position, and posted callbacks report confirmations, releases and
errors. All of this runs on the bridge's thread; the CAT worker, the radio and
the sound card run beside it. In FT2-Link, the adapter of each station drives
an `OutboundTransfer` for what it sends and an `InboundTransfer` for what it
receives; only DATA and ACK frames go between them, over a channel that loses.
Before that a session must be open: HELLO and HELLO_ACK are heard by every station
on the frequency, and each applies them to its own table.

The manager of a CAT session lives in the program's thread and the transceiver in
another; calls are posted one way and reports the other, and the radio answers
neither at once. The multiplexer is a thread of its own that has the only line to
the radio and several programs at its taps, Decodium's own CAT among them. With
Decolink the radio, its sound card and perhaps another operator are at the end of
a network. The SSTV receiver has an owner thread that calls, a worker that decodes
and an audio callback that must never wait.

`PROJECT.json` lists every component with what is modelled of it, and every
hazard with the line at which it bites.

## 2. The modules

| Module | What it models |
|---|---|
| `SstvTxStateMachine` | `SstvTxStateMachine::dispatch` as an operator on a record: one clause per event, with the guards of the code, `requestTerminal`, `enterTerminal`, `expire` and the regression of the clock |
| `SstvTxLifecycle` | that machine driven by any caller; its invariants and action properties |
| `SstvTxLifecycleProofs` | proofs of them |
| `SstvTxCoordinator` | every session method of the coordinator as an operator on a *run record*: the machine, the coordinator's fields, the hooks called |
| `SstvTxSession` | the coordinator in any environment: any call, any answer of a hook, callbacks of this or an old session |
| `SstvTxSessionProofs` | proofs about the coordinator, that it implements `SstvTxPromise`, and about `SstvTxBridge` |
| `SstvTxPromise` | the abstract specification: off, free, open, keyed, releasing, and an outcome that only worsens |
| `SstvTxBridge` | the coordinator in its real environment: bridge hooks, timer, posted callbacks, sound output, CAT worker and radio |
| `Ft2LinkTransfer` | `OutboundTransfer` and `InboundTransfer` as operators on records |
| `Ft2LinkArq` | a session: both adapters' ARQ halves and the channel |
| `Ft2LinkDelivery` | the abstract specification: Pending, then Delivered or Failed, and Delivered only after arrival |
| `Ft2LinkArqProofs` | proofs about windows in any session, and about delivery in one with one message |
| `Ft2LinkHandshake` | the session tables, retry tables and radio queues of several stations on one frequency |
| `Ft2LinkHandshakeProofs` | proofs about calls of any stations, and about connections of two |
| `CatTransceiver` | the transceiver object and its radio, as operators on a record: `start`, `stop`, `set`, `poll`, with the outcome of each command |
| `CatSession` | that object with the manager, the two queues between their threads, an operator at the radio and a port that may fail |
| `CatSessionProofs` | proofs about the session and, operator by operator, the transceiver |
| `DecoPortCatMux` | the multiplexer, its taps, the programs and the radio |
| `DecoPortCatMuxProofs` | proofs about the PTT's owner and the replies' askers |
| `DecolinkPlayout` | the abstract specification of received audio: each block in its turn, or silence in its place |
| `DecolinkRx` | the reorder buffer over a network that loses, repeats and reorders; implements `DecolinkPlayout` |
| `DecolinkPtt` | the PTT of a remote radio and the audio that goes with it |
| `DecolinkProofs` | proofs about both, which are two systems of their own (`Spec` and `PttSpec`) |
| `SstvRxStream` | the abstract specification of a receiver: blocks in order, at most once, only in the stream they came in |
| `SstvRxRuntime` | owner, worker and audio callback with their mutexes and condition variables; implements `SstvRxStream` |
| `SstvRxRuntimeProofs` | proofs about it |
| `MC*` | values of the constants for TLC |

`SstvTxSession` and `SstvTxBridge` both build on `SstvTxCoordinator`, and that
on `SstvTxStateMachine`: a handler of the code that dispatches several events
and calls several hooks is one operator, thus one step, as it is one call on one
thread. `Ft2LinkArq` builds on `Ft2LinkTransfer`, and
`CatSession` on `CatTransceiver`, in the same way.

### Correspondence with the code

* **Time.** The SSTV code compares absolute milliseconds. The model keeps ages:
  how long the current state has lasted, how long ago the last OFF was asked
  for, both saturated at `MaxAge`, beyond which no comparison changes. A call
  brings `dt`, the distance from the last reading; `dt < 0` is a clock that ran
  backwards. States without a budget keep age 0. In FT2-Link a retry finds any
  set of the frames in flight due, which covers every clock.
* **Hooks.** A hook is called at most once in one method, so that its answer is
  one Boolean chosen on entry. Where `publishState` shows an intermediate state
  in which the bridge would release the path, the run record remembers it
  (`over`).
* **Data.** Pictures, texts, errors and plans are gone; sizes and validity are
  Booleans; the audio plan is the four frame counts at which phases end. A
  DATA frame is its message and sequence; no operator of the protocol reads the
  message (the real frame does not carry it), only properties do.
* **The radio.** `cat` is the worker's queue, `keyed` the radio, `report` a poll
  result under way and `fb` what `m_pttActive` says. A queued command is done
  when executed, a report can be out of date on arrival.
* **The air.** `air` and `back` hold what is queued or under way, in order; the
  head may be lost. Queued bursts that the adapter purges after an ACK are among
  the losses. A late ACK is one that stays in `back`.
* **Calls of FT2-Link.** A frame that is transmitted reaches any part of the other
  stations, none included, and they handle it in that step. HELLOs that wait in the
  radio queue are a set, since arming and purging may take any of them first;
  HELLO_ACKs, which are delayed, a sequence. A text is not sent frame by frame: it
  arrives, is acknowledged or fails. Every operator may edit the block list at any
  time (`EditBlocks`); the list with which a station starts is any. `granted`,
  `received`, `sent` and `edited` (the ids in use when a list was edited) are history,
  read by properties only.
* **CAT.** A call posted to the worker is run whole in one step, since its thread
  does nothing else meanwhile. Each command in it has one outcome: whether the radio
  obeys, whether the answer is heard, and whether an error is one that `do_frequency`
  lets pass or one that it throws (`fatal`), which ends the session. The radio reaches what it was ordered later
  (`rig.dialTo`, `rig.txTo`), and a poll reads where it is. `rig.ours` and
  `rig.since` are history.
* **The multiplexer.** A command carries who wrote it (`by`, `gen`), which the code
  does not know and no action of it reads. `toRadio` and `fromRadio` are the line.
  A dialect is what `classify` can tell about a reply: its code (text), that it
  comes from the radio (CI-V), or that the line fell silent.
* **Decolink.** A block is its number; its datagram carries `SeqOf` of it, so that
  the wrap is in the model. There is no clock: a hole that has been waited for may
  be asked for again, given up, or neither. In `DecolinkPtt` relay and station are
  the environment: they obey a PTT command unless another operator has the turn.
* **Threads of the SSTV receiver.** A step ends where another thread can come
  between: at a mutex, a wait, or an unlock followed by a use of what was read. What
  is done with several mutexes held, none of which is waited for elsewhere with one
  of these held, is one step.

## 3. What the runs check

| Run | Module / cfg | Question |
|---|---|---|
| `sstv_lifecycle` | `MCSstvTxLifecycle` / `SstvTxLifecycle.cfg` | does the machine keep its invariants and its barrier against every event at any time? |
| `sstv_session` | `MCSstvTxSession` / `SstvTxSession.cfg` | lease, completion and approval under any order of callbacks and failures; does the coordinator implement `SstvTxPromise`? |
| `sstv_bridge` | `MCSstvTxBridge` / `SstvTxBridge.cfg` | with queued commands and late feedback: who plays, who has the last word on the radio, and does it always end? |
| `ft2link_arq` | `MCFt2LinkArq` / `Ft2LinkArq.cfg` | the first message of a session over a lossy channel: window, acknowledgement, delivery, settlement |
| `ft2link_calls` | `MCFt2LinkHandshake` / `Ft2LinkHandshake.cfg` | with calls repeated, late, refused and lost and block lists edited meanwhile: is a connected session one that somebody accepted, an unanswered call always retried, a transfer never without its session and the two ends never at odds but by an edit, and does every call end? |
| `cat_session` | `CatSession` / `CatSession.cfg` | a radio that obeys late, used by its operator too: do reports undo requests, key the radio, step back or keep silent, and does the shown state converge? |
| `cat_restarts` | `CatSession` / `CatSessionRestarts.cfg` | connections, disconnections and failures in any order: one session at a time, agreement once quiet, and an end to every disconnection? |
| `decoport_mux` | `MCDecoPortCatMux` / `DecoPortCatMux.cfg` | two programs, every family of dialects: whose reply, whose PTT, what a prohibition stops, and what becomes of the radio when a program leaves? |
| `decolink_rx` | `MCDecolinkRx` / `DecolinkRx.cfg` | is `DecolinkPlayout` implemented, also across the wrap, and is silence played only for what is missing? |
| `decolink_ptt` | `DecolinkPtt` / `DecolinkPtt.cfg` | is another operator's turn respected, and is a radio without audio let go? |
| `sstv_rx` | `SstvRxRuntime` / `SstvRxRuntime.cfg` | is `SstvRxStream` implemented in every interleaving, with a decoder that throws; do the parts agree, how long does a call wait, and is any wake-up lost? |
| `sstv_bridge_vox` | `MCSstvTxBridge` / `SstvTxBridgeVox.cfg` | does the transmit path come back with VOX? It does not: see section 4 |

Properties, by what they catch:

* `LifecycleInv`: what the code asserts (`invariantsHold`) and what it does not:
  audio only between lead and release, a deferred outcome exactly behind the
  barrier, an active session with an identity.
* `ReleaseOnlyAcknowledged`: whatever step ends the obligation to release a radio is
  the event `PttReleased`, with a sound clock, in ReleasingPtt, and the session ends
  there with the outcome that was owed; no cancel, failure, timeout, disable or clock
  regression explains such a step. `OutcomeOnlyWorsens`: behind the barrier none of
  them improves the outcome.
* `LeaseWhilePulled`: the sound output never pulls from a device that has been
  freed. `CompletedInFull`: Completed implies that every frame was played and
  the device given back. `PcmAfterApproval`: audio is handed out only to a
  session in WaitingForPtt whose radio was confirmed in an earlier call.
  `PromiseKept`: refinement of `SstvTxPromise`.
* `PcmOnlyOwned`, `OffHasTheLastWord`, `RadioIsReleased`, `OwnershipReturned`:
  the same promise at the radio itself, with queues and shutdown.
* `WindowRespected`, `AckedIsHeld`, `DeliveredMeansHanded`, `HandedIsWhole`,
  `DeliveryKept` (refinement of `Ft2LinkDelivery`), `Settles`.
* `Answered`, `CallingIsRetried`, `TransferNeedsSession`, `DisagreementNeedsEdit`,
  `CallsEnd`: the table of one station against what another has done, and the
  retry table and the transfers against the session table. `DisagreementNeedsEdit`:
  one end refuses a session that the other holds connected only if a block list was
  edited while its id was in use; without an edit no loss, repetition or crossing
  does that.
* `RequestsSurvive`, `KeysOnlyWhenAsked`: a report about the past neither changes
  the state the next request is made of nor keys the radio. `KeyedIsRemembered`:
  a radio keyed is one that a release would reach. `NoStepBack`, `NothingUnsaid`:
  the two sides of withholding a report. `AgreeWhenQuiet`, `OneAfterTheOther`,
  `DisconnectEnds`, `Settles`: the session as a whole.
* `AnswersBelong`, `PttHasAnOwner`, `ReleaseFirst`, `ForbiddenDies`, `ClosedReleases`,
  `Released`, `Served`: the owner the multiplexer records against the program that
  really keyed the radio, and the ways in which a program goes.
* `PlayoutKept`, `HeldIsPlayed`, `Drains`; `TurnRespected`, `IdleIsReleased`.
* `StreamKept`, `OneBlockAhead`, `Agree`, `VisOfTheCurrent`, `CallsReturn`,
  `QueueDrains`, `OldImageGoes`.

The state invariants of a run are its cfg's INVARIANT as one conjunction of the
named parts above: `LifecycleInv` (`TypeOK` and `MachineInv`), `SessionInv`
(`LeaseWhilePulled`, `CompletedInFull`), `BridgeInv` (`PcmOnlyOwned`,
`OffHasTheLastWord`), `TransferInv` (`WindowRespected`, `HandedIsWhole`),
`HandshakeInv` (`Answered`, `CallingIsRetried`, `TransferNeedsSession`),
`RequestInv` (`RequestsSurvive`, `KeyedIsRemembered`), `LinkInv`
(`AgreeWhenQuiet`), `MuxInv` (`AnswersBelong`, `PttHasAnOwner`, `ReleaseFirst`),
`TurnInv` (`TurnRespected`) and `RuntimeInv` (`Agree`, `OneBlockAhead`), each with
its module's `TypeOK` but `RequestInv`. `PollsTell` is `NoStepBack` and
`NothingUnsaid`, `NoWakeUpLost` is `CallsReturn` and `QueueDrains`. Every part has a
mutant of its own that breaks it.

Each module has one type invariant; those of `SstvTxLifecycle` and
`SstvTxSession` bound ages and frame counts, those of `Ft2LinkArq` and `Ft2LinkHandshake` the
attempts, those of the others lengths of queues.

### Bounds

* SSTV: budgets of two units (one, for most states of the lifecycle run) and
  delays of up to two, so that a step falls short of a budget, meets it or passes
  it; lead, tail and OFF retry of one unit; a plan of three frames with the
  phases at 1, 2 and 3, so that a report passes none, one or several; two
  sessions, which is what a stale callback needs; three queued CAT commands (ON,
  OFF and a repeated OFF, or those of two sessions). The queue bound is
  in the guard of `Settle`: a call that would queue a fourth waits.
* FT2-Link: four frames, window and bitmap of two, so that the window moves, an
  acknowledgement has a base and bits beyond it, and a hole is possible; two
  attempts per frame (six in the code) and three bursts, so that either limit
  comes first; up to three DATA frames under way.
* FT2-Link calls: two stations whose ids start alike, which is how the program
  starts them; one id each; two attempts, so that a call is repeated and given up;
  one text; any block lists to start with, edited at any time and any number of times
  by both operators. With a second text the run exceeds two million states; the
  theorems hold for any number of texts, ids and attempts.
* CAT: two dials, so that a request can go there and back, two turns of the radio's
  operator, two queued reports; three polls to stabilise, as in the code. With
  restarts: two connections or disconnections, two failures (the number that one poll
  short of giving up needs), one retry, one request that crosses them.
* Multiplexer: a program on TCP, which is trusted, and one on a virtual port; two
  commands in all, besides the releases of the multiplexer: one in flight, one behind
  it; each tap opened once.
* Decolink: six blocks with sequences modulo 16, started at 13 so that the wrap comes
  in the middle; gaps up to the two that are filled, and beyond; a block five ahead;
  one request for a hole, which names two blocks of it (four and 32 in the code).
  PTT: two transmissions of two pieces, one turn of the other operator, and one
  mishap, a lost datagram, a silent relay or a closed connection.
* SSTV receiver: two blocks of one or two samples in a generation and a queue of three
  samples, so that a second block finds room or drops the first; three calls, the
  number that brings a third generation; one VIS code.

`CHECK_DEADLOCK FALSE` is set where the system may stop: the SSTV transmit machines
because a behaviour has used up its sessions and nothing runs, the bridge because it
has been shut down, the ARQ because every message is settled, the multiplexer, the
links, the receiver and the CAT session because they are closed and the bound on
opening them again is reached. The run of the calls leaves the check on: closing a
session is always possible again.

### Fairness

* Bridge: the 20 ms timer fires (`m_sstvTxTimer`) and its handler is run (the
  event loop turns); the CAT worker executes its queue, polls, and its report
  arrives. Nothing is assumed of the operator, of posted callbacks or of the
  audio: `RadioIsReleased` and `OwnershipReturned` hold even if a sound card
  stops for good, thanks to the budgets. The VOX run adds a working sound card and
  delivered callbacks (`WorkingSpec`), so that its counterexample does not
  rest on either.
* ARQ: the retry timer fires (`runLiveOutboundRetryCheck` reschedules itself) and
  what is queued leaves the queue, to be heard or lost. Nothing is assumed of
  ACKs. `Settles` thus holds on a dead channel.
* Handshake: the retry timer of a station that has an entry fires (`RetryCheck`;
  every path that leaves an entry in `m_helloRetries` starts `m_helloRetryTimer`
  again). Nothing is assumed of what is heard.
* CAT: both event loops run what is posted to them, the reconnection and poll timers
  fire, the thread that was told to quit ends, and the radio reaches what it was
  ordered. Nothing is assumed of the operators or of the port.
* Multiplexer: its thread reads what taps and line bring, its timers fire, the
  pins are polled, and the radio takes commands (it need not answer).
* Decolink: the timer that gives a hole up fires; the PTT's timers (hold, pump,
  pacer, watch) fire and datagrams that are not lost arrive.
* SSTV receiver: both threads take their steps and decoding a block ends
  (`FairSpec`). The audio callback need never come.

`sstv_lifecycle` and `sstv_session` check safety only: their specifications have no
fairness.

## 4. Departures from what the documents say

One is checked by a run.

* **VOX transmit path kept for ever** (`sstv_bridge_vox`). With VOX there is no
  radio to release, so a watchdog that expires during audio goes straight to
  Error; `tick` then frees the lease only if audio had not been started, and
  nothing else detaches it. Later starts are refused. `PROJECT.json` has the line
  and quotes what it contradicts.

The others are why some properties hold under a condition. The condition is a
constant or a part of the property, and TLC finds the violation when it is taken
away.

* **Messages after the first** (`HandedIsWhole`, `DeliveredMeansHanded`; with two
  messages of two frames). Sequences restart at 0 and neither DATA nor ACK names its
  message: an ACK of the last message completes the next
  (`FT2LinkSession.cpp:125`), and the frames left by one that failed are joined with
  the next one's (`FT2LinkQmlAdapter.cpp:10754`). The theorems about delivery speak of
  one message for this reason. A message of several frames whose last ACK is lost can
  also be handed over twice: the repeated frame 0 erases what the duplicate test needs
  (`FT2LinkQmlAdapter.cpp:10764`).
* **Three stations** (`Answered`). A HELLO_ACK is applied to the session of its
  number, all stations start at the same number, and every station that hears a HELLO
  answers it: the answer to one call connects another (`FT2LinkAppModel.cpp:506`).
* **A block list edited during a call** (`DisagreementNeedsEdit`, `TransferNeedsSession`;
  `edited`). A station accepts a caller and then blocks it; the caller, which has not
  heard the answer, repeats its HELLO, and the refusal takes the place of the accepted
  session (`FT2LinkAppModel.cpp:627-635`). If the refusal is lost and the acceptance is
  not, the caller is connected to a station that has refused it. A text that was under way
  in the record overwritten stays in `m_liveOutbound` until its attempts run out, since its
  ACKs are no longer read (`FT2LinkQmlAdapter.cpp:10604`). Editing the list
  (`FT2LinkQmlAdapter.cpp:13217-13306`) looks at neither.
* **A radio slower than the timeout** (`AnswersBelong`; `Punctual`). A late reply goes
  to the next asker (`DecoPortCatMux.cpp:346`).
* **A radio on the air that refuses another command to transmit** (`PttHasAnOwner`;
  `RefusesBusy`). The refused program takes the ownership (`DecoPortCatMux.cpp:297`).
* **A program that opens, keys and closes between two polls of its port** (`Released`;
  `Unhurried`) leaves the radio on the air (`DecoPortCatMux.cpp:417`).
* **A release still in the queue** (`ClosedReleases`) is dropped by `close()`
  (`DecoPortCatMux.cpp:66`), and **keying commands already in the queue**
  (`ForbiddenDies`) pass the prohibition (`DecoPortCatMux.cpp:294`).
* **The wrap of the sequence** (`HeldIsPlayed`; `Unwrapped`). Blocks that are held are
  replaced by silence (`DecolinkLink.cpp:1171`).
* **A PTT that nobody releases** (`IdleIsReleased`, its exceptions): the one release
  datagram is lost (`DecolinkLink.cpp:868`), is due while the relay is silent (`:502`),
  or the connection is closed after a turn came between (`:300`).
* **Leaving a satellite pass keys the radio** (`KeysOnlyWhenAsked`; `Inherits`), since
  the request inherits a PTT that was the operator's microphone
  (`DecodiumTransceiverManager.cpp:2805`).
* **A command or a poll that fails** (`KeyedIsRemembered`, `NoStepBack`, `NothingUnsaid`;
  `Misses`). A failed release of a radio that was polled as receiving is forgotten, and
  later ones send nothing (`HamlibTransceiver.cpp:2586`); after a poll that failed
  half-way a change can stay untold (`PollingTransceiver.cpp:259`).
* **A read of the meters during the polls granted to a new dial** (`NoStepBack`;
  `Bursts`). It signals all that is known of the radio, the dial it has not yet left
  included (`HamlibTransceiver.cpp:2507`).
* **A worker that dies** (`QueueDrains`, `OldImageGoes`; `Dead`). A call under way sets
  Running or Cancelled over its Error (`SstvRxRuntime.cpp:1406`), and producers are
  still accepted.

## 5. What is proved

Every theorem is about its module's specification, for every value of the
constants that the module's named assumption allows. Three things follow from
that. Bounds that only keep TLC's state space small (how many sessions, calls, programs,
failures) are any numbers in a theorem. An instance that TLC cannot reach (six
attempts per frame, sequences modulo 65,536, a queue of many samples) is covered.
And a theorem that needs more than the assumption says so in its own `ASSUME`.

| Module | Theorems | Needs, besides the module's assumption |
|---|---|---|
| `SstvTxLifecycleProofs` | `LifecycleInvariant` (`LifecycleInv`), `ReleaseBarrier` (`ReleaseOnlyAcknowledged`), `OutcomeKept` (`OutcomeOnlyWorsens`) | - |
| `SstvTxSessionProofs` | `SessionIsSound` (`SessionInv`), `AudioWaitsForApproval` (`PcmAfterApproval`), `StationIsPromised` (`PromiseKept`) | - |
| | `BridgeIsSound` (`BridgeInv`) | `~Vox` |
| | `VoxAudioIsOwned` (what is left of it with VOX) | - |
| `Ft2LinkArqProofs` | `WindowAlwaysRespected` (`TypeOK`, `WindowRespected`) | - |
| | `TransferIsSound` (`TransferInv`), `AcknowledgedIsHeld` (`AckedIsHeld`), `FirstMessageDelivered` (`DeliveredMeansHanded`), `DeliveryRefined` (`DeliveryKept`) | one message |
| `Ft2LinkHandshakeProofs` | `CallsAreRetried` (`TypeOK`, `CallingIsRetried`) | - |
| | `HandshakeIsSound` (`HandshakeInv`), `RefusalIsShared` (`DisagreementNeedsEdit`) | two stations |
| `CatSessionProofs` | `LinkIsSound` (`LinkInv`), `OneSessionAtATime` (`OneAfterTheOther`), `RequestsAlwaysSurvive` (`RequestsSurvive`), `KeyedIsRememberedUntilAMiss` | - |
| | `SteadyUntilAMiss` | - |
| | `RequestsAreSound` (`RequestInv`), `NothingIsLeftUnsaid` (`NothingUnsaid`) | `Misses = 0` |
| | `PollsTellTheTruth` (`PollsTell`) | `Misses = 0`, `Bursts = 0` |
| | `KeyedOnlyWhenAsked` (`KeysOnlyWhenAsked`) | `~Inherits` |
| `DecoPortCatMuxProofs` | `ReleaseGoesFirst` (`TypeOK`, `ReleaseFirst`), `ForbiddenStaysOut` (`ForbiddenDies`) | - |
| | `PttAlwaysHasAnOwner` (`PttHasAnOwner`), `CloseAlwaysReleases` (`ClosedReleases`) | `~RefusesBusy` |
| | `RepliesAlwaysBelong` (`AnswersBelong`) | `Punctual`, no reply asked for also comes unasked |
| | `MuxIsSound` (`MuxInv`) | the three of them |
| `SstvRxRuntimeProofs` | `RuntimeIsSound` (`RuntimeInv`), `VisIsOfTheCurrent` (`VisOfTheCurrent`), `StreamIsKept` (`StreamKept`) | - |
| `DecolinkProofs` | `ReceiverIsSound` (`TypeOK`), `PlayoutIsKept` (`PlayoutKept`), `WhatIsHeldIsPlayed` (`HeldIsPlayed`) | - |
| | `TurnAlwaysRespected` (`TurnInv`) | - |

The hypotheses in the last column are not for the prover's sake: without each of
them TLC finds the property violated by what the code does, as section 4
describes (audio that the watchdog leaves attached with VOX, messages after the first, three stations, a command or poll that failed, meters read
between two polls, a PTT that a satellite pass leaves behind, a radio that refuses while it transmits or
answers late). The runs of these modules set the constants the same way.

### Along which argument

**SSTV state machine.** The inductive invariant is the record's type and
`MachineInv`. A lemma for each operator that writes the record (`Enter`,
`ClearSession`, `EnterTerminal`, `RequestTerminal`, ...) says that it keeps it, then
one for each group of events. The conjuncts beyond the `invariantsHold` of the code
make it inductive: without "requested only on the air" or "a cancelled or disabled
outcome had a radio", the release step does not go through.

**SSTV coordinator.** The machine below is good because of the lemma about
`Dispatch` above, which is cited by way of an INSTANCE. On top of it each helper of the
coordinator has a lemma about the *run record* it is handed: that it stays `Safe` (the
machine is good, the coordinator's fields fit its phase, the lease is there while
somebody pulls, approval precedes audio), that a completed session is `Drained`, and
that the lease is `Held` until its end. A public method chains several of them, so
that the intermediate record is what the lemmas must describe: it may be in a state
in which no method returns. The refinement of `SstvTxPromise` uses the same chain and
asks of each helper only whether the abstract state proceeds, falls, turns or begins.

**SSTV bridge.** Its hooks answer in fewer ways than the session's environment (an ON
or an OFF can always be queued, a detach always succeeds, the clock never runs
backwards), so that more is true of a run, and each helper and method has a second lemma.
`Rested` is what the coordinator is between two calls: audio that was handed out is
attached only while its session is sending (with VOX, also after a timeout), and no OFF
has been asked for by then. A method takes a `Clear` run to a `Clear`
one, and `Settle` turns what its hooks did into what the queue, the audio and the
ownership become. `LastIsOff` is about the queue alone: once the session is over, a radio
that is keyed, or that a queued command will key, has an OFF last in the queue. It is
inductive because a method that leaves no session sending has asked for an OFF, after
an ON if it asked for both, or has asked for neither and found an OFF there (`LetGo`),
and because the worker takes the commands in order. With VOX nothing is ever queued
(`VoxHasNoPtt`), but a timeout need not detach the audio: `PcmOnlyOwned` is false there,
for the reason section 4 gives, and `VoxAudioIsOwned` states what remains true: such audio
is that of the last session that began, and the transmit path is not given back while it
plays.

**ARQ.** For every ACK on its way, and for the sender, whatever it acknowledges is
held by the receiver as long as the message has not been handed over; a payload
held is the message's own; the last sequence, once known, is the message's last.
This needs that `FirstMissing` is well defined (a least element exists) and that
nothing is given up to a reset before delivery. The window is a matter of counting:
the frames in flight are the attempted ones not acknowledged, and what is sent is
what is in flight and due, or new within the window; it needs nothing about the
messages, and holds for any number of them.

**Handshake.** `Kept` is about any one station: its table is well formed, and a
session that is calling has its entry in the retry table, with attempts left. `PairInv`
is about two stations. Of every id it says that what is connected has been accepted, and
that what an answer under way names is in the table of its sender. Of an id that was not in use
at any edit it says more: what the answers and refusals under way say of the session is
what the sender's own table says. An edit while no table has the id leaves nothing to
say, which is why `edited` collects just the ids in use. It is not inductive for one
direction alone, since both may call at once with ids that start alike.

**CAT.** `IInv` has the types (`Scalars`, `Types`); at most one thread, in the phase
that the manager's flags allow (`OneThread`); calls and reports in the order of their
sequence numbers (`InOrder`, `Newest`); what the worker is and what the manager was
told (`Online`, `Told`, `Posted`), from which agreement follows when both queues are empty;
and `KeyedUntilMissed`. Each operator of `CatTransceiver` has a lemma about the fields
these speak of, so that `poll` and `set` are opened once. What the polls tell needs a second
invariant, `PInv`, and a second lemma for each operator. `Steady` is what a transceiver
is until something fails: if no change is awaited, what it knows, what it has signalled
and what it last told the manager are one (`Caught`); if one is, the polls granted to it
outlast those in which the radio may be late (`Awaited`). A transceiver stays steady only
if every call asks for a radio that is online. So the calls and reports come in: `start`
is the first call or none (`StartsFirst`), a manager that is ending its session has
posted a stop (`StopComes`), the calls before a stop ask for online (`AsksOnline`), since
they are made from what the reports said, and those, in a session not being ended, say
online (`StaysOnline`). It holds until the first answer is missed, whatever `Misses` is.

**Multiplexer.** `Typed` adds to the types that a queued command is of a tap that is
there. `Owned` follows the PTT along the line: the holder of the radio, as it is or as it
will be when all that was written to it is read, is the keyed tap, or the release is
the first in the queue. `OneAtATime` says that there is never more than one command
under way to the radio, which a punctual radio answers or lets pass before the next.

**SSTV receiver.** The parts agree in between calls only; `Placed` lists what is true at
each step of a call, and the worker's step. `Counted` bounds the queue in blocks and in
samples; `CutOff`, `Current` and `Heard` relate the generation to what is queued, decoded
and announced; `Behind` says that at most one block is being decoded for an old one.

**Decolink.** `RxInv` adds to the types that the block due has the sequence expected,
that the block held with the lowest *key* lies ahead of it (the front of the map is
purged down to such a block, and across the wrap the lowest key is not the next block), and
that nothing held is further ahead than `Jump`. From it a hole that is given up is
never longer than the one the promise allows to shorten. Sequences are taken modulo
`Mod` throughout: as no two blocks are half the range apart, `qint16(seq - expected)` is
the distance of the blocks. The transmission's `PttInv` has the shapes of link, network and
bridge and `TurnRespected`; its point is that the queue never holds more than the
transmissions begun so far have to say.

**Data.** What a queue holds, a prefix sum or a run of consecutive blocks is computed by
recursion or `CHOOSE`. The library's induction theorems cannot be used (they take an operator as
parameter), so each such fact is proved by a least counterexample: of the numbers for
which it fails there is a least one (`LeastExists`, from the well-foundedness of `<`), and
the definition refutes it. `Samples` of the receiver and `Those` of the multiplexer are
written as recursive functions for that.

### What the proofs changed in the models

* `CatSession`, `Finish`: the end of the transceiver's thread also closes the port. The
  model had left it open, which no run could see and which made the agreement of manager and worker not
  inductive.
* `DecoPortCatMux`, `Classify` and `SaysOf`: a `CASE` whose guards overlapped let the
  evaluator choose, where the code tests in order.
* `DecolinkRx` assumes that silence is not a block, which its properties had taken for
  granted.

### What is checked by TLC only

All liveness (`RadioIsReleased`, `OwnershipReturned`, `Settles` of both modules,
`CallsEnd`, `DisconnectEnds`, `Released`, `Served`, `Drains`, `IdleIsReleased`,
`CallsReturn`, `QueueDrains`, `OldImageGoes`): fairness and ENABLED are out of the
prover's reach.

## 6. What is not modelled, and why

* SSTV transmission: `updateTimingConfig`; exceptions thrown by hooks and encoders,
  other than as failure; the HAMDRM caller. Loss of the CAT link is modelled in
  `CatSession` and not in `SstvTxBridge`, whose radio obeys whatever is queued: the
  composition of the two has more states than TLC can visit in reasonable time.
* FT2-Link: the chat path (one plan, no `framesToSend`), mail, forms and bulletins,
  beacons and the stations heard, the negotiation of profiles, closing by a received
  `<DISC>`, failure to build the audio of a burst, the wrap of 16-bit sequences, which
  needs a message of 65,536 frames. Handshake and ARQ are not composed frame by
  frame.
* CAT: mode, split, meters, power, profiles; back ends other than Hamlib; OmniRig and
  CAT4OM. The commands of one request share one outcome. Calls queued before `stop` are run in the same
  turn of the loop. `NoStepBack` speaks of a dial whose command was answered, in the
  polls of a radio that receives.
* Multiplexer: partial messages, broadcast addresses, the rigctld-like sharing; the
  answer to a CI-V program whose keying is refused (`DecoPortCatMux.cpp:278-280`), which
  goes to that program alone and touches neither queue nor radio.
* Decolink: login, profiles, the CW key, the PCM audio, CAT other than the PTT;
  reordering of PTT datagrams; DecoPortLink and its gateway. `RxAssumption` limits a
  stream to half the range of its sequences, 32,768 blocks: after a longer silence the
  code takes what comes for old (`DecolinkLink.cpp:1114`). A poll of the PTT that is
  refused loses the turn too (`:579-583`); in the model only a command to transmit does.
  `linked` is registration and gateway together.
* SSTV receiver: the decoder, its acquisition and timeline, retained audio, settings,
  coalesced notices.
* Weak-signal sequencing and transmission: 62,908 lines of one class,
  `DecodiumBridge.cpp`, whose handlers read and write dozens of members each. The rules
  extracted into `src/Sequencer` are small, but a module of them alone would leave out
  the code that goes wrong.
* SSTV sharing: a database-backed pipeline over network and file system; its
  recovery depends on what the servers keep, which no source here describes.
* DSP, codecs and waveforms: numeric code, out of TLC's reach.
* UI, formats, pure I/O and vendored code.

## 7. Plan

What is within TLC's reach is modelled. Every invariant and every action property
that a run checks is proved, under the conditions that the last column of the table
in section 5 names. What a longer effort could add:

1. the loss of the CAT link during an SSTV session: `SstvTxBridge` over `CatSession`
   instead of over a radio that obeys. TLC cannot visit the composition; a proof
   could take the theorems of both modules for its two halves;
2. the FT2-Link transfer frame by frame over the handshake, in the same way;
3. the messages of a session after the first, once the code tells their
   sequences apart.

## 8. Running

    tlasany M.tla
    tlc -workers 2 -config X.cfg M
    tlapm M.tla         # each of the eight *Proofs modules

The longest runs (`sstv_rx`, `decoport_mux`, `cat_restarts`, the bridge) take one to
three minutes. From nothing, the proof modules take from half a minute (`SstvTxLifecycleProofs`) to
about six (`SstvTxSessionProofs`), most of them about two, `CatSessionProofs` four. Operators described
as "Mutant" are deliberate errors, used by no specification: each shows that a property
notices it.

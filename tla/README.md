# A TLA+ model of the SCATTER PHY

SCATTER PHY is a physical layer for software radios: a MAC layer in another
process sends it *basic controls* (channel, bandwidth, MCS, gain, time and user
data), it modulates and transmits them as bursts of subframes, and it receives,
decodes and reports what other stations send. The signal processing is a
library; what the program itself adds, and what is modelled here, is the
concurrent control around it: threads, circular buffers, cached parameters,
radio commands, listen before talk, watchdogs and the shutdown.

`PROJECT.json` lists components, runs, mutations, the correspondence of every
definition with the lines it models, hazards and theorems. Paths below are
relative to `src/`. `srslte/examples` repeats the files of `phy/src`; the
latter are the ones referred to.

## 1. Inventory

| Component | Files | State it keeps | Operations | Hard because |
|---|---|---|---|---|
| Main thread | `phy/src/trx.c` | `go_exit`, timer ids, program arguments | message loop over two queues, dispatch to PHYs, environment update, shutdown | order of the uninitialization; it changes data the PHY threads read |
| Communicator | `communicator/cpp` | ring of user data buffers and its counter, high and low priority queues, queue of reports, a receiver thread and a `CommManager` per peer, a sending thread | parse messages, wait for a queue, send with retries, terminate | one ring for all PHYs, queues between threads, dropped sends, threads outliving what they use |
| Tx control path | `phy/src/phy_transmission.c`, `srslte/lib/utils/cpp_wrappers.cpp` | container (boost circular buffer), run flag, mutex and condition variable of each PHY | push, timed wait and pop, start, stop | overflow, ring wrap, lost wakeups, freeing |
| Tx parameter change | `phy_transmission.c` 204-548, 1202-1424 | `last_tx_basic_control`, environment and its two flags, sizes of buffers | change bandwidth, frequency, gain, MCS | partial failure, stale caches, environment changed meanwhile |
| Tx burst loop | `phy_transmission.c` 566-962 | subframe counters, cached SCH signals, allocation, statistics, watchdog | encode and send a burst, report | many early exits, caches, sizes that must agree |
| Listen before talk | `srslte/lib/rf_monitor/lbt.c` | one event, one drop flag, one state machine | sense, back off, time out, answer | global event shared by threads, condition variable, shutdown |
| RF monitor | `srslte/lib/rf_monitor/rf_monitor.c` | run flag, thread | start, stop | joins a thread others wait for |
| UHD wrapper | `srslte/lib/rf/rf_uhd_imp.c` | device mutexes, streamers | tune, gain, rate, send, receive | error returns under a lock |
| Rx threads | `phy/src/phy_reception.c` | container of `short_ue_sync_t` entries, subframe counters, run flags, `last_rx_basic_control`, environment, watchdog | synchronize, push, pop, decode, change parameters (for a bandwidth: stop, free, rebuild, start), stop | two threads per PHY and a third that changes what they work on, partial failure |
| UE synchronization | `srslte/lib/ue/ue_sync.c`, `srslte/lib/sync/sync.c` | search state, ring of sample buffers, samples kept from one to the next | find a burst, follow it | sample counters at buffer limits, wrong peaks |
| Transport block coding | `srslte/lib/phch/ra.c`, `sch.c`, `pdsch.c`, `srslte/lib/fec/cbsegm.c`, `softbuffer.c` | grant, segmentation, soft buffers, subframe index | size, cut, map; find again | sizes and shares computed twice, in different ways |
| Watchdog timers | `srslte/lib/utils/timer.c` | POSIX timers | set, disarm | disarmed on every path? |
| Helpers, other signal processing, channel emulator, FPGA, Matlab, scripts | rest | | | numeric, generated or not part of the program |

How they interact. The main thread takes messages from the communicator. A Tx
control is copied into the ring of user data buffers and pushed on the container
of its PHY, whose Tx thread pops it, changes parameters of itself and of the
radio, encodes and sends. An environment message (center frequency and
bandwidth of the competition) is written straight into the context of the Tx
and Rx threads, with a flag the Tx thread reads when it handles its next
control; the Rx side tunes at once, in the main thread. A receiver thread per
peer sorts messages into a high queue (environment) and a low queue (the MAC's
controls), which the main thread serves in turns; reports of the PHY threads take
the way back through a sending thread. On the Rx side the synchronization thread
puts subframes into a ring of buffers and their descriptions into a container,
from which the decoding thread takes them. The radio starts listen before talk through a global event when a
burst starts, and waits for the answer of the LBT thread. Rx threads and Tx
threads share the device mutex of their channel. On SIGINT the main thread
leaves its loop, frees the communicator, then stops and joins the threads.

What makes each correct:

* control path: a control reaches its PHY at most once, in order, with its own
  data; overload loses only the oldest; nothing is freed in use; it ends.
* parameter change: what goes on the air has the parameters of its own control;
  no environment is forgotten; no control blocks for ever.
* burst loop: the signals, MCS and data of every subframe match the burst, and
  reports and watchdog match what happened.
* listen before talk: the answer is that of the procedure the thread asked for,
  and comes.
* UE synchronization: subframes are cut from the stream without loss,
  repetition or mixture, and a burst the search finds is delivered whole.
* Rx threads: subframes reach the decoder once, in order, in the buffer their
  entry names; nothing is freed under a thread; after a change the radio and the
  structures are what is recorded; the shutdown ends.
* communicator: messages of one kind keep their order and are lost only where the
  code gives them up; an environment update does not wait behind controls and the
  newest counts; no message stays in a queue; the shutdown ends.
* transport block: what one side encodes the other decodes, although each works
  out sizes, resource elements and shares of its own.

## 2. Modules

| Module | Models | State and actions |
|---|---|---|
| `TxControlPath` | message loop of `trx.c`, ring, containers, worker loop and shutdown | `accepted`, `cnt`, `buf` are the ring (`user_data_buffer_cnt`); `container`, `run`, `wpc`, `bc` are the PHYs; `mpc`, `goExit` the main thread. `Fetch` is the `kSend` branch of the parser, `Handle` the push, `PopNow`/`StartWait`/`WaitPops`/`Leave` the timed wait, `StartEncoding` to `FinishEncoding` the time during which the loop body reads `bc.data`, `FreeData`/`StopWorker`/`JoinWorker` the shutdown. |
| `ControlStream` | what that path promises | abstract: a set of pending controls and the latest delivered one per PHY. `TxControlPath` is shown to implement it (`Stream`, a refinement mapping from the containers). |
| `TxControlPathProofs`, `TxTuningProofs`, `TxBurstProofs`, `LbtProofs`, `UeSyncProofs`, `RxPathProofs`, `CommunicatorProofs`, `TransportBlockProofs` | | the theorems of section 6, each module about the one it is named for |
| `TxTuning` | `phy_transmission_change_parameters` against `phy_transmission_update_environment` | each critical section and each radio call is an action; `last` is `last_tx_basic_control`; `front`, `duc`, `gain`, `rate`, `held` are the radio; `Failures` says which calls may fail. `again` and `forgot` are history: which flag the code lost, and in which of four ways. |
| `TxBurst` | the loop of `phy_transmission_work` for one PHY | `sch0`, `sch1`, `radl`, `last*` are caches; `cell` and `built` are `cell_enb.nof_prb` and whether its structures are complete; `half` is history, a failed change of bandwidth not made good yet; `Crash` is a subframe encoded with structures that are not there; `air` records the subframes the radio took of the current control. |
| `Lbt` | `lbt.c`, its callers and the shutdown around it | LBT thread, Tx threads in `lbt_execute_procedure`, main thread; condition variable with spurious wakeups and a signal that wakes one waiter. `alone` is history: the PHY whose START is the latest and met IDLE. |
| `UeSync` | the loop of `phy_reception_sync_work` with `srslte_ue_synchronize` and `srslte_sync_find_sch` under it | one action per way an iteration ends: `FindNothing`, `FindPeak`, `FindPeakAtEnd` (the rest of the subframe is read), `FindError`, `TrackAndRead`, `TrackKept`, `TrackError`. `buf`, `cur`, `prev`, `left`, `leftPos` are the ring and the kept samples; a sample is its position in the stream, so a property can say which samples a subframe has. `Possible` is what the PSS search may answer: the truth, or a wrong peak. |
| `RxPath` | both Rx threads, the container between them, and the main thread that changes their parameters and stops them | `n`, `cur`, `bufs`, `hand` are the synchronization thread, `cb` the container, `item`, `decoded`, `dropped` the decoding thread; `main` walks through `phy_reception_change_parameters`, `phy_reception_change_bw` and `phy_reception_stop_thread` one call at a time; `Failures` says which of them may fail. |
| `Communicator` | receiver threads, queues, message loop, sending thread, SIGINT and the shutdown up to the end of the PHY threads | `wire`, `low`, `high`, `sendQ`, `pipe` are the queues; `rx`, `main`, `tx` the threads; `mgr` the state of each `CommManager`; `file` is `environment.json`, which may be read half written; `holds` is whose contents `basic_ctrl` has, and `told` the history of what was relayed for which message. |
| `TransportBlock` | the sums of `ra.c`, `cbsegm.c`, `softbuffer.c`, `sch.c`, `pdsch.c` and the loops that call them | `Encode` and `Decode` are one pass of each loop; the operators are the functions, with the shipped tables; the Tx side and the Rx side have operators of their own where the code has. |
| `MC*` | | instances for TLC; `MCTxBurst` also holds a table of transport block sizes |

Composition. `TxControlPath` treats the loop body as one interval, of which
`TxTuning` models the first part and `TxBurst` the rest; `TxBurst` takes the
parameter change as one step with three outcomes: it succeeds (`ChangeParameters`),
is refused before anything changed (`Refuse`), or fails with the new bandwidth half
in place (`FailHalfway`: some structures missing, or all built and the radio not
following, `nof_prb` new and the record old). One step is enough because what it
changes there belongs to the Tx thread alone. `Lbt` models what
`srslte_rf_send_timed3` does before the first subframe of a burst; in `TxBurst`
it is one of the results of that call. `UeSync` is the inside of what `RxPath` calls
`Synchronize`: there a subframe is L samples, here a number; both have the ring of
buffers, once with its contents and once with its readers. `RxPath` and `TxTuning`
take from `Communicator` that messages come in order; `Communicator` takes the PHY
threads as one that reports until it is stopped. `TransportBlock` gives `TxBurst`
its table of block sizes a meaning (`TbSize`).

Configuration modelled: the macros as shipped, that is timed commands and the
hardware RF monitor on, one context per PHY, not the channel emulator;
`ENABLE_LBT_FEATURE` is 0 as shipped, so `Lbt` describes the build with 1.
`decode_pdcch` is false (`trx.c` sets it and offers no option).

## 3. Abstractions

* User data is the number of the message it came with; a control is that number
  and a buffer. Formats, protobuf and logging are left out.
* A mutex-protected section is one action. Reads and writes the code does
  outside the mutex are actions of their own.
* A channel frequency is the record of what it was computed from, so two are
  equal exactly when the code computes the same frequency, apart from
  coincidences of the arithmetic.
* The LBT measurement is whether the channel is free, chosen freely.
* The transport block sizes are a constant function of bandwidth and MCS.
* In `UeSync` correlation and SCH decoding answer: the place of a PSS in the
  window and the announced length, or nothing; up to `MaxWrong` times a wrong place
  or length. Frequency offset, decimation and the file mode are left out.
* In `RxPath` a frequency is, as above, what it was computed from; AGC is off
  (`trx.c`), sequence numbers and statistics are left out.
* The MAC of `TxControlPath` sends controls only: the second relay of a control that a
  message of an unknown kind causes is in `Communicator`, not there, and its order and
  refinement are claimed for what the parser took.
* In `Communicator` a message the parser refuses counts as written to `basic_ctrl`,
  although fields behind the one refused keep their old values; ZeroMQ delivers in order what it took and refuses what its
  pipe has no room for; a timed wait may end at once.
* In `TransportBlock` a turbo decoder recovers a code block from the code bits of
  its encoder when they start at the right place and are enough; the CRC is zero
  or not.
* The time a burst must leave at, the clock and the timers are
  nondeterministic: `TooLate` and `Expire` may happen at any time the code
  looks at the clock.
* The undefined behaviour of a condition variable destroyed with a waiter
  (`Lbt.Destroy`) is the choice between a call that returns and one that stays.

## 4. Runs

Bounds are in the `.cfg` files and named constants.

| Run | Expect | Shows |
|---|---|---|
| `TxControlPath` | pass | `TypeOK`, `RingFresh`, `InOrder`, `NoFreedContext`, the refinement `ImplementsStream`, and `EachControlLeaves`, `ShutdownEnds` under fairness |
| `TxControlPath_free` | violation | `FreedAfterUse` |
| `TxTuning_control` | pass | without failures, environment messages at any time: `BurstMatchesControl`, and `ControlEnds` under fairness |
| `TxTuning_env` | pass | with failures, environment messages at any time, repeated ones among them: `EnvNotForgotten` |
| `TxBurst_safety` | pass | `SignalMatchesBurst`, `AllocationMatches`, `DataCovered`, while controls are refused and changes of bandwidth fail halfway |
| `TxBurst_status` | violation | `SuccessTransmitted` |
| `Lbt` | pass | `AnswerJustified`, and `RequestsAnswered` under fairness, for two Tx threads that ask when they like |
| `UeSync` | pass | `BurstContinues`, `NoSampleTwice` and `RingKeeps` with wrong answers and errors, `BurstsDelivered` without, `InStep` |
| `RxPath` | pass | `EntryIntact`, `Delivery`, `JoinedBeforeFreed`, `Tuned` while every step of a change may fail, and `Served`, `ShutdownEnds` under fairness |
| `Communicator` | pass | `MessagesInOrder`, `EnvPrompt`, `EnvCurrent` with SIGINT at any time, and `MessagesLeave`, `ShutdownEnds` under fairness |
| `TransportBlock` | pass | `Delivered`, `PiecesMatch` for all bandwidths and MCS |
| `TransportBlock_eob` | violation | `SameSubframeNumber` |

`PathInv` and `TuningInv`, the inductive invariants of section 6, hold in the runs
`TxControlPath` and `TxTuning_control` too; as they are proved they are not among
the properties of these runs.

Why the bounds are enough.

* `TxControlPath`: a ring of 3 buffers, 2 PHYs with 2 slots each and 5 messages:
  the ring wraps, laps a control one thread is still encoding on behalf of the
  other PHY's messages, and each container overflows. The proofs remove the
  bounds for the invariants. `TxControlPath_free` runs one PHY with ID 1
  (`default_phy_id`), where messages for PHY 0 are refused.
* `TxTuning`: two values of everything a control or an environment holds are
  enough to tell "changed" from "unchanged" and old from new; 10 MHz is among
  the competition bandwidths because the code treats it apart (one bandwidth in
  `TxTuning_control`, whose properties do not tell them apart); frequency 0
  because it is refused. Histories are unbounded: the state is finite without a bound.
* `TxBurst`: bandwidth 1 is the one with the MCS limit; MCS 0, 28 and 31 lie
  below, at and above it; lengths fit 1 to 3 subframes, too many, or none;
  3 stands for `MAX_NOF_TBS`. `MaxDropped` bounds the cumulative counter and
  with it the behaviour: the thread takes no control once that many were
  dropped.
* `Lbt`: two PHYs, which overwrite each other's START and wait on the same condition
  variable; a backoff of up to 2 and two requests of each: the state machine is gone
  through several times, each way, and a second request meets whatever the first left.
* `UeSync`: 8 samples a subframe and a PSS of 4 keep the proportions the code
  relies on (`UeSyncAssumption`); the first burst starts at every phase of the
  window, so the peak is found at every place, with the rest of the subframe in the
  buffer or not, and the second follows at once, after 2 samples or after almost a
  subframe. A ring of 3 wraps several times; 66 samples are enough for both bursts
  and the search after them. One wrong answer, anywhere, with a length of 0 or 3.
* `RxPath`: 3 buffers and 4 subframes: the ring wraps and laps an entry the decoding
  thread is late with. Two messages of three controls and two environments: two
  changes of which the first may fail at any step; all seven failures are on.
* `Communicator`: six quotas of messages instead of one large one, each for one
  interplay and with the kinds of messages it is about (`quota.noise`): three messages,
  controls or of a kind the parser does not know, so that such a message comes before,
  between and behind controls; two of them and an environment update; two that the
  parser may refuse; one control and two updates; three reports to a pipe of 1, so that
  two attempts fail; a control and a report during the shutdown.
* `TransportBlock`: every bandwidth, MCS, placement of the second SCH and of the
  end-of-burst PSS, bursts of up to 3 subframes (first, middle, last). Nothing is
  bounded but the length of the burst, whose middle subframes are alike.

Deadlock is checked in `TxControlPath`, where the end of the process is an
explicit step, and where the models run for ever. `CHECK_DEADLOCK FALSE` is
given where the system really stops: `Lbt` (the program ends, or the requests
are used up), `TxBurst_*` (the thread ends when told to or crashes, or the bound on
drops is reached), `TxTuning_env` (a thread stands still for ever behind the mutex a
failed call left locked; `EnvNotForgotten` is about all that happens before),
`UeSync` (the thread leaves its loop on an error, or the stream ends), `RxPath` and
`Communicator` (the program ends, or the quotas are used up and a thread waits),
`TransportBlock*` (the burst ends).

Every property of a passing run has a mutation of the code-modelling
definitions, defined in the modules next to the definition it changes, that TLC
finds to violate it.

## 5. Fairness

* `TxControlPath`: weak fairness of the main thread and of each Tx thread. The
  threads are scheduled by the operating system and none of their steps but the
  `pthread_join` can block for good; the timed wait ends by itself every 10 us
  (`phy_transmission.c` 1289), so it needs no signal. Neither the MAC nor SIGINT
  is obliged to come.
* `TxTuning`: weak fairness of both threads; messages and controls need not come.
* `Lbt`: weak fairness of the LBT thread, of the steps of
  `lbt_execute_procedure` once it was called, of the shutdown and of the clock
  reaching the timeout; not of spurious wakeups nor of the channel becoming
  free.
* `RxPath`: weak fairness of the push that follows a synchronized subframe, of the
  decoding thread (its wait is timed), of the synchronization thread leaving once
  told to (the radio delivers samples or an error), and of a change the main thread
  is in. Neither a subframe nor a message nor SIGINT is obliged to come, and a join
  on a thread that was joined may never return.
* `Communicator`: weak fairness of each receiver thread, whose poll is timed, of the
  main thread and of the sending thread, whose waits are timed. Peers need neither
  send nor receive.

## 6. Proofs

`TxControlPathProofs` proves, for every number of PHYs, ring size, container
size and number of messages (`PathAssumption`):

| Theorem | Statement |
|---|---|
| `TypeCorrect` | `Spec => []TypeOK` |
| `InvCorrect` | `Spec => []PathInv` |
| `RingCorrect` | `Spec => []RingFresh` |
| `OrderCorrect` | `Spec => []InOrder` |
| `ContextCorrect` | `Spec => []NoFreedContext` |
| `Implements` | `Spec => ImplementsStream`: the path is an instance of `ControlStream` |

`RingFresh` says that a control points to its own data until the ring laps it.
It is not inductive: a state in which a buffer holds the right data but is the
next to be overwritten satisfies it, and the next message breaks it. `PathInv`
adds `AllPlaced`: a control that is not lapped points to a buffer whose *age*
(its distance behind the write position `cnt`, around the ring) equals the
number of messages parsed since. A message ages every buffer but the one it
overwrites by one, which is the step of the induction (lemmas on `NextSlot` and
`Age`). `Numbered` and `InOrder` carry the order through pushes on a full
container, and `Running` and `JoinedLeft` say how far the shutdown has come,
which gives `NoFreedContext`.

`Implements` is the refinement: the initial states map to the initial state of the
stream (`InitStream`), and each step to one of its steps or to none (`NextStream`:
a push, with or without the loss of the oldest control, a pop, and the end of a PHY).
The stream keeps a set where the code keeps a queue, so the lemmas `IdsCount`,
`IdsTail`, `IdsAppend` and `IdsPush` say what the queue operations do to the set of
numbers; they need the numbers of a container to rise, which is `InOrder`.

`TxTuningProofs` proves, for all sets of frequencies, bandwidths, channels and
gains (`TuningAssumption`):

| Theorem | Assumes | Statement |
|---|---|---|
| `TypeCorrect` | | `Spec => []TypeOK`, whatever fails |
| `TuningCorrect` | `Failures = {}` | `Spec => []TuningInv` |
| `ControlCorrect` | `Failures = {}` | `Spec => []BurstMatchesControl` |
| `EnvCorrect` | | `Spec => []EnvNotForgotten`, whatever fails |

The code skips a radio command when `last_tx_basic_control` says the parameter is
set already, so the property at the moment of sending rests on what the record
says of the radio between two controls. `TuningInv` states that, step by step:
which fields have been written since the control was popped, and what the radio
has by then.

The code does lose environments (section 7, `EnvKept`). `EnvNotForgotten` says in
which ways, and that there is no other: the history `forgot` has "env" from the step
that clears `env_update` although it was set again since the frequency was computed, or
that takes it back for a message that changes nothing, and "front" from the step that
clears `competition_freq_updated` when the frequency was set again, or the front end
did not follow, since it was read; a flag set anew takes its entry out. `EnvCorrect`
needs no assumption: all interleavings, repeated messages and failures are covered. It
rests on `EnvInv`, which says that whenever the DUC is not tuned for the stored
environment, one of the two flags is set or recorded as lost, a change is on its way in
the Tx thread, or the main thread is about to set the flag.

`TxBurstProofs` proves, for all bandwidths, MCS, lengths, destinations and tables
of transport block sizes (`BurstAssumption`):

| Theorem | Statement |
|---|---|
| `TypeCorrect` | `Spec => []TypeOK` |
| `SignalCorrect` | `Spec => []SignalMatchesBurst` |
| `DataCorrect` | `Spec => []DataCovered` |
| `AllocationCorrect` | `Spec => []AllocationMatches` |

`SignalInv` adds that the generated signals carry what the caches record of them
(`sch0 = lastDst`, `sch1 = lastSig`), also after a bandwidth change rebuilt them.
`DataInv` places the loop: its offset is a closed formula of the subframe counter
(`Offset`), so `OffsetStep` shows that every pass keeps it, and `SizesAgree` shows
that the length `phy_transmission_validate_tb_size` accepts is the offset after
exactly `phy_transmission_calculate_nof_subframes` subframes. `AllocationInv` says
that the PDSCH is configured for what the record tells and that this is what the
current subframe needs; whether it is the first comes from `DataInv`. Its part about the
bandwidth holds unless `half` is set: after `FailHalfway` the structures are of the
refused control's bandwidth and the record of the one before, so a control that asks for
the old bandwidth is encoded with the structures, and if its MCS is new also over the
resource blocks, of the refused one (section 7, `BandwidthIsOwn`). The theorem says that
nothing else can do that, no refusal at another step in particular, and that the next
change that succeeds makes it good.

`LbtProofs` proves, for any number of PHYs and of back-offs (`LbtAssumption`):

| Theorem | Statement |
|---|---|
| `TypeCorrect` | `Spec => []TypeOK` |
| `VerdictIsItsOwn` | `Spec => AnswerJustified` (an action property) |
| `WakeupKept` | `Spec => []NoLostWakeup` |

`VerdictIsItsOwn` covers PHYs that ask when they like, several at a time included.
The code does mix up procedures: a START can be overwritten by the IDLE that follows DONE,
and the verdict is read from one flag after the procedure is over, when another START may
have been set (section 7, `EveryAnswerJustified`). `AnswerJustified` says that these two
ways are all: the answer of a PHY whose START met IDLE and is still the latest is the
verdict of the procedure it started (the history `alone` has that PHY; no guard and no
other variable depends on it). `ProcedureInv` says, for each value of the global event,
where the LBT thread is in its state machine and what the drop flag means there, as long
as there is such a PHY.

`NoLostWakeup` is what `RequestsAnswered` rests on: when all Tx threads are in
`pthread_cond_wait`, there is an event still to be set (`UnderWay`), or the signal that
follows one is still to come. To be inductive it needs `BusyInv`: BUSY stands only while
the medium is checked or the end of the check is about to be set. It covers the shutdown.
For one PHY it says that no wakeup is lost; of several PHYs one may be left asleep while
another goes on, because one signal is sent for both (section 7, `EachRequestAnswered`).

`UeSyncProofs` proves, for every length of a subframe, number of buffers, stream of
bursts and number of wrong answers of the search (`SyncAssumption`):

| Theorem | Statement |
|---|---|
| `Inductive` | `Spec => []IndInv` |
| `TypeCorrect` | `Spec => []TypeOK` |
| `Continues` | `Spec => []BurstContinues` |
| `Kept` | `Spec => []RingKeeps` |
| `Accounted` | `Spec => []InStep` |
| `OnlyOnce` | `Spec => []NoSampleTwice` |

`IndInv` has one part per question an iteration asks of the ones before. `ReadInv`:
the current buffer holds, from its end, the samples of the stream up to `pos`, except
those of a finished subframe, which were cleared. `EntryInv`: the last entry is of the
burst in progress and ends where the kept samples begin. `OrderInv`: a later subframe
begins behind an earlier one, or what it has of the earlier one was cleared, which is
what `NoSampleTwice` needs. `RingInv`: an entry is as many buffers behind the current
one as subframes came since, so the buffer about to be filled belongs to no entry the
decoding thread may still read. Four of the seven actions take a subframe; they differ
only in where the window comes from, so each is shown to be an instance of `Takes`
(`FindPeakTakes` and the like), and the invariant is proved once for `Takes`.

`UeSyncProofs` goes on to prove, from that invariant and for the same constants:

| Theorem | Assumes | Statement |
|---|---|---|
| `Delivered` | `Separate`: no two bursts on the air overlap | `Spec => []BurstsDelivered` |

`BurstsDelivered` is about as long as the search has answered right (`wrong = 0`), so
the theorem says that nothing but the search can lose or invent a subframe. `DeliverInv`
divides the bursts: between two iterations in state FIND each has passed (delivered,
and ended by `done`) or is ahead (it begins at `done` or later, and not before what is
still in reach of the next window); in state TRACK one is followed and the others are
before or behind it. The argument about the windows is in four lemmas: the PSS a search
finds belongs to a burst not yet delivered (`Seen`), one in the range of a search is
found (`Visible`), what is ahead lies behind the range already searched
(`AheadPlace`), so a window without a peak hides no burst (`NothingAhead`), and the peak
found is of the first burst ahead, also when it is in the range of the second search
only (`FirstAhead`). The bursts may follow one another without a gap.

`RxPathProofs` proves, for every number of buffers, capacity and set of
controls and environments, whichever calls fail (`RxAssumption`):

| Theorem | Statement |
|---|---|
| `TypeCorrect` | `Spec => []TypeOK` |
| `JoinedSafe` | `Spec => []JoinedBeforeFreed` |
| `TunedBetweenMessages` | `Spec => []Tuned` |
| `Delivered` | `Spec => []Delivery` |
| `EntriesIntact` | `Spec => []EntryIntact` |

`JoinedInv` follows `phy_reception_change_bw` call by call, so that at the rebuild
both threads are off also when a change before it failed half way; `TunedInv` does the
same for the radio. `Delivery` rests on three invariants: `OrderInv` (numbers rise from
what was decoded over the popped entry and the container to what is being pushed),
`KeptInv` (a subframe is in one of those places unless N younger ones came: a push on a
full container loses the entry N before, because the numbers in it are successive) and
`DroppedInv` (a stop loses at most the popped entry). `RingInv` gives each entry the
*age* of its buffer, as in `TxControlPath`, within a generation of the structures.

`CommunicatorProofs` proves, for one peer or two, any numbers of messages, sizes and
send attempts (`CommAssumption`):

| Theorem | Statement |
|---|---|
| `TypeCorrect` | `Spec => []TypeOK` |
| `InOrder` | `Spec => []MessagesInOrder` |
| `Prompt` | `Spec => []EnvPrompt` |
| `Current` | `Spec => []EnvCurrent` |

`QueuesInv` says which messages each queue may hold (the filter of each receiver), and
`PhaseInv` how far `terminate_communicator` has come. `ControlInv` and `ReportInv` state
the order with sets, each place below the next, which a move from place to
place keeps; `ControlsFollow` and `ReportsFollow` lead back to the sequences. Messages
are relayed once each, but a message is not always what is relayed for it: one of a kind
the parser does not know (`externalAImessage` of `interf.proto`) is put into the low
queue by the default of `filter`, counts as parsed and leaves `basic_ctrl` as it was, so
that what an earlier message left there, or what was on the stack, is relayed again
(section 7, `RelaysParsed`). `MessagesInOrder` therefore speaks of both: the order of the
messages, and in `ControlsOwnContents` whose contents were relayed for each: a control's
are its own, and a repetition comes only with such a message and is never older than the
last control parsed. `HoldsInv` says of `basic_ctrl` what `ControlsOwnContents` says of
the history. `TxControlPath` is about the controls the parser took and has no such repetition
(section 3).
`PromptInv` adds that the budget of a waiting update covers its place in the high
queue, and `CurrentInv` covers the moment between reading `env_update` and giving it
to the PHYs.

`TransportBlockProofs` proves, for any bandwidths and MCS of the shipped tables, every
length of a burst and every length of the PSS up to 72 (`TransportBlockAssumption`):

| Theorem | Holds for | Statement |
|---|---|---|
| `CopiedAsCounted` | every number of PRBs from 7 on, subframes 5 and 6 | the REs `srslte_pdsch_cp_scatter` copies are as many as `ra.c` counts (`MappedRes`, `NofRe`) |
| `EncoderTiles` | every block size cut without filler bits, every modulation and number of REs | the code blocks of `encode_tb_off` are whole bytes, cover block and CRC, and fill the REs |
| `TypeCorrect` | the two loops | `Spec => []TypeOK` |
| `BlocksDelivered` | the two loops | `Spec => []Delivered` |
| `CutAlike` | the two loops | `Spec => []PiecesMatch` |

`CopiedAsCounted` counts: the REs of a subframe, its reference signals and its
synchronization symbols are put in bijection with products of intervals (`ResCount`,
`ReferenceCount`, `SyncCount`), and the last two are disjoint. Subframe 7, the one with
the PSS at the end of a burst, is left out: there `ra.c` takes away `pss_len`, 62, and the
copying leaves out the 72 REs of the centre, which is why `Delivered` excepts its blocks.
`EncoderTiles` rests on `SegmentIs`, what `srslte_cbsegm` returns for every size, and on
closed forms of the two loops over code blocks (`EncodedIs`, `DecodedIs`): where a code
block begins is a function of its index, though the code adds up as it goes. The loops
and sums are recursive functions; since the library's induction theorems cannot be
instantiated, the lemma `Least` (a set of naturals with a member has a least one, from
the well-foundedness of `Nat`) takes their place: the least index at which a closed form
fails is not 0 and has a predecessor at which it holds (`SumIs`).
`BlocksDelivered` and `CutAlike` add the tables: `TableBounds`, `TableFills` and
`TableCut` say what the proofs need of each block size, `GrantFits` that every code
block has room for the bits it must carry. The inductive invariant `Inv` states beside
`Delivered` the subframe indices of both threads (`Indices`: that of the receiver lags)
and what is on the air (`OnAir`); a block is recovered because the receiver's MCS,
REs and shares, worked out anew from the index it has, are those of the sender.

The assumptions on constants are what the code fixes by macros, types or program
start (rings have more than one buffer, the search margin fits into half a subframe,
the first control and environment are among those that may be sent, the MAC is the
first peer); TLC evaluates them for every instance.

Only model-checked:

* All liveness: `EachControlLeaves`, `ControlEnds`, `RequestsAnswered`, `Served`,
  `MessagesLeave` and `ShutdownEnds`, since liveness under fairness and `ENABLED` are
  out of the prover's reach. `ImplementsStream` is the safety part of `ControlStream`
  and is proved.

Every invariant and every safety action property of the passing runs is stated by a
theorem; `ControlCorrect` alone assumes that nothing fails, as its run does.

## 7. Disagreements between code and comments

With a run of their own (details and quotations in `PROJECT.json`):

1. `trx.c:611` frees the user data buffers while Tx threads may encode from them.
2. `phy_transmission.c:954` reports the result of an earlier burst.
3. `phy_transmission.c:890` gives the last subframe of a burst with end-of-burst PSS
   the index 7, which the receiver takes for 6 (`ue_sync.c:1060`).

Further disagreements, which the same modules show when the configuration named
is left with the one property named and the constants changed as named:

| Source | What | Configuration | Property |
|---|---|---|---|
| `phy_transmission.c:426`, `487` | the Tx thread clears an environment update that came while it tuned | `TxTuning_control` | `EnvKept` |
| `phy_transmission.c:1423` | a repeated environment message cancels a change nobody applied yet | `TxTuning_control` | `EnvKept` |
| `phy_transmission.c:388` | the frequency flag is cleared whatever the radio did, and with a frequency that came meanwhile | `TxTuning_env` | `EnvKept` |
| `phy_transmission.c:337` | after a failed bandwidth change the old bandwidth is still recorded, and a later control with it is sent with the wrong sample rate and structures | `TxTuning_control`, `Failures = {"bw"}` | `BurstMatchesControl` |
| `phy_transmission.c:542` | after the same failure the PDSCH is allocated over the bandwidth that was refused, for a control that asks for the old one | `TxBurst_safety` | `BandwidthIsOwn` |
| `phy_transmission.c:396` | a gain is recorded before its command has succeeded | `TxTuning_control`, `Failures = {"err"}`, no deadlock check | `BurstMatchesControl` |
| `rf_uhd_imp.c:1621` | error returns leave the device mutex locked | `TxTuning_control`, `Failures = {"err"}`, no deadlock check | `ControlEnds` |
| `phy_transmission.c:906` | drops of all requests so far are reported | `TxBurst_status` | `ReportsOwnDrops` |
| `phy_transmission.c:859` | the rest of a burst LBT refused is sent | `TxBurst_status`, `Lbt = TRUE` | `RefusedStaysSilent` |
| `phy_transmission.c:656` | the watchdog stays armed on an idle thread | `TxBurst_status` | `IdleUnwatched` |
| `phy_transmission.c:887` | with an initial index of 0 the last subframe has index 2 and no PSS | `TxBurst_status`, `InitialSf = 0` | `LastMarked` |
| `lbt.c:278` | IDLE overwrites a new START, and a burst is sent unsensed | `Lbt`, also with `NofPhys = 1` | `EveryAnswerJustified` |
| `lbt.c:371` | the verdict is read when another PHY's procedure may have begun | `Lbt` | `EveryAnswerJustified` |
| `lbt.c:341` | a signal wakes one of two waiting PHYs | `Lbt` | `EachRequestAnswered` |
| `lbt.c:350` | a Tx thread waits for an LBT thread that has ended | `Lbt` | `ShutdownEnds` |
| `phy_reception.c:293` | entries outlive the buffers of their bandwidth: the container is not emptied by a change, and the decoder reads a new buffer for an old subframe | `RxPath` | `DecodesReceived` |
| `phy_reception.c:620` | channel and bandwidth index reported for a subframe are those of the moment it is decoded; `set_bw_index` (326) even runs after the decoding thread was started | `RxPath` | `LabelsTrue` |
| `LayerCommunicator.cpp:22` | the sending thread uses a `CommManager` after its deletion, the PHY threads report through a freed handle | `Communicator` | `FreedAfterUse` |
| `communicator_wrapper.cpp:579` | a message of a kind the parser does not know succeeds with `basic_ctrl` as it was, and `trx.c:592` ("If message is properly retrieved and parsed, then relay it to the correct module") relays the previous control, or what is on the stack, again | `Communicator` | `RelaysParsed` |
| `trx.c:575` | for a type of message it does not know the high queue reports success without filling `env_update`, which was never initialized; the PHYs are given what is on the stack | `Communicator` | `EnvReal` |

Seen while modelling, and covered by the guards of the properties rather than by
one of their own:

* A receiver that used index 7 would still fail: `srslte_ra_dl_grant_nof_re_scatter`
  subtracts `pss_len` = 62 (`trx.c:70`) where `srslte_pdsch_cp_scatter` leaves out 72
  elements, so the last 10 symbols would be lost and the extraction refused.
* A transport block whose CRC is zero is taken for undecoded (`sch.c:510`).
* `decode_tb_cb` compares `cb_idx > C - gamma` where the encoder compares
  `i <= C - gamma - 1` (`sch.c:359`): one code block of a subframe is decoded from one
  resource element less than it has (`PiecesFound` allows exactly that).
* The decoder takes the `C1` larger blocks first and the encoder the `C2` smaller;
  no block of the tables has two sizes.
* `decode_tb_cb` returns `SRSLTE_ERROR`, which as a `bool` is true (`sch.c:367`).
* After a failed bandwidth change `phy_reception_stop_thread` joins threads that
  were joined (`JoinAgain`); `Served` and `ShutdownEnds` of `RxPath` say so.
* A radio error ends the synchronization thread for good (`phy_reception.c:1160`);
  nobody is told, and the PHY receives nothing until its bandwidth changes.
* `trx.c:453` sets `target2_name = NULL`, a local pointer.

## 8. Not modelled, and plan

Not modelled at all: the numeric signal processing (OFDM, turbo coder, sequences,
channel estimation, SIMD), channel emulator, other radios, FPGA and driver patches,
Matlab, scripts and the stand-alone test programs, and `srslte/examples`, which
repeats `phy/src`. These are numeric, vendored, generated or not part of the PHY
program, and they are almost all of the repository's lines: by far the larger part
of the roughly 112 000 lines of implementation is the srsLTE library, UHD and
generated code, so the share of all lines the modules stand for is bound to stay at
a few per cent, while the control logic of `phy/src`, `communicator/cpp`, `lbt.c`
and `ue_sync.c` is modelled except for what follows.

Gaps in what is modelled: option parsing and the opening of the devices; the start
of the threads and its failures; streaming in the UHD wrapper (`rf_uhd_imp.c`
receive and send loops, time stamps); AGC and the statistics of the Rx threads;
frequency offset in `ue_sync.c`; the width of FPGA times; timer ids (`trx.c:539`
stores them under the loop index, which only changes the name the watchdog
prints).

Plan:

1. A repeated relay (`Communicator`, `RelaysParsed`) as an action of `TxControlPath`, with
   order and refinement restated for it.
2. `Trx`: the shutdown of all threads in the order of `trx.c` over the abstract
   specifications of the components.
3. Hazards without a property: each is a disagreement of section 7, to be restated
   as what the code does guarantee where that is worth knowing.

Modules to prove about use no `RECURSIVE` operator and declare their assumptions
by name.

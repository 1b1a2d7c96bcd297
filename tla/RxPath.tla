------------------------------- MODULE RxPath -------------------------------
(***************************************************************************)
(* The Rx side of one PHY (phy_reception.c): the synchronization thread    *)
(* puts subframes into a ring of buffers and their descriptions into a     *)
(* container, the decoding thread takes them out, and the main thread      *)
(* changes channel, bandwidth and gain, for a new bandwidth by stopping    *)
(* both threads and rebuilding what they work on, and stops them at last.  *)
(*                                                                         *)
(* What a subframe is and how it gets into its buffer is in UeSync; here   *)
(* it is a number.  A centre frequency is what it is computed from.  The   *)
(* gain is set by the MAC (no AGC); sequence numbers are left out.         *)
(***************************************************************************)
EXTENDS Integers, Sequences, FiniteSets

CONSTANTS
  N,         \* NUMBER_OF_SUBFRAME_BUFFERS, also the capacity of the container
  Controls,  \* Rx controls of the MAC: channel "ch", bandwidth "bw", "gain"
  Envs,      \* environments: competition centre frequency and bandwidth
  First,     \* the control that describes the initial configuration
  FirstEnv,  \* the environment of the initial configuration
  Failures,  \* what may fail: "tune", "env", "gain", "init", "create", "recv",
             \* "free"
  MaxSub,    \* bound of the model: subframes synchronized
  MaxMsg     \* bound of the model: messages the main thread handles

ASSUME RxAssumption ==
  /\ N \in Nat /\ N > 1
  /\ First \in Controls
  /\ \A c \in Controls : c = [ch |-> c.ch, bw |-> c.bw, gain |-> c.gain]
  /\ FirstEnv \in Envs
  /\ Failures \subseteq {"tune", "env", "gain", "init", "create", "recv", "free"}
  /\ MaxSub \in Nat /\ MaxMsg \in Nat

Slots == 0 .. N - 1
Ids == 1 .. MaxSub
Bws == {c.bw : c \in Controls}
Chs == {c.ch : c \in Controls}

\* What the radio is tuned to, OffTarget when a call missed it.
Freqs == [env : Envs, bw : Bws, ch : Chs]
OffTarget == [env |-> 0, bw |-> 0, ch |-> 0]

\* short_ue_sync_t, with what was true when the subframe was received.
Entries == [id : Ids, buf : Slots, gen : Nat, ch : Chs \cup {OffTarget.ch}, bw : Bws]
NoEntry == [id |-> 0]

VARIABLES
  main,     \* where the main thread is
  bc,       \* the control it handles
  msgs,     \* messages it has handled
  closing,  \* it is in phy_reception_stop_thread
  failed,   \* a change failed
  last,     \* last_rx_basic_control
  env,      \* competition_center_freq and competition_bw
  bw,       \* default_rx_bandwidth and the size of the structures
  freq,     \* what the radio is tuned to
  gain,     \* gain of the radio
  ready,    \* ue_sync and ue_dl are initialized
  gen,      \* how often they were
  runSync,  \* run_rx_synchronization_thread
  runDec,   \* run_rx_decoding_thread
  sync,     \* where the synchronization thread is
  n,        \* subframes synchronized so far
  cur,      \* subframe_buffer_counter
  bufs,     \* input_buffer: number of the subframe in each, 0 if cleared
  hand,     \* the entry the synchronization thread is about to push
  cb,       \* rx_synch_handle
  dec,      \* where the decoding thread is
  item,     \* the entry it has popped
  decoded,  \* history of the entries it has decoded
  dropped   \* history of the entries it popped and did not decode

mainVars == <<main, bc, msgs, closing, failed, last, env, bw, freq, gain>>
ueVars   == <<ready, gen>>
syncVars == <<sync, n, cur, bufs, hand>>
decVars  == <<dec, item, decoded, dropped>>
vars == <<mainVars, ueVars, runSync, runDec, syncVars, cb, decVars>>

\* phy_reception_start_thread has succeeded.
Init ==
  /\ main = "idle" /\ bc = First /\ msgs = 0 /\ closing = FALSE
  /\ failed = FALSE
  /\ last = First /\ env = FirstEnv /\ bw = First.bw /\ gain = First.gain
  /\ freq = [env |-> env, bw |-> bw, ch |-> First.ch]
  /\ ready = TRUE /\ gen = 1 /\ runSync = TRUE /\ runDec = TRUE
  /\ sync = "loop" /\ n = 0 /\ cur = 0 /\ bufs = [s \in Slots |-> 0]
  /\ hand = NoEntry /\ cb = <<>>
  /\ dec = "check" /\ item = NoEntry /\ decoded = <<>> /\ dropped = {}

-----------------------------------------------------------------------------
(* The synchronization thread.                                             *)

\* Mutant of NextBuffer: two buffers are used.
NextBufferOfTwo(b) == (b + 1) % 2

NextBuffer(b) == (b + 1) % N

\* srslte_ue_sync_get_subframe_buffer returns 1: the subframe is in the current
\* buffer and the next one is cleared.
Synchronize ==
  /\ sync = "loop" /\ runSync /\ n < MaxSub
  /\ n' = n + 1
  /\ cur' = NextBuffer(cur)
  /\ bufs' = [bufs EXCEPT ![cur] = n + 1, ![NextBuffer(cur)] = 0]
  /\ hand' = [id |-> n + 1, buf |-> cur, gen |-> gen, ch |-> freq.ch, bw |-> bw]
  /\ sync' = "push"
  /\ UNCHANGED <<mainVars, ueVars, runSync, runDec, cb, decVars>>

\* Mutants of PushBack: no bound, the bound off by one.
PushBackUnbounded(q, e) == Append(IF Len(q) <= N THEN q ELSE Tail(q), e)
PushBackOneLess(q, e) == Append(IF Len(q) < N - 1 THEN q ELSE Tail(q), e)

\* push_back of a full boost::circular_buffer overwrites the oldest entry.
PushBack(q, e) == Append(IF Len(q) < N THEN q ELSE Tail(q), e)

Push ==
  /\ sync = "push"
  /\ cb' = PushBack(cb, hand)
  /\ hand' = NoEntry /\ sync' = "loop"
  /\ UNCHANGED <<mainVars, ueVars, runSync, runDec, n, cur, bufs, decVars>>

\* The loop ends with its flag, or by break when the radio reports an error.
SyncLeave ==
  /\ sync = "loop"
  /\ ~runSync \/ "recv" \in Failures
  /\ sync' = "left"
  /\ UNCHANGED <<mainVars, ueVars, runSync, runDec, n, cur, bufs, hand, cb,
                 decVars>>

-----------------------------------------------------------------------------
(* The decoding thread.                                                    *)

Pop ==
  /\ item' = Head(cb) /\ cb' = Tail(cb)
  /\ dec' = "popped"

\* phy_reception_timedwait_and_pop_ue_sync_from_queue: an entry that is there
\* is taken without a look at the flags.
PopNow ==
  /\ dec = "check"
  /\ IF cb # <<>> THEN Pop
                  ELSE dec' = "wait" /\ UNCHANGED <<item, cb>>
  /\ UNCHANGED <<mainVars, ueVars, runSync, runDec, syncVars, decoded, dropped>>

\* Mutant of Wake: one entry does not end the wait.
WakeForTwo ==
  /\ dec = "wait"
  /\ \/ ~(runSync /\ runDec) /\ dec' = "left" /\ UNCHANGED <<item, cb>>
     \/ runSync /\ runDec /\ Len(cb) > 1 /\ Pop
  /\ UNCHANGED <<mainVars, ueVars, runSync, runDec, syncVars, decoded, dropped>>

\* A signal or the end of the timed wait: with a flag down, the thread leaves,
\* whatever the container holds.
Wake ==
  /\ dec = "wait"
  /\ \/ ~(runSync /\ runDec) /\ dec' = "left" /\ UNCHANGED <<item, cb>>
     \/ runSync /\ runDec /\ cb # <<>> /\ Pop
  /\ UNCHANGED <<mainVars, ueVars, runSync, runDec, syncVars, decoded, dropped>>

\* The loop condition: a popped entry is decoded or, with the flag down, lost.
TestRun ==
  /\ dec = "popped"
  /\ IF runDec
     THEN dec' = "decode" /\ UNCHANGED <<item, dropped>>
     ELSE dec' = "left" /\ dropped' = dropped \cup {item.id} /\ item' = NoEntry
  /\ UNCHANGED <<mainVars, ueVars, runSync, runDec, syncVars, cb, decoded>>

Decode ==
  /\ dec = "decode"
  /\ decoded' = Append(decoded, item.id)
  /\ item' = NoEntry /\ dec' = "check"
  /\ UNCHANGED <<mainVars, ueVars, runSync, runDec, syncVars, cb, dropped>>

-----------------------------------------------------------------------------
(* The main thread.                                                        *)

threads == <<syncVars, cb, decVars>>

Idle == main = "idle" /\ msgs < MaxMsg /\ msgs' = msgs + 1

\* phy_reception_update_environment: the result of the radio is only printed.
UpdateEnvironment ==
  /\ Idle
  /\ \E e \in Envs \ {env} :
       /\ env' = e
       /\ \/ /\ freq' = [env |-> e, bw |-> bw, ch |-> last.ch]
             /\ UNCHANGED failed
          \/ /\ "env" \in Failures
             /\ freq' \in {freq, OffTarget} /\ failed' = TRUE
  /\ UNCHANGED <<main, bc, closing, last, bw, gain, ueVars, runSync, runDec,
                 threads>>

\* phy_reception_change_parameters up to the frequency.
HandleControl ==
  /\ Idle
  /\ \E c \in Controls :
       /\ bc' = c
       /\ \/ /\ c.ch # last.ch \/ c.bw # last.bw
             /\ freq' = [env |-> env, bw |-> c.bw, ch |-> c.ch]
             /\ last' = [last EXCEPT !.ch = c.ch]
             /\ main' = IF c.bw # last.bw THEN "stopSync" ELSE "gain"
             /\ UNCHANGED failed
          \/ /\ c.ch # last.ch \/ c.bw # last.bw
             /\ "tune" \in Failures
             /\ freq' \in {freq, OffTarget} /\ failed' = TRUE
             /\ UNCHANGED <<last, main>>
          \/ /\ c.ch = last.ch /\ c.bw = last.bw
             /\ main' = "gain"
             /\ UNCHANGED <<freq, last, failed>>
  /\ UNCHANGED <<closing, env, bw, gain, ueVars, runSync, runDec, threads>>

\* go_exit ends the loop: phy_reception_stop_thread is called.
Exit ==
  /\ main = "idle"
  /\ main' = "stopSync" /\ closing' = TRUE
  /\ UNCHANGED <<bc, msgs, failed, last, env, bw, freq, gain, ueVars, runSync,
                 runDec, threads>>

\* Mutant of StopSync: the flag is not lowered.
StopSyncNot ==
  /\ main = "stopSync" /\ main' = "joinSync"
  /\ UNCHANGED <<bc, msgs, closing, failed, last, env, bw, freq, gain, ueVars,
                 runSync, runDec, threads>>

StopSync ==
  /\ main = "stopSync"
  /\ runSync' = FALSE /\ main' = "joinSync"
  /\ UNCHANGED <<bc, msgs, closing, failed, last, env, bw, freq, gain, ueVars,
                 runDec, threads>>

JoinSync ==
  /\ main = "joinSync" /\ sync = "left"
  /\ sync' = "off" /\ main' = "stopDec"
  /\ UNCHANGED <<bc, msgs, closing, failed, last, env, bw, freq, gain, ueVars,
                 runSync, runDec, n, cur, bufs, hand, cb, decVars>>

StopDec ==
  /\ main = "stopDec"
  /\ runDec' = FALSE /\ main' = "joinDec"
  /\ UNCHANGED <<bc, msgs, closing, failed, last, env, bw, freq, gain, ueVars,
                 runSync, threads>>

\* Mutant of JoinDec: the thread is not waited for.
JoinDecNot ==
  /\ main = "joinDec"
  /\ main' = IF closing THEN "free" ELSE "rebuild"
  /\ UNCHANGED <<bc, msgs, closing, failed, last, env, bw, freq, gain, ueVars,
                 runSync, runDec, threads>>

JoinDec ==
  /\ main = "joinDec" /\ dec = "left"
  /\ dec' = "off" /\ main' = IF closing THEN "free" ELSE "rebuild"
  /\ UNCHANGED <<bc, msgs, closing, failed, last, env, bw, freq, gain, ueVars,
                 runSync, runDec, syncVars, cb, item, decoded, dropped>>

\* A thread a failed change has joined already: pthread_join is undefined.
JoinAgain ==
  /\ \/ main = "joinSync" /\ sync = "off"
     \/ main = "joinDec" /\ dec = "off"
  /\ main' = "undefined"
  /\ UNCHANGED <<bc, msgs, closing, failed, last, env, bw, freq, gain, ueVars,
                 runSync, runDec, threads>>

\* phy_reception_change_bw between the joins and the starts: free, set the
\* sample rate, initialize.
Rebuild ==
  /\ main = "rebuild"
  /\ bw' = bc.bw /\ runSync' = TRUE /\ runDec' = TRUE
  /\ \/ /\ ready' = TRUE /\ gen' = gen + 1
        /\ cur' = 0 /\ bufs' = [s \in Slots |-> 0]
        /\ main' = "startSync"
        /\ UNCHANGED failed
     \/ /\ "init" \in Failures
        /\ ready' = FALSE /\ failed' = TRUE /\ main' = "idle"
        /\ UNCHANGED <<gen, cur, bufs>>
  /\ UNCHANGED <<bc, msgs, closing, last, env, freq, gain, sync, n, hand, cb,
                 decVars>>

StartSync ==
  /\ main = "startSync"
  /\ runSync' = TRUE
  /\ \/ sync' = "loop" /\ main' = "startDec" /\ UNCHANGED failed
     \/ "create" \in Failures /\ main' = "idle" /\ failed' = TRUE
        /\ UNCHANGED sync
  /\ UNCHANGED <<bc, msgs, closing, last, env, bw, freq, gain, ueVars, runDec,
                 n, cur, bufs, hand, cb, decVars>>

StartDec ==
  /\ main = "startDec"
  /\ runDec' = TRUE
  /\ \/ dec' = "check" /\ main' = "record" /\ UNCHANGED failed
     \/ "create" \in Failures /\ main' = "idle" /\ failed' = TRUE
        /\ UNCHANGED dec
  /\ UNCHANGED <<bc, msgs, closing, last, env, bw, freq, gain, ueVars, runSync,
                 syncVars, cb, item, decoded, dropped>>

\* Mutant of RecordBw: the bandwidth is not recorded.
RecordBwNot ==
  /\ main = "record" /\ main' = "gain"
  /\ UNCHANGED <<bc, msgs, closing, failed, last, env, bw, freq, gain, ueVars,
                 runSync, runDec, threads>>

\* set_bw_index, when both threads run already.
RecordBw ==
  /\ main = "record"
  /\ last' = [last EXCEPT !.bw = bc.bw] /\ main' = "gain"
  /\ UNCHANGED <<bc, msgs, closing, failed, env, bw, freq, gain, ueVars,
                 runSync, runDec, threads>>

SetGain ==
  /\ main = "gain"
  /\ main' = "idle"
  /\ \/ /\ gain' = IF last.gain # bc.gain THEN bc.gain ELSE gain
        /\ last' = [last EXCEPT !.gain = bc.gain]
        /\ UNCHANGED failed
     \/ /\ "gain" \in Failures /\ last.gain # bc.gain
        /\ failed' = TRUE
        /\ UNCHANGED <<gain, last>>
  /\ UNCHANGED <<bc, msgs, closing, env, bw, freq, ueVars, runSync, runDec,
                 threads>>

\* The rest of phy_reception_stop_thread.  It returns early when the condition
\* variable is not destroyed (nothing is freed) or the stream not flushed (the
\* container is not); the main thread exits either way.
Free ==
  /\ main = "free" /\ main' = "ended"
  /\ \/ ready' = FALSE /\ cb' = <<>> /\ UNCHANGED failed
     \/ /\ "free" \in Failures
        /\ ready' \in {ready, FALSE} /\ failed' = TRUE
        /\ UNCHANGED cb
  /\ UNCHANGED <<bc, msgs, closing, last, env, bw, freq, gain, gen,
                 runSync, runDec, syncVars, decVars>>

-----------------------------------------------------------------------------
SyncThread == Synchronize \/ Push \/ SyncLeave
DecThread == PopNow \/ Wake \/ TestRun \/ Decode
Change == StopSync \/ JoinSync \/ StopDec \/ JoinDec \/ JoinAgain \/ Rebuild
            \/ StartSync \/ StartDec \/ RecordBw \/ SetGain \/ Free

Next == SyncThread \/ DecThread \/ Change
          \/ UpdateEnvironment \/ HandleControl \/ Exit

Spec == Init /\ [][Next]_vars

\* All threads are scheduled; nothing obliges a subframe, a message or SIGINT
\* to come.  The synchronization thread does not wait for a subframe for ever:
\* the radio delivers samples or an error.
FairSpec ==
  /\ Spec
  /\ WF_vars(Push) /\ WF_vars(SyncLeave /\ ~runSync)
  /\ WF_vars(DecThread) /\ WF_vars(Change)

-----------------------------------------------------------------------------
TypeOK ==
  /\ main \in {"idle", "stopSync", "joinSync", "stopDec", "joinDec", "rebuild",
               "startSync", "startDec", "record", "gain", "free", "ended",
               "undefined"}
  /\ bc \in Controls /\ last \in [ch : Chs, bw : Bws, gain : {c.gain : c \in Controls}]
  /\ msgs \in 0 .. MaxMsg /\ n \in 0 .. MaxSub /\ gen \in Nat
  /\ {closing, failed, ready, runSync, runDec} \subseteq BOOLEAN
  /\ env \in Envs /\ bw \in Bws /\ gain \in {c.gain : c \in Controls}
  /\ freq \in Freqs \cup {OffTarget}
  /\ sync \in {"loop", "push", "left", "off"}
  /\ cur \in Slots /\ bufs \in [Slots -> Ids \cup {0}]
  /\ hand \in Entries \cup {NoEntry} /\ item \in Entries \cup {NoEntry}
  /\ cb \in Seq(Entries) /\ Len(cb) <= N
  /\ dec \in {"check", "wait", "popped", "decode", "left", "off"}
  /\ decoded \in Seq(Ids) /\ dropped \subseteq Ids

Queued == {cb[k].id : k \in DOMAIN cb}
InHand == {hand.id, item.id} \ {0}

(* The buffer of an entry that is decoded holds its subframe, unless the   *)
(* structures were rebuilt or N - 1 further subframes were synchronized    *)
(* meanwhile: the ring is cleared one buffer ahead of the container.       *)
EntryIntact ==
  dec = "decode" /\ item.gen = gen /\ n < item.id + N - 1 =>
    ready /\ bufs[item.buf] = item.id

(* Subframes are decoded in the order they were received, each once, and   *)
(* what waits is younger than what was decoded.                            *)
InOrder ==
  /\ \A i, j \in DOMAIN decoded : i < j => decoded[i] < decoded[j]
  /\ \A i, j \in DOMAIN cb : i < j => cb[i].id < cb[j].id
  /\ \A i \in DOMAIN decoded, id \in Queued \cup InHand : decoded[i] < id

(* No subframe vanishes between the threads: it was decoded, it is on its  *)
(* way, N younger ones were pushed over it, or the decoding thread took it *)
(* when it was told to stop; that is one per stop.  Bandwidth changes do   *)
(* not empty the container.                                                *)
NothingVanishes ==
  main # "ended" =>
    /\ \A id \in 1 .. n :
         \/ id \in Queued \cup InHand \cup dropped
         \/ \E i \in DOMAIN decoded : decoded[i] = id
         \/ n >= id + N
    /\ Cardinality(dropped) <= gen

(* The decoding thread gets what the synchronization thread received: in   *)
(* order, once, and all of it but for the losses named.                    *)
Delivery == InOrder /\ NothingVanishes

(* The structures are freed and rebuilt, and the container is freed, only  *)
(* when no thread works on them: both were joined.                         *)
JoinedBeforeFreed ==
  ~ready \/ main \in {"rebuild", "free", "ended"} =>
    sync = "off" /\ dec = "off"

(* Between two messages the radio is tuned for the environment, the        *)
(* channel and the bandwidth recorded, and the structures are of that      *)
(* bandwidth, whatever changes came before, as long as none failed.        *)
Tuned ==
  main = "idle" /\ ~failed =>
    /\ last.bw = bw /\ last.gain = gain /\ ready
    /\ freq = [env |-> env, bw |-> bw, ch |-> last.ch]

(* An entry in the container does not stay there: its signal cannot be     *)
(* lost for good, for the wait is timed, and a bandwidth change starts the *)
(* decoding thread again.  After a failed change nobody may be left.       *)
Served ==
  \A id \in Ids : id \in Queued ~> id \notin Queued \/ failed

(* phy_reception_stop_thread ends, also when the synchronization thread    *)
(* has left its loop on an error, unless a change failed before.           *)
ShutdownEnds == closing ~> main = "ended" \/ failed

-----------------------------------------------------------------------------
(* What comments say and the code does not keep.                           *)

(* "Create an alias to the input buffer containing the synchronized and    *)
(* aligned subframe": the subframe decoded is one that the present         *)
(* structures received.                                                    *)
DecodesReceived == dec = "decode" => item.gen = gen

(* "Set the channel number where the data was received at", and the        *)
(* bandwidth the subframe is decoded with is its own.                      *)
LabelsTrue ==
  dec = "decode" /\ item.gen = gen => last.ch = item.ch /\ last.bw = item.bw
=============================================================================

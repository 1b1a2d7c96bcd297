------------------------------- MODULE UeSync -------------------------------
(***************************************************************************)
(* How the Rx synchronization thread cuts subframes out of the sample      *)
(* stream of the radio (phy_reception_sync_work, ue_sync.c, sync.c).  In   *)
(* state FIND it looks for the PSS of a burst in a window that it shifts   *)
(* along the stream; the SCH next to it says how many subframes follow.    *)
(* In state TRACK it takes these one after the other.  Samples read but    *)
(* not delivered stay in the previous buffer of a ring.                    *)
(*                                                                         *)
(* One action is one iteration of the thread's loop.  A sample is its      *)
(* position in the stream, or Zero in a buffer that bzero cleared.  The    *)
(* radio delivers every sample or reports an error.  decode_pdcch is       *)
(* false, as trx.c sets it; a burst for another node is not FOUND, which   *)
(* is a stream without it.                                                 *)
(***************************************************************************)
EXTENDS Integers, Sequences, FiniteSets

CONSTANTS
  L,          \* sf_len and frame_len, the samples of a subframe
  F,          \* fft_size, the samples of the PSS
  N,          \* NUMBER_OF_SUBFRAME_BUFFERS
  Streams,    \* what may be on the air: sets of bursts, each with its first
              \* sample "at" and its number of subframes "n"
  Nofs,       \* numbers of subframes a wrong SCH decoding may give
  MaxWrong,   \* bound of the model: wrong answers of the PSS search
  MaxPos      \* bound of the model: samples after which no iteration starts

Half == L \div 2
Zero == -1

ASSUME UeSyncAssumption ==
  /\ L \in Nat /\ F \in Nat /\ 2 < F /\ 2 * F <= L /\ L = 2 * Half
  /\ N \in Nat /\ N > 1
  /\ Streams \subseteq SUBSET [at : Nat, n : Nat \ {0}]
  /\ Nofs \subseteq Nat
  /\ MaxWrong \in Nat /\ MaxPos \in Nat

Index == 0 .. 3 * L - 1
Sample == Nat \cup {Zero}
Buffer == [Index -> Sample]

VARIABLES
  bursts,     \* what is on the air
  pos,        \* samples read from the radio
  buf,        \* input_buffer
  cur,        \* subframe_buffer_counter
  prev,       \* previous_subframe_buffer_counter_value
  left,       \* num_of_samples_still_in_buffer
  leftPos,    \* pos_start_of_samples_still_in_buffer
  start,      \* subframe_start_index
  st,         \* state
  last,       \* last_state
  nof,        \* sfind.nof_subframes_to_rx
  counter,    \* subframe_counter
  synced,     \* iterations that ended with a synchronized subframe
  pushed,     \* history of the subframes pushed for decoding
  done,       \* history: where the bursts delivered so far end
  watchdog,   \* the timer of the thread is armed
  alive,      \* the thread is in its loop
  wrong       \* wrong answers of the PSS search so far

vars == <<bursts, pos, buf, cur, prev, left, leftPos, start, st, last, nof,
          counter, synced, pushed, done, watchdog, alive, wrong>>

Cleared == [i \in Index |-> Zero]

Init ==
  /\ bursts \in Streams
  /\ pos = 0
  /\ buf = [b \in 0 .. N - 1 |-> Cleared] /\ cur = 0 /\ prev = N - 1
  /\ left = 0 /\ leftPos = 0 /\ start = 0
  /\ st = "FIND" /\ last = "FIND"
  /\ nof = 0 /\ counter = 0 /\ synced = 0
  /\ pushed = <<>> /\ done = 0
  /\ watchdog = FALSE /\ alive = TRUE /\ wrong = 0

-----------------------------------------------------------------------------
(* receive_samples: the kept samples come behind a subframe of zeros, or   *)
(* the current buffer is shifted by a subframe; the radio fills the rest.  *)

ReadToFind == IF left > 0 THEN 2 * L - left ELSE L

MovedToFind ==
  [i \in Index |->
     CASE i >= 3 * L - ReadToFind \/ (left > 0 /\ i < L) -> buf[cur][i]
       [] left > 0 /\ i >= L /\ i < L + left -> buf[prev][leftPos + i - L]
       [] OTHER -> buf[cur][i + L]]

ReceivedToFind ==
  [i \in Index |-> IF i < 3 * L - ReadToFind
                   THEN MovedToFind[i]
                   ELSE pos + i - (3 * L - ReadToFind)]

(* srslte_sync_find_sch correlates the L samples at L + off with the PSS:  *)
(* the peak is where a PSS ends, which lies in the middle of the first     *)
(* subframe of a burst.  The answer is the peak and the number of          *)
(* subframes from the SCH.                                                 *)
Right(w, off) ==
  {<<L + off + d[1], d[2].n>> : d \in
     {e \in (F .. L) \X bursts :
        \A j \in 1 .. F : w[L + off + e[1] - j] = e[2].at + Half - j}}

\* What noise may make of it: any index of the correlation, any SCH value.
Wrong(off) == {<<L + off + r, n>> : r \in 0 .. L + F - 3, n \in Nofs}

Nothing == <<>>

\* Mutant of Correct: no second search.
CorrectOneSearch(w) == IF Right(w, 0) # {} THEN Right(w, 0) ELSE {Nothing}

(* The two searches of an iteration, at 0 and, without success, at Half.   *)
Correct(w) ==
  CASE Right(w, 0) # {} -> Right(w, 0)
    [] Right(w, 0) = {} /\ Right(w, Half) # {} -> Right(w, Half)
    [] OTHER -> {Nothing}

Possible(w) ==
  IF wrong = MaxWrong
  THEN Correct(w)
  ELSE Correct(w) \cup Right(w, Half) \cup Wrong(0) \cup Wrong(Half)
         \cup {Nothing}

Find(w, found) ==
  /\ found \in Possible(w)
  /\ wrong' = IF found \in Correct(w) THEN wrong ELSE wrong + 1

-----------------------------------------------------------------------------
\* Mutant of NextBuffer: the ring does not wrap.
NextBufferNoWrap(b) == b + 1

NextBuffer(b) == (b + 1) % N

\* Mutant of Bzero: the buffer is not cleared.
BzeroNothing(bs, b) == bs

Bzero(bs, b) == [bs EXCEPT ![b] = Cleared]

(* The end of an iteration that synchronized the subframe at s of w, with  *)
(* n subframes in its burst: srslte_ue_sync_get_subframe_buffer and the    *)
(* rest of the loop body.                                                  *)
Synchronized(w, s, n, lastState) ==
  LET first == lastState = "FIND" /\ counter = 0
      next  == lastState = "TRACK" /\ counter > 0
      count == IF first THEN 1 ELSE counter + 1
      over  == count >= n
  IN /\ buf' = Bzero([buf EXCEPT ![cur] = w], NextBuffer(cur))
     /\ prev' = cur /\ cur' = NextBuffer(cur)
     /\ start' = s
     /\ synced' = synced + 1
     /\ IF first \/ next
        THEN /\ pushed' = Append(pushed,
                   [buf |-> cur, start |-> s, counter |-> count, nof |-> n,
                    end |-> pos' - left', done |-> done,
                    samples |-> [i \in 0 .. L - 1 |-> w[s + i]]])
             /\ counter' = IF over THEN 0 ELSE count
             /\ nof' = IF over THEN 0 ELSE n
             /\ st' = IF over THEN "FIND" ELSE "TRACK"
             /\ last' = IF over THEN "TRACK" ELSE lastState
             /\ done' = IF over /\ pos' - left' > done THEN pos' - left'
                                                     ELSE done
             /\ watchdog' = FALSE
        ELSE /\ st' = "TRACK" /\ last' = lastState /\ nof' = n
             /\ watchdog' = TRUE
             /\ UNCHANGED <<counter, pushed, done>>
     /\ UNCHANGED <<bursts, alive>>

\* The radio reports an error: the thread leaves its loop by break.
Break ==
  /\ alive' = FALSE /\ watchdog' = TRUE
  /\ UNCHANGED <<bursts, cur, prev, start, st, last, counter, synced, pushed,
                 done>>

Iterate(state) == alive /\ st = state /\ pos < MaxPos

\* Mutant of FindNothing: the continue leaves the watchdog armed.
FindNothingArmed ==
  /\ Iterate("FIND")
  /\ Find(ReceivedToFind, Nothing)
  /\ buf' = [buf EXCEPT ![cur] = ReceivedToFind]
  /\ pos' = pos + ReadToFind
  /\ left' = 0 /\ leftPos' = 0
  /\ last' = "FIND" /\ nof' = 0
  /\ watchdog' = TRUE
  /\ UNCHANGED <<bursts, cur, prev, start, st, counter, synced, pushed, done,
                 alive>>

\* No PSS in the window, or one of a burst for another node.
FindNothing ==
  /\ Iterate("FIND")
  /\ Find(ReceivedToFind, Nothing)
  /\ buf' = [buf EXCEPT ![cur] = ReceivedToFind]
  /\ pos' = pos + ReadToFind
  /\ left' = 0 /\ leftPos' = 0
  /\ last' = "FIND" /\ nof' = 0
  /\ watchdog' = FALSE
  /\ UNCHANGED <<bursts, cur, prev, start, st, counter, synced, pushed, done,
                 alive>>

Offset(peak) == peak - Half

Stay(peak) == 3 * L - Offset(peak)

\* The copy of find_peak_ok that brings an incomplete subframe to the front.
Aligned(w, peak) ==
  [i \in Index |-> IF i < Stay(peak) THEN w[Offset(peak) + i] ELSE w[i]]

(* find_peak_ok: the subframe of the peak is in the buffer, and what       *)
(* follows it is kept; or its end is still to be read.                     *)
FindPeak ==
  /\ Iterate("FIND")
  /\ \E d \in Possible(ReceivedToFind) \ {Nothing} :
       /\ Find(ReceivedToFind, d)
       /\ Stay(d[1]) >= L
       /\ left' = Stay(d[1]) - L /\ leftPos' = d[1] + Half
       /\ pos' = pos + ReadToFind
       /\ Synchronized(ReceivedToFind, Offset(d[1]), d[2], "FIND")

FindPeakAtEnd ==
  /\ Iterate("FIND")
  /\ \E d \in Possible(ReceivedToFind) \ {Nothing} :
       /\ Find(ReceivedToFind, d)
       /\ Stay(d[1]) < L
       /\ left' = 0 /\ leftPos' = 0
       /\ pos' = pos + ReadToFind + L - Stay(d[1])
       /\ Synchronized(
            [i \in Index |->
               IF i >= Stay(d[1]) /\ i < L
               THEN pos + ReadToFind + i - Stay(d[1])
               ELSE Aligned(ReceivedToFind, d[1])[i]],
            0, d[2], "FIND")

FindError ==
  /\ Iterate("FIND")
  /\ left' = 0 /\ leftPos' = 0
  /\ \/ /\ buf' = [buf EXCEPT ![cur] = MovedToFind]
        /\ UNCHANGED <<pos, nof, wrong>>
     \/ \E d \in Possible(ReceivedToFind) \ {Nothing} :
          /\ Find(ReceivedToFind, d)
          /\ Stay(d[1]) < L
          /\ buf' = [buf EXCEPT ![cur] = Aligned(ReceivedToFind, d[1])]
          /\ pos' = pos + ReadToFind /\ nof' = d[2]
  /\ Break

\* Mutant of MovedToTrack: the kept samples are taken from the current buffer.
MovedToTrackSameBuffer ==
  [i \in Index |-> IF i >= L /\ i < L + left
                   THEN buf[cur][leftPos + i - L]
                   ELSE buf[cur][i]]

(* receive_samples_after_peak_found: the kept samples come to L, and the   *)
(* radio is read only when they are less than a subframe.                  *)
MovedToTrack ==
  [i \in Index |-> IF i >= L /\ i < L + left
                   THEN buf[prev][leftPos + i - L]
                   ELSE buf[cur][i]]

TrackAndRead ==
  /\ Iterate("TRACK")
  /\ left < L
  /\ left' = 0 /\ leftPos' = 0
  /\ pos' = pos + L - left
  /\ Synchronized(
       [i \in Index |-> IF i >= L + left /\ i < 2 * L
                        THEN pos + i - (L + left)
                        ELSE MovedToTrack[i]],
       L, nof, "TRACK")
  /\ UNCHANGED wrong

\* Mutant of TrackKept: the start of the kept samples is moved on as if they
\* had not been copied.
TrackKeptNotCopied ==
  /\ Iterate("TRACK")
  /\ left >= L
  /\ left' = left - L /\ leftPos' = leftPos + L
  /\ UNCHANGED <<pos, wrong>>
  /\ Synchronized(MovedToTrack, L, nof, "TRACK")

TrackKept ==
  /\ Iterate("TRACK")
  /\ left >= L
  /\ left' = left - L /\ leftPos' = 2 * L
  /\ UNCHANGED <<pos, wrong>>
  /\ Synchronized(MovedToTrack, L, nof, "TRACK")

TrackError ==
  /\ Iterate("TRACK")
  /\ left < L
  /\ buf' = [buf EXCEPT ![cur] = MovedToTrack]
  /\ Break
  /\ UNCHANGED <<pos, left, leftPos, nof, wrong>>

Next == FindNothing \/ FindPeak \/ FindPeakAtEnd \/ FindError
          \/ TrackAndRead \/ TrackKept \/ TrackError

Spec == Init /\ [][Next]_vars

-----------------------------------------------------------------------------
TypeOK ==
  /\ bursts \in Streams
  /\ pos \in Nat
  /\ buf \in [0 .. N - 1 -> Buffer]
  /\ cur \in 0 .. N - 1 /\ prev \in 0 .. N - 1
  /\ left \in 0 .. 3 * L /\ leftPos \in 0 .. 3 * L /\ start \in 0 .. 2 * L
  /\ st \in {"FIND", "TRACK"} /\ last \in {"FIND", "TRACK"}
  /\ nof \in Nat /\ counter \in Nat /\ synced \in Nat
  /\ pushed \in Seq([buf : 0 .. N - 1, start : 0 .. 2 * L, counter : Nat,
                     nof : Nat, end : Int, done : Nat,
                     samples : [0 .. L - 1 -> Sample]])
  /\ done \in Nat
  /\ watchdog \in BOOLEAN /\ alive \in BOOLEAN
  /\ wrong \in 0 .. MaxWrong

\* A sample of the stream where the bursts delivered before end at d: what
\* these bursts hold is not kept, and nothing precedes the stream.
From(d, p) == IF p < d THEN Zero ELSE p

(* A subframe is L successive samples of the stream, and within a burst    *)
(* they follow those of the subframe before, whatever the search answered: *)
(* no sample is lost, repeated or read from the wrong place of the ring.   *)
BurstContinues ==
  \A k \in DOMAIN pushed :
    /\ \A i \in 0 .. L - 1 :
         pushed[k].samples[i] = From(pushed[k].done, pushed[k].end - L + i)
    /\ pushed[k].counter > 1 =>
         /\ k > 1
         /\ pushed[k].counter = pushed[k - 1].counter + 1
         /\ pushed[k].end = pushed[k - 1].end + L
         /\ pushed[k].done = pushed[k - 1].done

(* No sample is delivered twice, even when the search reports a peak that  *)
(* is none: buffers are cleared before they are used again.                *)
NoSampleTwice ==
  \A k, l \in DOMAIN pushed :
    k < l => \A i, j \in 0 .. L - 1 :
               pushed[k].samples[i] = pushed[l].samples[j] =>
                 pushed[k].samples[i] = Zero

(* As long as the search is right, exactly the subframes of the bursts are *)
(* delivered, in order and with their number in the burst, and each burst  *)
(* is delivered whole once two more subframes are read.                    *)
Carries(e, b) ==
  /\ e.nof = b.n
  /\ e.counter \in 1 .. b.n
  /\ \A i \in 0 .. L - 1 : e.samples[i] = b.at + (e.counter - 1) * L + i

BurstsDelivered ==
  wrong = 0 =>
    /\ \A k \in DOMAIN pushed : \E b \in bursts : Carries(pushed[k], b)
    /\ \A k \in 2 .. Len(pushed) : pushed[k].end >= pushed[k - 1].end + L
    /\ \A b \in bursts : alive /\ pos >= b.at + (b.n + 2) * L =>
         \A c \in 1 .. b.n :
           \E k \in DOMAIN pushed : Carries(pushed[k], b) /\ pushed[k].counter = c

(* The kept samples lie inside the previous buffer and fit behind the      *)
(* first subframe of the current one, so the exit(-1) of receive_samples   *)
(* is not reached and no copy leaves a buffer; they are the last ones      *)
(* read, intact where they were left.                                      *)
KeptIntact ==
  /\ leftPos + left <= 3 * L /\ left <= 2 * L
  /\ \A i \in 0 .. left - 1 : buf[prev][leftPos + i] = From(done, pos - left + i)

(* The samples of the last N - 1 subframes pushed are still where their    *)
(* entries say.                                                            *)
PushedIntact ==
  \A k \in DOMAIN pushed : k + N - 1 > Len(pushed) =>
    \A i \in 0 .. L - 1 :
      buf[pushed[k].buf][pushed[k].start + i] = pushed[k].samples[i]

(* What the next iteration and the decoding thread will read is still in   *)
(* the ring, though buffers are filled and cleared all the time.           *)
RingKeeps == KeptIntact /\ PushedIntact

(* The thread's own account of what it did is true: every synchronized     *)
(* subframe is counted and pushed (the branch that reports "something      *)
(* wrong with the subframe_counter" is not taken), and the watchdog is     *)
(* armed between two iterations only if the thread has left its loop on an *)
(* error of the radio, whichever way an iteration ended.                   *)
InStep ==
  /\ synced = Len(pushed)
  /\ watchdog => ~alive
=============================================================================

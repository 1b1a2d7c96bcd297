----------------------------- MODULE UeSyncProofs -----------------------------
(***************************************************************************)
(* Proofs about UeSync for any lengths of subframe and PSS, any number of  *)
(* buffers, anything on the air and any number of wrong answers of the     *)
(* search.                                                                 *)
(***************************************************************************)
EXTENDS UeSync, SequenceTheorems, TLAPS

---------------------------------------------------------------------------
(* The inductive invariant.                                                *)

\* Between two iterations a burst is followed in state TRACK only.
CountInv ==
  /\ InStep
  /\ st = "FIND" => counter = 0
  /\ st = "TRACK" => counter > 0

\* The kept samples, and what the current buffer holds when the next window is
\* built behind or around it.
ReadInv ==
  /\ KeptIntact /\ done <= pos
  /\ alive /\ st = "FIND" /\ left = 0 =>
       \A i \in Index : buf[cur][i] = From(done, pos - 3 * L + i)
  /\ alive /\ st = "FIND" /\ left > 0 =>
       done >= pos - left /\ \A i \in Index : buf[cur][i] = Zero

\* The entry pushed last is of the burst in progress and ends where the kept
\* samples begin.
EntryInv ==
  /\ BurstContinues
  /\ st = "TRACK" =>
       /\ pushed # <<>>
       /\ pushed[Len(pushed)].counter = counter
       /\ pushed[Len(pushed)].end = pos - left
       /\ pushed[Len(pushed)].done = done

\* Later subframes begin behind earlier ones, or take nothing of them.
OrderInv ==
  /\ \A k, l \in DOMAIN pushed : k < l =>
       pushed[l].done >= pushed[k].end \/ pushed[l].end >= pushed[k].end + L
  /\ \A k \in DOMAIN pushed :
       done >= pushed[k].end \/ (st = "TRACK" /\ pos - left >= pushed[k].end)

\* The current buffer is as many buffers behind that of an entry as there are
\* entries from that one on, counted round the ring.
RingInv ==
  /\ prev # cur /\ PushedIntact
  /\ \A k \in DOMAIN pushed : k + N > Len(pushed) =>
       cur - pushed[k].buf \in {Len(pushed) + 1 - k, Len(pushed) + 1 - k - N}

IndInv == TypeOK /\ CountInv /\ ReadInv /\ EntryInv /\ OrderInv /\ RingInv

---------------------------------------------------------------------------
(* Lengths and buffers.                                                    *)

\* A subframe has two halves, each of at least a PSS.
LEMMA Lengths ==
  /\ L \in Nat /\ F \in Nat /\ Half \in Nat /\ L = 2 * Half /\ 2 < F /\ F <= Half
  /\ N \in Nat /\ N > 1 /\ MaxWrong \in Nat
  /\ Index = 0 .. 3 * L - 1
  /\ \A b \in Streams : b \subseteq [at : Nat, n : Nat \ {0}]
  /\ Nofs \subseteq Nat
<1>1. /\ L \in Nat /\ F \in Nat /\ 2 < F /\ 2 * F <= L /\ L = 2 * Half
      /\ N \in Nat /\ N > 1 /\ MaxWrong \in Nat /\ Nofs \subseteq Nat
      /\ Streams \subseteq SUBSET [at : Nat, n : Nat \ {0}]
  BY UeSyncAssumption
<1>2. Half \in Nat
  BY <1>1 DEF Half
<1> QED BY <1>1, <1>2 DEF Index

\* The buffer that follows, round the ring.
LEMMA NextBufferValue ==
  ASSUME NEW b \in 0 .. N - 1
  PROVE  /\ NextBuffer(b) = IF b = N - 1 THEN 0 ELSE b + 1
         /\ NextBuffer(b) \in 0 .. N - 1 /\ NextBuffer(b) # b
<1>1. N \in Nat /\ N > 1 /\ b \in Nat
  BY Lengths
<1>2. CASE b = N - 1
  BY <1>1, <1>2 DEF NextBuffer
<1>3. CASE b # N - 1
  <2>1. b + 1 \in 0 .. N - 1
    BY <1>1, <1>3
  <2>2. (b + 1) % N = b + 1
    BY <1>1, <2>1
  <2> QED BY <1>1, <1>3, <2>1, <2>2 DEF NextBuffer
<1> QED BY <1>2, <1>3

\* A sample is one of the stream or none.
LEMMA FromType ==
  ASSUME NEW d \in Nat, NEW p \in Int
  PROVE  /\ From(d, p) \in Sample
         /\ p < d => From(d, p) = Zero
         /\ p >= d => From(d, p) = p /\ p # Zero
BY DEF From, Sample, Zero

---------------------------------------------------------------------------
(* The search.                                                             *)

\* A peak lies where its subframe begins in the window, behind the first half.
Peaks == L .. 3 * L - 3

\* What a search that is right answers: nothing, or a peak within the window.
LEMMA RightRange ==
  ASSUME bursts \in Streams, NEW w, NEW off \in {0, Half}
  PROVE  \A d \in Right(w, off) : d # Nothing /\ d[1] \in Peaks /\ d[2] \in Nat
<1> SUFFICES ASSUME NEW d \in Right(w, off)
             PROVE  d # Nothing /\ d[1] \in Peaks /\ d[2] \in Nat
  OBVIOUS
<1>1. PICK e \in (F .. L) \X bursts : d = <<L + off + e[1], e[2].n>>
  BY DEF Right
<1>2. e[1] \in F .. L /\ e[2] \in bursts
  BY <1>1
<1>3. e[2].n \in Nat
  BY <1>2, Lengths
<1>4. L + off + e[1] \in Peaks
  BY <1>2, Lengths DEF Peaks
<1> QED BY <1>1, <1>3, <1>4 DEF Nothing

\* So does a search that is wrong; when no error is left, the answer is right.
LEMMA PossibleRange ==
  ASSUME bursts \in Streams, NEW w
  PROVE  /\ \A d \in Possible(w) \ {Nothing} : d[1] \in Peaks /\ d[2] \in Nat
         /\ wrong = MaxWrong => Possible(w) = Correct(w)
<1>1. \A d \in Correct(w) \ {Nothing} : d \in Right(w, 0) \cup Right(w, Half)
  BY DEF Correct
<1>2. ASSUME NEW off \in {0, Half}
      PROVE  \A d \in Wrong(off) : d[1] \in Peaks /\ d[2] \in Nat
  <2> SUFFICES ASSUME NEW d \in Wrong(off)
               PROVE  d[1] \in Peaks /\ d[2] \in Nat
    OBVIOUS
  <2>1. PICK r \in 0 .. L + F - 3, n \in Nofs : d = <<L + off + r, n>>
    BY DEF Wrong
  <2>2. L + off + r \in Peaks /\ n \in Nat
    BY Lengths DEF Peaks
  <2> QED BY <2>1, <2>2
<1>3. \A d \in Right(w, 0) \cup Right(w, Half) : d[1] \in Peaks /\ d[2] \in Nat
  BY RightRange
<1>4. /\ \A d \in Wrong(0) : d[1] \in Peaks /\ d[2] \in Nat
      /\ \A d \in Wrong(Half) : d[1] \in Peaks /\ d[2] \in Nat
  BY <1>2
<1>5. wrong = MaxWrong => Possible(w) = Correct(w)
  BY DEF Possible
<1>6. \A d \in Possible(w) \ {Nothing} :
        d \in Right(w, 0) \cup Right(w, Half) \cup Wrong(0) \cup Wrong(Half)
  BY <1>1 DEF Possible
<1> QED BY <1>3, <1>4, <1>5, <1>6

\* Wrong answers are counted.
LEMMA FindType ==
  ASSUME bursts \in Streams, wrong \in 0 .. MaxWrong, NEW w, NEW d, Find(w, d)
  PROVE  wrong' \in 0 .. MaxWrong
<1>1. wrong' = IF d \in Correct(w) THEN wrong ELSE wrong + 1
  BY DEF Find
<1>2. wrong = MaxWrong => d \in Correct(w)
  BY PossibleRange DEF Find
<1>3. MaxWrong \in Nat
  BY Lengths
<1> QED BY <1>1, <1>2, <1>3

---------------------------------------------------------------------------
(* The windows.                                                            *)

\* What the window of an iteration in state FIND holds: the stream up to the
\* last sample read, without the bursts delivered.
LEMMA WindowFind ==
  ASSUME TypeOK, ReadInv, alive, st = "FIND"
  PROVE  /\ ReadToFind \in 0 .. 2 * L
         /\ \A i \in Index : ReceivedToFind[i] = From(done, pos + ReadToFind - 3 * L + i)
         /\ ReceivedToFind \in Buffer /\ MovedToFind \in Buffer
<1>0. /\ L \in Nat /\ Index = 0 .. 3 * L - 1 /\ pos \in Nat /\ done \in Nat /\ done <= pos
      /\ left \in Nat /\ left <= 2 * L /\ leftPos \in Nat /\ leftPos + left <= 3 * L
      /\ buf[cur] \in [Index -> Sample] /\ buf[prev] \in [Index -> Sample]
      /\ \A i \in 0 .. left - 1 : buf[prev][leftPos + i] = From(done, pos - left + i)
  BY Lengths DEF TypeOK, ReadInv, KeptIntact, Buffer
<1>1. ReadToFind = (IF left > 0 THEN 2 * L - left ELSE L) /\ ReadToFind \in 0 .. 2 * L
  BY <1>0 DEF ReadToFind
<1>2. ASSUME NEW i \in Index
      PROVE  /\ i < 3 * L - ReadToFind =>
                  MovedToFind[i] = From(done, pos + ReadToFind - 3 * L + i)
             /\ MovedToFind[i] \in Sample
  <2>1. MovedToFind[i] =
          CASE i >= 3 * L - ReadToFind \/ (left > 0 /\ i < L) -> buf[cur][i]
            [] left > 0 /\ i >= L /\ i < L + left -> buf[prev][leftPos + i - L]
            [] OTHER -> buf[cur][i + L]
    BY DEF MovedToFind
  <2>2. CASE i >= 3 * L - ReadToFind
    <3>1. ~(left > 0 /\ i >= L /\ i < L + left)
      BY <1>0, <1>1, <2>2
    <3>2. MovedToFind[i] = buf[cur][i]
      BY <2>1, <2>2, <3>1
    <3> QED BY <1>0, <1>1, <2>2, <3>2
  <2>3. CASE left > 0 /\ i < L
    <3>1. MovedToFind[i] = buf[cur][i]
      BY <1>0, <2>1, <2>3
    <3>2. done >= pos - left /\ buf[cur][i] = Zero
      BY <2>3 DEF ReadInv
    <3>3. ReadToFind = 2 * L - left
      BY <1>1, <2>3
    <3>4. pos + ReadToFind - 3 * L + i = (pos - left) + (i - L) /\ i - L < 0 /\ pos - left \in Int
      BY <1>0, <2>3, <3>3
    <3>5. pos + ReadToFind - 3 * L + i < done /\ pos + ReadToFind - 3 * L + i \in Int
      BY <1>0, <3>2, <3>4
    <3> QED BY <1>0, <3>1, <3>2, <3>5, FromType
  <2>4. CASE left > 0 /\ i >= L /\ i < L + left
    <3>1. i - L \in 0 .. left - 1 /\ leftPos + i - L = leftPos + (i - L) /\ leftPos + i - L \in Index
      BY <1>0, <2>4
    <3>2. MovedToFind[i] = buf[prev][leftPos + (i - L)]
      BY <1>0, <1>1, <2>1, <2>4, <3>1
    <3>3. pos - left + (i - L) = pos + ReadToFind - 3 * L + i
      BY <1>0, <1>1, <2>4
    <3> QED BY <1>0, <3>1, <3>2, <3>3
  <2>5. CASE left = 0 /\ i < 2 * L
    <3>1. ReadToFind = L /\ i + L \in Index /\ i < 3 * L - ReadToFind
      BY <1>0, <1>1, <2>5
    <3>2. MovedToFind[i] = buf[cur][i + L]
      BY <1>0, <2>1, <2>5, <3>1
    <3>3. buf[cur][i + L] = From(done, pos - 3 * L + (i + L))
      BY <2>5, <3>1 DEF ReadInv
    <3>4. pos - 3 * L + (i + L) = pos + ReadToFind - 3 * L + i
      BY <1>0, <3>1
    <3> QED BY <1>0, <3>1, <3>2, <3>3, <3>4
  <2>6. \/ i >= 3 * L - ReadToFind \/ (left > 0 /\ i < L)
        \/ (left > 0 /\ i >= L /\ i < L + left) \/ (left = 0 /\ i < 2 * L)
    BY <1>0, <1>1
  <2> QED BY <2>2, <2>3, <2>4, <2>5, <2>6
<1>3. ASSUME NEW i \in Index
      PROVE  /\ ReceivedToFind[i] = From(done, pos + ReadToFind - 3 * L + i)
             /\ ReceivedToFind[i] \in Sample
  <2>1. ReceivedToFind[i] = IF i < 3 * L - ReadToFind
                            THEN MovedToFind[i] ELSE pos + i - (3 * L - ReadToFind)
    BY DEF ReceivedToFind
  <2>2. pos + ReadToFind - 3 * L + i \in Int
    BY <1>0, <1>1
  <2>3. CASE i < 3 * L - ReadToFind
    BY <1>0, <1>2, <2>1, <2>2, <2>3, FromType
  <2>4. CASE ~(i < 3 * L - ReadToFind)
    <3>1. /\ ReceivedToFind[i] = pos + ReadToFind - 3 * L + i
          /\ pos + ReadToFind - 3 * L + i >= done
      BY <1>0, <1>1, <2>1, <2>4
    <3> QED BY <1>0, <2>2, <3>1, FromType
  <2> QED BY <2>3, <2>4
<1>4. MovedToFind \in Buffer
  <2>1. MovedToFind = [i \in Index |-> MovedToFind[i]]
    BY DEF MovedToFind
  <2> QED BY <1>2, <2>1 DEF Buffer
<1>5. ReceivedToFind \in Buffer
  <2>1. ReceivedToFind = [i \in Index |-> ReceivedToFind[i]]
    BY DEF ReceivedToFind
  <2> QED BY <1>3, <2>1 DEF Buffer
<1> QED BY <1>1, <1>3, <1>4, <1>5

\* The kept samples in state TRACK, brought behind the first subframe.
LEMMA WindowTrack ==
  ASSUME TypeOK, ReadInv
  PROVE  /\ MovedToTrack \in Buffer
         /\ \A i \in 0 .. left - 1 : MovedToTrack[L + i] = From(done, pos - left + i)
<1>0. /\ L \in Nat /\ Index = 0 .. 3 * L - 1 /\ pos \in Nat /\ done \in Nat
      /\ left \in Nat /\ left <= 2 * L /\ leftPos \in Nat /\ leftPos + left <= 3 * L
      /\ buf[cur] \in [Index -> Sample] /\ buf[prev] \in [Index -> Sample]
      /\ \A i \in 0 .. left - 1 : buf[prev][leftPos + i] = From(done, pos - left + i)
  BY Lengths DEF TypeOK, ReadInv, KeptIntact, Buffer
<1>1. \A i \in Index : i >= L /\ i < L + left => leftPos + i - L \in Index
  BY <1>0
<1>2. \A i \in Index : MovedToTrack[i] = IF i >= L /\ i < L + left
                                         THEN buf[prev][leftPos + i - L] ELSE buf[cur][i]
  BY DEF MovedToTrack
<1>3. MovedToTrack \in Buffer
  <2>1. MovedToTrack = [i \in Index |-> MovedToTrack[i]]
    BY DEF MovedToTrack
  <2>2. \A i \in Index : MovedToTrack[i] \in Sample
    BY <1>0, <1>1, <1>2
  <2> QED BY <2>1, <2>2 DEF Buffer
<1>4. ASSUME NEW i \in 0 .. left - 1
      PROVE  MovedToTrack[L + i] = From(done, pos - left + i)
  <2>1. L + i \in Index /\ L + i >= L /\ L + i < L + left /\ leftPos + (L + i) - L = leftPos + i
    BY <1>0
  <2> QED BY <1>0, <1>2, <2>1
<1> QED BY <1>3, <1>4

---------------------------------------------------------------------------
(* An iteration that synchronizes a subframe.                              *)

Entry == [buf : 0 .. N - 1, start : 0 .. 2 * L, counter : Nat, nof : Nat, end : Int,
          done : Nat, samples : [0 .. L - 1 -> Sample]]

\* What FindPeak, FindPeakAtEnd, TrackAndRead and TrackKept have in common: the
\* subframe is at s of the window w, p samples have been read, and the last q of
\* them are kept, at o of w.
Takes(w, s, n, p, q, o) ==
  /\ alive /\ w \in Buffer /\ s \in 0 .. 2 * L /\ n \in Nat
  /\ pos' = p /\ left' = q /\ leftPos' = o
  /\ pos <= p /\ q <= 2 * L /\ o + q <= 3 * L
  /\ \A i \in 0 .. L - 1 : w[s + i] = From(done, p - q - L + i)
  /\ \A i \in 0 .. q - 1 : w[o + i] = From(done, p - q + i)
  /\ st = "TRACK" => p - q = pos - left + L
  /\ wrong' \in 0 .. MaxWrong
  /\ Synchronized(w, s, n, st)

\* The entry for a subframe that ends at e in the stream.
Pushes(w, s, n, e) ==
  [buf |-> cur, start |-> s, counter |-> counter + 1, nof |-> n, end |-> e,
   done |-> done, samples |-> [i \in 0 .. L - 1 |-> w[s + i]]]

\* An iteration that takes a subframe: its window, place and number.
LEMMA TakesFacts ==
  ASSUME TypeOK, NEW w, NEW s, NEW n, NEW p \in Nat, NEW q \in Nat, NEW o \in Nat,
         Takes(w, s, n, p, q, o)
  PROVE  /\ alive /\ w \in Buffer /\ s \in 0 .. 2 * L /\ n \in Nat
         /\ pos' = p /\ left' = q /\ leftPos' = o
         /\ pos <= p /\ q <= 2 * L /\ o + q <= 3 * L
         /\ st = "TRACK" => p - q = pos - left + L
         /\ wrong' \in 0 .. MaxWrong
         /\ L \in Nat /\ pos \in Nat /\ left \in Nat /\ done \in Nat
<1>1. /\ alive /\ w \in Buffer /\ s \in 0 .. 2 * L /\ n \in Nat
      /\ pos' = p /\ left' = q /\ leftPos' = o
      /\ pos <= p /\ q <= 2 * L /\ o + q <= 3 * L
      /\ st = "TRACK" => p - q = pos - left + L
      /\ wrong' \in 0 .. MaxWrong
  BY Zenon DEF Takes
<1>2. pos \in Nat /\ left \in 0 .. 3 * L /\ done \in Nat
  BY Zenon DEF TypeOK
<1>3. L \in Nat /\ left \in Nat
  BY <1>2, Lengths
<1> QED BY <1>1, <1>2, <1>3, Zenon

\* The branch for a subframe out of step is not taken.
LEMMA TakesStep ==
  ASSUME TypeOK, CountInv, NEW w, NEW s, NEW n, NEW p \in Nat, NEW q \in Nat, NEW o \in Nat,
         Takes(w, s, n, p, q, o)
  PROVE  /\ buf' = [[buf EXCEPT ![cur] = w] EXCEPT ![NextBuffer(cur)] = Cleared]
         /\ prev' = cur /\ cur' = NextBuffer(cur) /\ start' = s /\ synced' = synced + 1
         /\ pushed' = Append(pushed, Pushes(w, s, n, p - q))
         /\ watchdog' = FALSE /\ alive' = alive /\ bursts' = bursts
         /\ \/ /\ counter + 1 >= n
               /\ counter' = 0 /\ nof' = 0 /\ st' = "FIND" /\ last' = "TRACK"
               /\ done' = IF p - q > done THEN p - q ELSE done
            \/ /\ counter + 1 < n
               /\ counter' = counter + 1 /\ nof' = n /\ st' = "TRACK" /\ last' = st
               /\ done' = done
<1>1. Synchronized(w, s, n, st) /\ counter \in Nat /\ st \in {"FIND", "TRACK"}
      /\ pos' = p /\ left' = q
  BY Zenon DEF Takes, TypeOK
<1>2. (st = "FIND" /\ counter = 0) \/ (st = "TRACK" /\ counter > 0)
  BY <1>1 DEF CountInv
<1>3. (IF st = "FIND" /\ counter = 0 THEN 1 ELSE counter + 1) = counter + 1
  BY <1>1
<1> DEFINE over == counter + 1 >= n
           e == pos' - left'
<1>4. /\ buf' = Bzero([buf EXCEPT ![cur] = w], NextBuffer(cur))
      /\ prev' = cur /\ cur' = NextBuffer(cur) /\ start' = s /\ synced' = synced + 1
      /\ pushed' = Append(pushed, Pushes(w, s, n, e))
      /\ counter' = (IF over THEN 0 ELSE counter + 1) /\ nof' = (IF over THEN 0 ELSE n)
      /\ st' = (IF over THEN "FIND" ELSE "TRACK") /\ last' = (IF over THEN "TRACK" ELSE st)
      /\ done' = (IF over /\ e > done THEN e ELSE done)
      /\ watchdog' = FALSE /\ UNCHANGED <<bursts, alive>>
  BY <1>1, <1>2, <1>3 DEF Synchronized, Pushes
<1>5. e = p - q
  BY <1>1, Zenon
<1>6. (over /\ counter + 1 >= n) \/ (~over /\ counter + 1 < n)
  <2>1. n \in Nat
    BY TakesFacts
  <2> QED BY <1>1, <2>1
<1> HIDE DEF over, e
<1> QED BY <1>4, <1>5, <1>6 DEF Bzero

\* The new entry, and those before it.
LEMMA PushedStep ==
  ASSUME TypeOK, CountInv, NEW w, NEW s, NEW n, NEW p \in Nat, NEW q \in Nat, NEW o \in Nat,
         Takes(w, s, n, p, q, o)
  PROVE  /\ pushed' \in Seq(Entry) /\ Len(pushed) \in Nat /\ Len(pushed') = Len(pushed) + 1
         /\ DOMAIN pushed = 1 .. Len(pushed) /\ DOMAIN pushed' = 1 .. Len(pushed) + 1
         /\ \A k \in 1 .. Len(pushed) : pushed'[k] = pushed[k] /\ pushed[k] \in Entry
         /\ pushed'[Len(pushed) + 1] = Pushes(w, s, n, p - q)
<1> DEFINE e == Pushes(w, s, n, p - q)
<1>1. /\ pushed \in Seq(Entry) /\ cur \in 0 .. N - 1 /\ counter \in Nat /\ done \in Nat
      /\ w \in [Index -> Sample] /\ s \in 0 .. 2 * L /\ n \in Nat /\ p - q \in Int
  <2>1. pushed \in Seq(Entry) /\ cur \in 0 .. N - 1 /\ counter \in Nat /\ done \in Nat
    BY DEF TypeOK, Entry
  <2>2. w \in Buffer /\ s \in 0 .. 2 * L /\ n \in Nat
    BY TakesFacts
  <2>3. w \in [Index -> Sample]
    BY <2>2 DEF Buffer
  <2>4. p - q \in Int
    OBVIOUS
  <2> QED BY <2>1, <2>2, <2>3, <2>4
<1>2. \A i \in 0 .. L - 1 : s + i \in Index
  BY <1>1, Lengths
<1>3. [i \in 0 .. L - 1 |-> w[s + i]] \in [0 .. L - 1 -> Sample]
  BY <1>1, <1>2
<1>4. counter + 1 \in Nat
  BY <1>1
<1>5. e \in Entry
  BY <1>1, <1>3, <1>4 DEF Pushes, Entry
<1>6. pushed' = Append(pushed, e)
  BY TakesStep
<1> HIDE DEF e
<1>7. /\ pushed' \in Seq(Entry) /\ Len(pushed) \in Nat /\ Len(pushed') = Len(pushed) + 1
      /\ \A k \in 1 .. Len(pushed) : pushed'[k] = pushed[k]
      /\ pushed'[Len(pushed) + 1] = e
  BY <1>1, <1>5, <1>6, AppendProperties, LenProperties
<1>8. DOMAIN pushed = 1 .. Len(pushed) /\ DOMAIN pushed' = 1 .. Len(pushed')
  BY <1>1, <1>7, LenProperties
<1>9. \A k \in 1 .. Len(pushed) : pushed[k] \in Entry
  BY <1>1, ElementOfSeq
<1> QED BY <1>7, <1>8, <1>9 DEF e

\* It keeps the types and the counters in step;
LEMMA TakesType ==
  ASSUME TypeOK, CountInv, NEW w, NEW s, NEW n, NEW p \in Nat, NEW q \in Nat, NEW o \in Nat,
         Takes(w, s, n, p, q, o)
  PROVE  TypeOK' /\ CountInv'
<1>1. /\ bursts' \in Streams /\ prev' \in 0 .. N - 1 /\ cur' \in 0 .. N - 1
      /\ start' \in 0 .. 2 * L /\ synced' \in Nat /\ pos' \in Nat
      /\ left' \in 0 .. 3 * L /\ leftPos' \in 0 .. 3 * L /\ wrong' \in 0 .. MaxWrong
  <2>1. bursts \in Streams /\ cur \in 0 .. N - 1 /\ synced \in Nat
    BY DEF TypeOK
  <2>2. bursts' = bursts /\ prev' = cur /\ cur' = NextBuffer(cur) /\ start' = s /\ synced' = synced + 1
    BY TakesStep
  <2>3. p \in Nat /\ q \in 0 .. 3 * L /\ o \in 0 .. 3 * L
    <3>1. q <= 2 * L /\ o + q <= 3 * L /\ L \in Nat
      BY TakesFacts, Zenon
    <3> QED BY <3>1
  <2>4. /\ pos' = p /\ left' = q /\ leftPos' = o
        /\ s \in 0 .. 2 * L /\ wrong' \in 0 .. MaxWrong
    BY TakesFacts
  <2>5. NextBuffer(cur) \in 0 .. N - 1 /\ synced + 1 \in Nat
    BY <2>1, NextBufferValue
  <2> QED BY <2>1, <2>2, <2>3, <2>4, <2>5, Zenon
<1>2. buf' \in [0 .. N - 1 -> Buffer]
  <2>1. w \in Buffer /\ buf \in [0 .. N - 1 -> Buffer]
    BY TakesFacts DEF TypeOK
  <2>2. Cleared \in Buffer
    BY DEF Cleared, Buffer, Sample
  <2>3. buf' = [[buf EXCEPT ![cur] = w] EXCEPT ![NextBuffer(cur)] = Cleared]
    BY TakesStep
  <2> QED BY <2>1, <2>2, <2>3
<1>3. /\ counter' \in Nat /\ nof' \in Nat /\ st' \in {"FIND", "TRACK"} /\ last' \in {"FIND", "TRACK"}
      /\ done' \in Nat
      /\ st' = "FIND" => counter' = 0
      /\ st' = "TRACK" => counter' > 0
  <2>1. counter \in Nat /\ st \in {"FIND", "TRACK"} /\ done \in Nat
    BY DEF TypeOK
  <2>2. n \in Nat
    BY TakesFacts
  <2>3. CASE /\ counter' = 0 /\ nof' = 0 /\ st' = "FIND" /\ last' = "TRACK"
             /\ done' = IF p - q > done THEN p - q ELSE done
    BY <2>1, <2>2, <2>3
  <2>4. CASE /\ counter' = counter + 1 /\ nof' = n /\ st' = "TRACK" /\ last' = st
             /\ done' = done
    BY <2>1, <2>2, <2>4
  <2> QED BY <2>3, <2>4, TakesStep
<1>4. watchdog' \in BOOLEAN /\ alive' \in BOOLEAN /\ ~watchdog'
  <2>1. watchdog' = FALSE /\ alive' = alive /\ alive \in BOOLEAN
    BY TakesStep, Zenon DEF TypeOK
  <2> QED BY <2>1, Zenon
<1>5. pushed' \in Seq(Entry) /\ synced' = Len(pushed')
  BY TakesStep, PushedStep DEF CountInv, InStep
<1>6. TypeOK'
  BY <1>1, <1>2, <1>3, <1>4, <1>5 DEF TypeOK, Entry
<1>7. CountInv'
  BY <1>3, <1>4, <1>5 DEF CountInv, InStep
<1> QED BY <1>6, <1>7

\* The invariant of what the next iteration reads, of its arguments: the previous
\* and the current buffer, how many samples are kept, and where.
KeptIn(b, o, q, d, p) ==
  /\ o + q <= 3 * L /\ q <= 2 * L
  /\ \A i \in 0 .. q - 1 : b[o + i] = From(d, p - q + i)

NextWindow(b, q, d, p) ==
  /\ q = 0 => \A i \in Index : b[i] = From(d, p - 3 * L + i)
  /\ q > 0 => d >= p - q /\ \A i \in Index : b[i] = Zero

\* it leaves the samples the next window is built from,
LEMMA TakesRead ==
  ASSUME TypeOK, CountInv, ReadInv, RingInv, NEW w, NEW s, NEW n,
         NEW p \in Nat, NEW q \in Nat, NEW o \in Nat, Takes(w, s, n, p, q, o)
  PROVE  ReadInv'
<1>0. /\ L \in Nat /\ Index = 0 .. 3 * L - 1 /\ pos \in Nat /\ done \in Nat /\ done <= pos
      /\ pos <= p /\ q <= 2 * L /\ o + q <= 3 * L /\ w \in [Index -> Sample]
      /\ cur \in 0 .. N - 1 /\ DOMAIN buf = 0 .. N - 1
  <2>1. cur \in 0 .. N - 1 /\ DOMAIN buf = 0 .. N - 1
    BY DEF TypeOK
  <2>2. done <= pos
    BY DEF ReadInv
  <2> QED BY <2>1, <2>2, TakesFacts, Lengths DEF Buffer
<1>1. \A i \in 0 .. q - 1 : w[o + i] = From(done, p - q + i)
  BY Zenon DEF Takes
<1>2. pos' = p /\ left' = q /\ leftPos' = o
  BY TakesFacts
<1>3. buf'[prev'] = w /\ buf'[cur'] = Cleared
  <2>1. /\ buf' = [[buf EXCEPT ![cur] = w] EXCEPT ![NextBuffer(cur)] = Cleared]
        /\ prev' = cur /\ cur' = NextBuffer(cur)
    BY TakesStep
  <2> QED BY <1>0, <2>1, NextBufferValue
<1>4. PICK d \in Nat : /\ done' = d /\ d <= p
                       /\ d = done \/ (d = p - q /\ d > done)
                       /\ st' = "FIND" => d >= p - q
  <2>1. CASE st' = "FIND" /\ done' = IF p - q > done THEN p - q ELSE done
    <3>1. CASE p - q > done
      BY <1>0, <2>1, <3>1
    <3>2. CASE ~(p - q > done)
      BY <1>0, <2>1, <3>2
    <3> QED BY <3>1, <3>2
  <2>2. CASE st' = "TRACK" /\ done' = done
    BY <1>0, <2>2
  <2> QED BY <2>1, <2>2, TakesStep
<1>5. KeptIn(w, o, q, d, p)
  <2>1. ASSUME NEW i \in 0 .. q - 1
        PROVE  From(d, p - q + i) = From(done, p - q + i)
    BY <1>0, <1>4 DEF From
  <2> QED BY <1>0, <1>1, <2>1 DEF KeptIn
<1>6. st' = "FIND" => NextWindow(Cleared, q, d, p)
  <2>1. \A i \in Index : Cleared[i] = Zero
    BY DEF Cleared
  <2>2. ASSUME st' = "FIND", q = 0, NEW i \in Index
        PROVE  From(d, p - 3 * L + i) = Zero
    BY <1>0, <1>4, <2>2 DEF From
  <2> QED BY <1>4, <2>1, <2>2 DEF NextWindow
<1>7. KeptIntact' <=> KeptIn(buf'[prev'], leftPos', left', done', pos')
  BY DEF KeptIntact, KeptIn
<1>8. ReadInv' <=> /\ KeptIntact' /\ done' <= pos'
                   /\ alive' /\ st' = "FIND" => NextWindow(buf'[cur'], left', done', pos')
  BY Zenon DEF ReadInv, NextWindow
<1>9. KeptIntact'
  BY <1>2, <1>3, <1>4, <1>5, <1>7, Zenon
<1>10. st' = "FIND" => NextWindow(buf'[cur'], left', done', pos')
  BY <1>2, <1>3, <1>4, <1>6, Zenon
<1>11. done' <= pos'
  BY <1>2, <1>4, Zenon
<1> QED BY <1>8, <1>9, <1>10, <1>11

\* pushes the entry of the burst in progress,
LEMMA TakesEntry ==
  ASSUME TypeOK, CountInv, EntryInv, NEW w, NEW s, NEW n,
         NEW p \in Nat, NEW q \in Nat, NEW o \in Nat, Takes(w, s, n, p, q, o)
  PROVE  EntryInv'
<1> DEFINE m == Len(pushed)
           e == Pushes(w, s, n, p - q)
<1>0. /\ m \in Nat /\ DOMAIN pushed' = 1 .. m + 1 /\ DOMAIN pushed = 1 .. m /\ Len(pushed') = m + 1
      /\ \A k \in 1 .. m : pushed'[k] = pushed[k] /\ pushed[k] \in Entry
      /\ pushed'[m + 1] = e
  BY PushedStep
<1>1. /\ e.counter = counter + 1 /\ e.end = p - q /\ e.done = done
      /\ \A i \in 0 .. L - 1 : e.samples[i] = w[s + i]
  BY DEF Pushes
<1>2. /\ \A i \in 0 .. L - 1 : w[s + i] = From(done, p - q - L + i)
      /\ st = "TRACK" => p - q = pos - left + L
      /\ counter \in Nat
  BY Zenon DEF Takes, TypeOK
<1>3. st' = "TRACK" => counter' = counter + 1 /\ done' = done
  BY TakesStep
<1> HIDE DEF m, e
<1>4. \A i \in 0 .. L - 1 : e.samples[i] = From(e.done, e.end - L + i)
  BY <1>1, <1>2
<1>5. e.counter > 1 =>
        /\ m \in 1 .. m /\ e.counter = pushed[m].counter + 1
        /\ e.end = pushed[m].end + L /\ e.done = pushed[m].done
  <2>1. SUFFICES ASSUME e.counter > 1
                 PROVE  /\ m \in 1 .. m /\ e.counter = pushed[m].counter + 1
                        /\ e.end = pushed[m].end + L /\ e.done = pushed[m].done
    OBVIOUS
  <2>2. st = "TRACK"
    BY <1>1, <1>2, <2>1 DEF CountInv, TypeOK
  <2>3. /\ pushed # <<>> /\ pushed[m].counter = counter
        /\ pushed[m].end = pos - left /\ pushed[m].done = done
    BY <2>2 DEF EntryInv, m
  <2>4. m # 0
    <3>1. pushed \in Seq(Entry)
      BY DEF TypeOK, Entry
    <3> QED BY <2>3, <3>1, EmptySeq DEF m
  <2> QED BY <1>0, <1>1, <1>2, <2>2, <2>3, <2>4
<1>6. ASSUME NEW k \in 1 .. m + 1
      PROVE  /\ \A i \in 0 .. L - 1 :
                  pushed'[k].samples[i] = From(pushed'[k].done, pushed'[k].end - L + i)
             /\ pushed'[k].counter > 1 =>
                  /\ k > 1
                  /\ pushed'[k].counter = pushed'[k - 1].counter + 1
                  /\ pushed'[k].end = pushed'[k - 1].end + L
                  /\ pushed'[k].done = pushed'[k - 1].done
  <2>1. CASE k = m + 1
    <3>1. k - 1 = m
      BY <1>0, <2>1
    <3>2. m \in 1 .. m => k > 1 /\ pushed'[k - 1] = pushed[m]
      BY <1>0, <2>1, <3>1
    <3>3. pushed'[k] = e
      BY <1>0, <2>1
    <3> QED BY <1>4, <1>5, <3>2, <3>3
  <2>2. CASE k \in 1 .. m
    <3>1. /\ \A i \in 0 .. L - 1 :
               pushed[k].samples[i] = From(pushed[k].done, pushed[k].end - L + i)
          /\ pushed[k].counter > 1 =>
               /\ k > 1
               /\ pushed[k].counter = pushed[k - 1].counter + 1
               /\ pushed[k].end = pushed[k - 1].end + L
               /\ pushed[k].done = pushed[k - 1].done
      BY <1>0, <2>2 DEF EntryInv, BurstContinues
    <3>2. k > 1 => k - 1 \in 1 .. m
      BY <1>0, <2>2
    <3>3. pushed'[k] = pushed[k] /\ (k > 1 => pushed'[k - 1] = pushed[k - 1])
      BY <1>0, <2>2, <3>2
    <3> QED BY <3>1, <3>3
  <2> QED BY <1>0, <2>1, <2>2
<1>7. BurstContinues'
  BY <1>0, <1>6 DEF BurstContinues
<1>8. st' = "TRACK" =>
        /\ pushed' # <<>>
        /\ pushed'[Len(pushed')].counter = counter'
        /\ pushed'[Len(pushed')].end = pos' - left'
        /\ pushed'[Len(pushed')].done = done'
  <2>1. pushed' # <<>>
    BY <1>0
  <2>2. pushed'[Len(pushed')] = e
    BY <1>0
  <2>3. pos' - left' = p - q
    BY TakesFacts, Zenon
  <2> QED BY <1>1, <1>3, <2>1, <2>2, <2>3, Zenon
<1> QED BY <1>7, <1>8 DEF EntryInv

\* which begins behind every earlier one,
LEMMA TakesOrder ==
  ASSUME TypeOK, CountInv, OrderInv, NEW w, NEW s, NEW n,
         NEW p \in Nat, NEW q \in Nat, NEW o \in Nat, Takes(w, s, n, p, q, o)
  PROVE  OrderInv'
<1> DEFINE m == Len(pushed)
           e == Pushes(w, s, n, p - q)
<1>0. /\ m \in Nat /\ DOMAIN pushed' = 1 .. m + 1 /\ DOMAIN pushed = 1 .. m
      /\ \A k \in 1 .. m : pushed'[k] = pushed[k] /\ pushed[k] \in Entry
      /\ pushed'[m + 1] = e
  BY PushedStep
<1>1. e.end = p - q /\ e.done = done
  BY DEF Pushes
<1>2. /\ st = "TRACK" => p - q = pos - left + L
      /\ pos \in Nat /\ left \in Nat /\ done \in Nat /\ L \in Nat
      /\ pos' - left' = p - q
  <2>1. pos' = p /\ left' = q
    BY TakesFacts
  <2>2. st = "TRACK" => p - q = pos - left + L
    BY Zenon DEF Takes
  <2>3. pos \in Nat /\ left \in Nat /\ done \in Nat /\ L \in Nat
    BY TakesFacts
  <2> QED BY <2>1, <2>2, <2>3
<1>3. PICK d \in Nat : /\ done' = d /\ d >= done
                       /\ st' = "TRACK" \/ d >= p - q
  <2>1. CASE st' = "FIND" /\ done' = IF p - q > done THEN p - q ELSE done
    <3>1. CASE p - q > done
      BY <1>2, <2>1, <3>1
    <3>2. CASE ~(p - q > done)
      BY <1>2, <2>1, <3>2
    <3> QED BY <3>1, <3>2
  <2>2. CASE st' = "TRACK" /\ done' = done
    BY <1>2, <2>2
  <2> QED BY <2>1, <2>2, TakesStep
<1> HIDE DEF m, e
<1>4. \A k \in 1 .. m : pushed[k].end \in Int
  BY <1>0 DEF Entry
<1>5. \A k \in 1 .. m : done >= pushed[k].end \/ (st = "TRACK" /\ pos - left >= pushed[k].end)
  BY <1>0 DEF OrderInv
<1>6. ASSUME NEW k \in 1 .. m
      PROVE  e.done >= pushed[k].end \/ e.end >= pushed[k].end + L
  BY <1>1, <1>2, <1>4, <1>5
<1>7. ASSUME NEW k \in 1 .. m + 1
      PROVE  d >= pushed'[k].end \/ (st' = "TRACK" /\ p - q >= pushed'[k].end)
  <2>1. CASE k = m + 1
    <3>1. pushed'[k].end = p - q
      BY <1>0, <1>1, <2>1
    <3> QED BY <1>3, <3>1
  <2>2. CASE k \in 1 .. m
    <3>1. done >= pushed[k].end \/ p - q >= pushed[k].end
      BY <1>2, <1>4, <1>5, <2>2
    <3>2. pushed'[k] = pushed[k] /\ pushed[k].end \in Int
      BY <1>0, <1>4, <2>2
    <3> QED BY <1>2, <1>3, <3>1, <3>2
  <2> QED BY <1>0, <2>1, <2>2
<1>8. ASSUME NEW k \in 1 .. m + 1, NEW l \in 1 .. m + 1, k < l
      PROVE  pushed'[l].done >= pushed'[k].end \/ pushed'[l].end >= pushed'[k].end + L
  <2>1. k \in 1 .. m /\ pushed'[k] = pushed[k]
    BY <1>0, <1>8
  <2>2. CASE l = m + 1
    BY <1>0, <1>6, <2>1, <2>2
  <2>3. CASE l \in 1 .. m
    BY <1>0, <1>8, <2>1, <2>3 DEF OrderInv
  <2> QED BY <1>0, <2>2, <2>3
<1>9. \A k \in DOMAIN pushed' :
        done' >= pushed'[k].end \/ (st' = "TRACK" /\ pos' - left' >= pushed'[k].end)
  BY <1>0, <1>2, <1>3, <1>7, Zenon
<1>10. \A k, l \in DOMAIN pushed' : k < l =>
         pushed'[l].done >= pushed'[k].end \/ pushed'[l].end >= pushed'[k].end + L
  BY <1>0, <1>8, Zenon
<1> QED BY <1>9, <1>10, Zenon DEF OrderInv

\* and moves on to the next buffer, the one of the oldest entry.
LEMMA TakesRing ==
  ASSUME TypeOK, CountInv, RingInv, NEW w, NEW s, NEW n,
         NEW p \in Nat, NEW q \in Nat, NEW o \in Nat, Takes(w, s, n, p, q, o)
  PROVE  RingInv'
<1> DEFINE m == Len(pushed)
           e == Pushes(w, s, n, p - q)
<1>0. /\ m \in Nat /\ DOMAIN pushed' = 1 .. m + 1 /\ DOMAIN pushed = 1 .. m /\ Len(pushed') = m + 1
      /\ \A k \in 1 .. m : pushed'[k] = pushed[k] /\ pushed[k] \in Entry
      /\ pushed'[m + 1] = e
  BY PushedStep
<1>1. e.buf = cur /\ e.start = s /\ \A i \in 0 .. L - 1 : e.samples[i] = w[s + i]
  BY DEF Pushes
<1>2. /\ buf' = [[buf EXCEPT ![cur] = w] EXCEPT ![NextBuffer(cur)] = Cleared]
      /\ prev' = cur /\ cur' = NextBuffer(cur)
  BY TakesStep
<1>3. /\ cur \in 0 .. N - 1 /\ DOMAIN buf = 0 .. N - 1 /\ N \in Nat /\ N > 1
  BY <1>2, Lengths DEF TypeOK
<1>c. PICK c \in 0 .. N - 1 : /\ cur' = c /\ c # cur
                              /\ c = (IF cur = N - 1 THEN 0 ELSE cur + 1)
  BY <1>2, <1>3, NextBufferValue
<1> HIDE DEF m, e
<1>4. /\ buf'[cur] = w
      /\ \A b \in 0 .. N - 1 : b # cur /\ b # c => buf'[b] = buf[b]
  BY <1>2, <1>3, <1>c
<1>5. \A k \in 1 .. m : /\ pushed[k].buf \in 0 .. N - 1
                        /\ k + N > m => \/ cur - pushed[k].buf = m + 1 - k
                                        \/ cur - pushed[k].buf = m + 1 - k - N
  BY <1>0 DEF RingInv, Entry, m
<1>6. ASSUME NEW k \in 1 .. m + 1, k + N > m + 1
      PROVE  c - pushed'[k].buf = m + 2 - k \/ c - pushed'[k].buf = m + 2 - k - N
  <2>1. CASE k = m + 1
    <3>1. pushed'[k].buf = cur
      BY <1>0, <1>1, <2>1
    <3> QED BY <1>0, <1>3, <1>c, <2>1, <3>1
  <2>2. CASE k \in 1 .. m
    <3>1. PICK b \in 0 .. N - 1 : /\ b = pushed'[k].buf
                                  /\ cur - b = m + 1 - k \/ cur - b = m + 1 - k - N
      <4>1. pushed'[k] = pushed[k] /\ k + N > m
        BY <1>0, <1>3, <1>6, <2>2
      <4> QED BY <1>5, <2>2, <4>1
    <3>2. c - b = m + 2 - k \/ c - b = m + 2 - k - N
      <4>1. CASE cur = N - 1
        BY <1>0, <1>3, <1>c, <1>6, <2>2, <3>1, <4>1
      <4>2. CASE cur # N - 1
        <5>1. c = cur + 1
          BY <1>c, <4>2
        <5>2. CASE cur - b = m + 1 - k
          BY <1>0, <1>3, <2>2, <5>1, <5>2
        <5>3. CASE cur - b = m + 1 - k - N
          BY <1>0, <1>3, <2>2, <5>1, <5>3
        <5> QED BY <3>1, <5>2, <5>3
      <4> QED BY <4>1, <4>2
    <3> QED BY <3>1, <3>2
  <2> QED BY <1>0, <2>1, <2>2
<1>7. ASSUME NEW k \in 1 .. m + 1, k + N - 1 > m + 1, NEW i \in 0 .. L - 1
      PROVE  buf'[pushed'[k].buf][pushed'[k].start + i] = pushed'[k].samples[i]
  <2>1. CASE k = m + 1
    BY <1>0, <1>1, <1>4, <2>1
  <2>2. CASE k \in 1 .. m
    <3>1. pushed'[k] = pushed[k] /\ pushed[k].buf \in 0 .. N - 1
      BY <1>0, <1>5, <2>2
    <3>2. pushed[k].buf # cur
      <4>1. k + N > m /\ m + 1 - k # 0 /\ m + 1 - k - N # 0
        BY <1>0, <1>3, <1>7, <2>2
      <4>2. cur - pushed[k].buf = m + 1 - k \/ cur - pushed[k].buf = m + 1 - k - N
        BY <1>5, <2>2, <4>1
      <4>3. cur - cur = 0
        BY <1>3
      <4> QED BY <4>1, <4>2, <4>3
    <3>3. pushed[k].buf # c
      <4>1. k + N > m + 1 /\ m + 2 - k # 0 /\ m + 2 - k - N # 0
        BY <1>0, <1>3, <1>7, <2>2
      <4>2. c - pushed[k].buf = m + 2 - k \/ c - pushed[k].buf = m + 2 - k - N
        BY <1>6, <3>1, <4>1
      <4>3. c - c = 0
        BY <1>3
      <4> QED BY <4>1, <4>2, <4>3
    <3>4. buf[pushed[k].buf][pushed[k].start + i] = pushed[k].samples[i]
      <4>1. k + N - 1 > m
        BY <1>0, <1>3, <1>7
      <4> QED BY <1>0, <2>2, <4>1 DEF RingInv, PushedIntact, m
    <3> QED BY <1>4, <3>1, <3>2, <3>3, <3>4
  <2> QED BY <1>0, <2>1, <2>2
<1>8. PushedIntact'
  BY <1>0, <1>7 DEF PushedIntact
<1>9. prev' # cur'
  BY <1>2, <1>c
<1>10. \A k \in DOMAIN pushed' : k + N > Len(pushed') =>
         cur' - pushed'[k].buf \in {Len(pushed') + 1 - k, Len(pushed') + 1 - k - N}
  <2>1. /\ Len(pushed') = m + 1 /\ DOMAIN pushed' = 1 .. m + 1
        /\ \A k \in 1 .. m + 1 : m + 1 + 1 - k = m + 2 - k
    BY <1>0
  <2>2. \A k \in 1 .. m + 1 : k + N > m + 1 =>
          c - pushed'[k].buf \in {m + 1 + 1 - k, m + 1 + 1 - k - N}
    <3>1. \A k \in 1 .. m + 1 : m + 1 + 1 - k - N = m + 2 - k - N
      BY <1>0, <1>3
    <3> QED BY <1>6, <2>1, <3>1
  <2> QED BY <1>c, <2>1, <2>2, Zenon
<1> QED BY <1>8, <1>9, <1>10 DEF RingInv

\* So it keeps the invariant.
LEMMA TakesInv ==
  ASSUME IndInv, NEW w, NEW s, NEW n,
         NEW p \in Nat, NEW q \in Nat, NEW o \in Nat, Takes(w, s, n, p, q, o)
  PROVE  IndInv'
<1>1. TypeOK /\ CountInv /\ ReadInv /\ EntryInv /\ OrderInv /\ RingInv
  BY Zenon DEF IndInv
<1>2. TypeOK' /\ CountInv'
  BY <1>1, TakesType
<1>3. ReadInv' /\ EntryInv'
  BY <1>1, TakesRead, TakesEntry
<1>4. OrderInv' /\ RingInv'
  BY <1>1, TakesOrder, TakesRing
<1> QED BY <1>2, <1>3, <1>4, Zenon DEF IndInv

\* The iterations that take a subframe: a peak of the search in FIND,
LEMMA FindPeakTakes ==
  ASSUME IndInv, FindPeak
  PROVE  \E d \in Possible(ReceivedToFind) \ {Nothing} :
           /\ Find(ReceivedToFind, d)
           /\ \E w, s : \E p, q, o \in Nat :
                /\ Takes(w, s, d[2], p, q, o)
                /\ p - q = pos + ReadToFind - 3 * L + d[1] + Half
<1>1. PICK d \in Possible(ReceivedToFind) \ {Nothing} :
        /\ Find(ReceivedToFind, d)
        /\ Stay(d[1]) >= L
        /\ left' = Stay(d[1]) - L /\ leftPos' = d[1] + Half
        /\ pos' = pos + ReadToFind
        /\ Synchronized(ReceivedToFind, Offset(d[1]), d[2], "FIND")
  BY Zenon DEF FindPeak
<1>2. alive /\ st = "FIND" /\ TypeOK /\ ReadInv
  BY Zenon DEF FindPeak, Iterate, IndInv
<1>3. pos \in Nat /\ bursts \in Streams /\ wrong \in 0 .. MaxWrong /\ done \in Nat
  BY <1>2, Zenon DEF TypeOK
<1> DEFINE R == ReceivedToFind
<1>4. PICK k \in Peaks : k = d[1]
  BY <1>1, <1>3, PossibleRange
<1>5. d[2] \in Nat
  BY <1>1, <1>3, PossibleRange
<1>6. PICK r \in 0 .. 2 * L : r = ReadToFind
  BY <1>2, WindowFind
<1>7. R \in Buffer /\ \A i \in Index : R[i] = From(done, pos + r - 3 * L + i)
  BY <1>2, <1>6, WindowFind
<1> HIDE DEF R
<1> DEFINE s == k - Half
           p == pos + r
           q == 3 * L - (k - Half) - L
           o == k + Half
<1>8. /\ L \in Nat /\ Half \in Nat /\ L = 2 * Half /\ k \in L .. 3 * L - 3 /\ r \in 0 .. 2 * L
      /\ 3 * L - (k - Half) >= L /\ Index = 0 .. 3 * L - 1
  BY <1>1, <1>4, <1>6, Lengths DEF Peaks, Stay, Offset
<1>9. /\ s \in 0 .. 2 * L /\ p \in Nat /\ q \in Nat /\ o \in Nat
      /\ pos <= p /\ q <= 2 * L /\ o + q <= 3 * L
  BY <1>3, <1>8
<1>10. ASSUME NEW i \in 0 .. L - 1
       PROVE  R[s + i] = From(done, p - q - L + i)
  <2>1. s + i \in Index /\ pos + r - 3 * L + (s + i) = p - q - L + i
    BY <1>3, <1>8
  <2> HIDE DEF s, p, q
  <2> QED BY <1>7, <2>1
<1>11. ASSUME NEW i \in 0 .. q - 1
       PROVE  R[o + i] = From(done, p - q + i)
  <2>1. o + i \in Index /\ pos + r - 3 * L + (o + i) = p - q + i
    BY <1>3, <1>8
  <2> HIDE DEF o, p, q
  <2> QED BY <1>7, <2>1
<1>12. pos' = p /\ left' = q /\ leftPos' = o /\ Synchronized(R, s, d[2], st)
  BY <1>1, <1>2, <1>4, <1>6, Zenon DEF Stay, Offset, R
<1>13. wrong' \in 0 .. MaxWrong
  BY <1>1, <1>3, FindType
<1>14. p - q = pos + r - 3 * L + k + Half
  BY <1>3, <1>8
<1> HIDE DEF s, p, q, o
<1>15. Takes(R, s, d[2], p, q, o)
  BY <1>2, <1>5, <1>7, <1>9, <1>10, <1>11, <1>12, <1>13, Zenon DEF Takes
<1> QED BY <1>1, <1>4, <1>6, <1>9, <1>14, <1>15, Zenon

\* one so late that the rest of the subframe has to be read,
LEMMA FindPeakAtEndTakes ==
  ASSUME IndInv, FindPeakAtEnd
  PROVE  \E d \in Possible(ReceivedToFind) \ {Nothing} :
           /\ Find(ReceivedToFind, d)
           /\ \E w, s : \E p, q, o \in Nat :
                /\ Takes(w, s, d[2], p, q, o)
                /\ p - q = pos + ReadToFind - 3 * L + d[1] + Half
<1> DEFINE W(d) == [i \in Index |-> IF i >= Stay(d[1]) /\ i < L
                                    THEN pos + ReadToFind + i - Stay(d[1])
                                    ELSE Aligned(ReceivedToFind, d[1])[i]]
<1>1. PICK d \in Possible(ReceivedToFind) \ {Nothing} :
        /\ Find(ReceivedToFind, d)
        /\ Stay(d[1]) < L
        /\ left' = 0 /\ leftPos' = 0
        /\ pos' = pos + ReadToFind + L - Stay(d[1])
        /\ Synchronized(W(d), 0, d[2], "FIND")
  BY Zenon DEF FindPeakAtEnd
<1>2. alive /\ st = "FIND" /\ TypeOK /\ ReadInv
  BY Zenon DEF FindPeakAtEnd, Iterate, IndInv
<1>3. /\ pos \in Nat /\ bursts \in Streams /\ wrong \in 0 .. MaxWrong /\ done \in Nat
      /\ done <= pos
  BY <1>2, Zenon DEF TypeOK, ReadInv
<1> DEFINE R == ReceivedToFind
<1>4. PICK k \in Peaks : k = d[1]
  BY <1>1, <1>3, PossibleRange
<1>5. d[2] \in Nat
  BY <1>1, <1>3, PossibleRange
<1>6. PICK r \in 0 .. 2 * L : r = ReadToFind
  BY <1>2, WindowFind
<1>7. /\ R \in [Index -> Sample]
      /\ \A i \in Index : R[i] = From(done, pos + r - 3 * L + i)
  BY <1>2, <1>6, WindowFind DEF Buffer
<1> HIDE DEF R
<1> DEFINE y == 3 * L - (k - Half)
           p == pos + r + L - y
           w == W(d)
<1>8. /\ L \in Nat /\ Half \in Nat /\ L = 2 * Half /\ k \in L .. 3 * L - 3 /\ r \in 0 .. 2 * L
      /\ y < L /\ y > 0 /\ y = Stay(d[1]) /\ Index = 0 .. 3 * L - 1 /\ Offset(d[1]) = k - Half
      /\ p \in Nat /\ pos <= p
  <2>1. /\ L \in Nat /\ Half \in Nat /\ L = 2 * Half /\ k \in L .. 3 * L - 3 /\ r \in 0 .. 2 * L
        /\ y = Stay(d[1]) /\ Index = 0 .. 3 * L - 1 /\ Offset(d[1]) = k - Half
    BY <1>4, <1>6, Lengths DEF Peaks, Stay, Offset
  <2>2. y < L
    BY <1>1, <2>1, Zenon
  <2>3. y > 0 /\ p \in Nat /\ pos <= p
    BY <1>3, <2>1, <2>2
  <2> QED BY <2>1, <2>2, <2>3
<1>9. ASSUME NEW i \in Index
      PROVE  w[i] = IF i >= y /\ i < L THEN pos + r + i - y
                    ELSE IF i < y THEN R[k - Half + i] ELSE R[i]
  BY <1>6, <1>8, Zenon DEF Aligned, R
<1>10. w \in Buffer
  <2>1. ASSUME NEW i \in Index
        PROVE  w[i] \in Sample
    <3>1. CASE i >= y /\ i < L
      <4>1. pos + r + i - y \in Nat
        BY <1>3, <1>8, <3>1
      <4> QED BY <1>9, <3>1, <4>1, Zenon DEF Sample
    <3>2. CASE i < y
      <4>1. k - Half + i \in Index
        BY <1>8, <3>2
      <4>2. w[i] = R[k - Half + i]
        <5>1. ~(i >= y /\ i < L)
          BY <1>8, <3>2
        <5> QED BY <1>9, <3>2, <5>1, Zenon
      <4> QED BY <1>7, <4>1, <4>2
    <3>3. CASE ~(i >= y /\ i < L) /\ ~(i < y)
      BY <1>7, <1>9, <3>3
    <3> QED BY <3>1, <3>2, <3>3
  <2> HIDE DEF w, y, p
  <2>2. w = [i \in Index |-> w[i]]
    BY DEF w
  <2> QED BY <2>1, <2>2 DEF Buffer
<1>11. ASSUME NEW i \in 0 .. L - 1
       PROVE  w[0 + i] = From(done, p - 0 - L + i)
  <2>1. i \in Index /\ 0 + i = i /\ p - 0 - L + i = pos + r + i - y
    BY <1>3, <1>8
  <2>2. CASE i >= y
    <3>1. w[i] = pos + r + i - y
      <4>1. i >= y /\ i < L
        BY <1>8, <2>2
      <4> QED BY <1>9, <2>1, <4>1, Zenon
    <3>2. pos + r + i - y >= done
      BY <1>3, <1>8, <2>2
    <3>3. From(done, pos + r + i - y) = pos + r + i - y
      BY <1>3, <1>8, <3>2 DEF From
    <3> QED BY <2>1, <3>1, <3>3
  <2>3. CASE i < y
    <3>1. ~(i >= y /\ i < L)
      BY <1>8, <2>3
    <3>2. w[i] = R[k - Half + i]
      BY <1>9, <2>1, <2>3, <3>1, Zenon
    <3>3. k - Half + i \in Index /\ pos + r - 3 * L + (k - Half + i) = pos + r + i - y
      BY <1>3, <1>8, <2>3
    <3>4. R[k - Half + i] = From(done, pos + r + i - y)
      BY <1>7, <3>3
    <3> QED BY <2>1, <3>2, <3>4
  <2> QED BY <1>8, <2>2, <2>3
<1>12. pos' = p /\ left' = 0 /\ leftPos' = 0 /\ Synchronized(w, 0, d[2], st)
  BY <1>1, <1>2, <1>6, <1>8, Zenon
<1>13. wrong' \in 0 .. MaxWrong
  BY <1>1, <1>3, FindType
<1>14. p - 0 = pos + r - 3 * L + k + Half
  BY <1>3, <1>8
<1> HIDE DEF w, p, y
<1>15. /\ 0 \in 0 .. 2 * L /\ 0 <= 2 * L /\ 0 + 0 <= 3 * L /\ 0 \in Nat
       /\ \A i \in 0 .. 0 - 1 : w[0 + i] = From(done, p - 0 + i)
  BY <1>8
<1>16. Takes(w, 0, d[2], p, 0, 0)
  <2>1. st = "TRACK" => p - 0 = pos - left + L
    BY <1>2
  <2> QED BY <1>2, <1>5, <1>8, <1>10, <1>11, <1>12, <1>13, <1>15, <2>1, Zenon DEF Takes
<1> QED BY <1>1, <1>4, <1>6, <1>8, <1>14, <1>15, <1>16, Zenon

\* the next subframe of a burst, read anew
LEMMA TrackAndReadTakes ==
  ASSUME IndInv, TrackAndRead
  PROVE  \E w, s : \E p, q, o \in Nat : Takes(w, s, nof, p, q, o)
<1> DEFINE w == [i \in Index |-> IF i >= L + left /\ i < 2 * L
                                 THEN pos + i - (L + left)
                                 ELSE MovedToTrack[i]]
           p == pos + L - left
<1>1. /\ left < L /\ left' = 0 /\ leftPos' = 0 /\ pos' = p
      /\ Synchronized(w, L, nof, "TRACK") /\ wrong' = wrong
      /\ alive /\ st = "TRACK" /\ TypeOK /\ ReadInv
  BY Zenon DEF TrackAndRead, Iterate, IndInv
<1>2. /\ pos \in Nat /\ wrong \in 0 .. MaxWrong /\ done \in Nat /\ nof \in Nat
      /\ done <= pos /\ left \in 0 .. 3 * L
  BY <1>1, Zenon DEF TypeOK, ReadInv
<1>3. L \in Nat /\ Index = 0 .. 3 * L - 1 /\ left \in Nat
  BY <1>2, Lengths
<1>4. /\ MovedToTrack \in [Index -> Sample]
      /\ \A i \in 0 .. left - 1 : MovedToTrack[L + i] = From(done, pos - left + i)
  BY <1>1, WindowTrack DEF Buffer
<1>5. p \in Nat /\ pos <= p /\ p - 0 = pos - left + L
  BY <1>1, <1>2, <1>3
<1>6. w \in Buffer
  <2>1. ASSUME NEW i \in Index
        PROVE  w[i] \in Sample
    <3>1. CASE i >= L + left /\ i < 2 * L
      <4>1. pos + i - (L + left) \in Nat
        BY <1>2, <1>3, <3>1
      <4> QED BY <3>1, <4>1 DEF Sample
    <3>2. CASE ~(i >= L + left /\ i < 2 * L)
      BY <1>4, <3>2
    <3> QED BY <3>1, <3>2
  <2>2. w = [i \in Index |-> w[i]]
    OBVIOUS
  <2> HIDE DEF w
  <2> QED BY <2>1, <2>2 DEF Buffer
<1>7. ASSUME NEW i \in 0 .. L - 1
      PROVE  w[L + i] = From(done, p - 0 - L + i)
  <2>1. L + i \in Index /\ p - 0 - L + i = pos - left + i
    BY <1>2, <1>3
  <2>2. CASE i >= left
    <3>1. w[L + i] = pos + (L + i) - (L + left)
      BY <1>3, <2>1, <2>2
    <3>2. pos + (L + i) - (L + left) = pos - left + i /\ pos - left + i >= done /\ pos - left + i \in Int
      BY <1>2, <1>3, <2>2
    <3>3. From(done, pos - left + i) = pos - left + i
      BY <1>2, <3>2 DEF From
    <3> QED BY <2>1, <3>1, <3>2, <3>3
  <2>3. CASE i < left
    <3>1. w[L + i] = MovedToTrack[L + i] /\ i \in 0 .. left - 1
      BY <1>3, <2>1, <2>3
    <3> QED BY <1>4, <2>1, <3>1
  <2> QED BY <1>3, <2>2, <2>3
<1> HIDE DEF w, p
<1>8. /\ L \in 0 .. 2 * L /\ 0 <= 2 * L /\ 0 + 0 <= 3 * L /\ 0 \in Nat
      /\ \A i \in 0 .. 0 - 1 : w[0 + i] = From(done, p - 0 + i)
  BY <1>3
<1>9. Takes(w, L, nof, p, 0, 0)
  BY <1>1, <1>2, <1>5, <1>6, <1>7, <1>8, Zenon DEF Takes
<1> QED BY <1>5, <1>8, <1>9, Zenon

\* or found in the kept samples.
LEMMA TrackKeptTakes ==
  ASSUME IndInv, TrackKept
  PROVE  \E w, s : \E p, q, o \in Nat : Takes(w, s, nof, p, q, o)
<1> DEFINE w == MovedToTrack
           q == left - L
           o == 2 * L
<1>1. /\ left >= L /\ left' = q /\ leftPos' = o /\ pos' = pos
      /\ Synchronized(w, L, nof, "TRACK") /\ wrong' = wrong
      /\ alive /\ st = "TRACK" /\ TypeOK /\ ReadInv
  BY Zenon DEF TrackKept, Iterate, IndInv
<1>2. /\ pos \in Nat /\ wrong \in 0 .. MaxWrong /\ done \in Nat /\ nof \in Nat
      /\ left \in 0 .. 3 * L /\ left <= 2 * L
  BY <1>1, Zenon DEF TypeOK, ReadInv, KeptIntact
<1>3. L \in Nat /\ Index = 0 .. 3 * L - 1 /\ left \in Nat
  BY <1>2, Lengths
<1>4. /\ w \in Buffer
      /\ \A i \in 0 .. left - 1 : w[L + i] = From(done, pos - left + i)
  BY <1>1, WindowTrack
<1> HIDE DEF w
<1>5. /\ L \in 0 .. 2 * L /\ q \in Nat /\ o \in Nat /\ pos <= pos
      /\ q <= 2 * L /\ o + q <= 3 * L /\ pos - q = pos - left + L
  BY <1>1, <1>2, <1>3
<1>6. ASSUME NEW i \in 0 .. L - 1
      PROVE  w[L + i] = From(done, pos - q - L + i)
  <2>1. i \in 0 .. left - 1 /\ pos - q - L + i = pos - left + i
    BY <1>1, <1>2, <1>3
  <2> QED BY <1>4, <2>1
<1>7. ASSUME NEW i \in 0 .. q - 1
      PROVE  w[o + i] = From(done, pos - q + i)
  <2>1. L + i \in 0 .. left - 1 /\ pos - q + i = pos - left + (L + i) /\ o + i = L + (L + i)
    BY <1>1, <1>2, <1>3
  <2> QED BY <1>4, <2>1
<1> HIDE DEF q, o
<1>8. Takes(w, L, nof, pos, q, o)
  BY <1>1, <1>2, <1>4, <1>5, <1>6, <1>7, Zenon DEF Takes
<1> QED BY <1>2, <1>5, <1>8, Zenon

---------------------------------------------------------------------------
(* An iteration that synchronizes nothing.                                 *)

\* The current buffer is refilled: nothing the ring keeps is in it.
LEMMA Refilled ==
  ASSUME TypeOK, RingInv, NEW b \in Buffer, buf' = [buf EXCEPT ![cur] = b],
         UNCHANGED <<cur, prev, pushed>>
  PROVE  /\ buf' \in [0 .. N - 1 -> Buffer] /\ RingInv'
         /\ buf'[cur'] = b /\ buf'[prev'] = buf[prev]
<1>1. /\ buf \in [0 .. N - 1 -> Buffer] /\ cur \in 0 .. N - 1 /\ prev \in 0 .. N - 1
      /\ pushed \in Seq(Entry)
  BY DEF TypeOK, Entry
<1>2. N \in Nat /\ N > 1
  BY Lengths
<1>3. prev # cur /\ PushedIntact
  BY DEF RingInv
<1>4. /\ buf' \in [0 .. N - 1 -> Buffer] /\ buf'[cur] = b
      /\ \A c \in 0 .. N - 1 : c # cur => buf'[c] = buf[c]
  BY <1>1
<1>5. Len(pushed) \in Nat /\ DOMAIN pushed = 1 .. Len(pushed)
  BY <1>1, LenProperties
<1>6. ASSUME NEW k \in DOMAIN pushed, k + N - 1 > Len(pushed), NEW i \in 0 .. L - 1
      PROVE  buf'[pushed[k].buf][pushed[k].start + i] = pushed[k].samples[i]
  <2>1. k + N > Len(pushed) /\ Len(pushed) + 1 - k # 0 /\ Len(pushed) + 1 - k - N # 0
    BY <1>2, <1>5, <1>6
  <2>2. cur - pushed[k].buf \in {Len(pushed) + 1 - k, Len(pushed) + 1 - k - N}
    BY <2>1, Zenon DEF RingInv
  <2>3. cur - cur = 0
    BY <1>1
  <2>4. pushed[k].buf # cur
    BY <2>1, <2>2, <2>3
  <2>5. pushed[k].buf \in 0 .. N - 1
    <3>1. pushed[k] \in Entry
      BY <1>1, <1>5, ElementOfSeq
    <3> QED BY <3>1 DEF Entry
  <2>6. buf[pushed[k].buf][pushed[k].start + i] = pushed[k].samples[i]
    BY <1>3, <1>6, Zenon DEF PushedIntact
  <2> QED BY <1>4, <2>4, <2>5, <2>6
<1>7. PushedIntact'
  <2>1. pushed' = pushed
    OBVIOUS
  <2>2. \A k \in DOMAIN pushed : k + N - 1 > Len(pushed) =>
          \A i \in 0 .. L - 1 :
            buf'[pushed[k].buf][pushed[k].start + i] = pushed[k].samples[i]
    BY <1>6
  <2> QED BY <2>1, <2>2 DEF PushedIntact
<1>8. RingInv'
  <2>1. \A k \in DOMAIN pushed : k + N > Len(pushed) =>
          cur - pushed[k].buf \in {Len(pushed) + 1 - k, Len(pushed) + 1 - k - N}
    BY Zenon DEF RingInv
  <2>2. cur' = cur /\ prev' = prev /\ pushed' = pushed
    OBVIOUS
  <2> QED BY <1>3, <1>7, <2>1, <2>2, Zenon DEF RingInv
<1> QED BY <1>1, <1>3, <1>4, <1>8

\* The iterations that take none: a window without a peak,
LEMMA FindNothingInv ==
  ASSUME IndInv, FindNothing
  PROVE  IndInv'
<1> DEFINE R == ReceivedToFind
<1>1. /\ TypeOK /\ CountInv /\ ReadInv /\ EntryInv /\ OrderInv /\ RingInv
      /\ alive /\ st = "FIND"
  BY Zenon DEF FindNothing, Iterate, IndInv
<1>2. /\ Find(R, Nothing) /\ buf' = [buf EXCEPT ![cur] = R]
      /\ pos' = pos + ReadToFind /\ left' = 0 /\ leftPos' = 0
      /\ last' = "FIND" /\ nof' = 0 /\ watchdog' = FALSE
      /\ bursts' = bursts /\ cur' = cur /\ prev' = prev /\ start' = start /\ st' = st
      /\ counter' = counter /\ synced' = synced /\ pushed' = pushed /\ done' = done
      /\ alive' = alive
  BY Zenon DEF FindNothing
<1>3. PICK r \in 0 .. 2 * L : r = ReadToFind
  BY <1>1, WindowFind
<1>4. R \in Buffer /\ \A i \in Index : R[i] = From(done, pos + r - 3 * L + i)
  BY <1>1, <1>3, WindowFind
<1> HIDE DEF R
<1>5. pos \in Nat /\ done \in Nat /\ done <= pos /\ L \in Nat
  BY <1>1, Lengths, Zenon DEF TypeOK, ReadInv
<1> DEFINE p == pos + r
<1>6. p \in Nat /\ done <= p /\ pos' = p
  BY <1>2, <1>3, <1>5
<1>7. wrong' \in 0 .. MaxWrong
  <2>1. bursts \in Streams /\ wrong \in 0 .. MaxWrong
    BY <1>1, Zenon DEF TypeOK
  <2> QED BY <1>2, <2>1, FindType
<1>8. /\ buf' \in [0 .. N - 1 -> Buffer] /\ RingInv'
      /\ buf'[cur'] = R /\ buf'[prev'] = buf[prev]
  BY <1>1, <1>2, <1>4, Refilled
<1>9. NextWindow(R, 0, done, p) /\ KeptIn(buf[prev], 0, 0, done, p)
  BY <1>4, <1>5 DEF NextWindow, KeptIn
<1> HIDE DEF p
<1>10. TypeOK'
  <2>1. 0 \in 0 .. 3 * L /\ 0 \in Nat
    BY <1>5
  <2>2. FALSE \in BOOLEAN
    OBVIOUS
  <2> QED BY <1>1, <1>2, <1>6, <1>7, <1>8, <2>1, <2>2 DEF TypeOK
<1>11. CountInv'
  BY <1>1, <1>2, Zenon DEF CountInv, InStep
<1>12. KeptIntact'
  <2>1. KeptIntact' <=> KeptIn(buf'[prev'], leftPos', left', done', pos')
    BY DEF KeptIntact, KeptIn
  <2> QED BY <1>2, <1>6, <1>8, <1>9, <2>1, Zenon
<1>13. ReadInv'
  <2>1. ReadInv' <=> /\ KeptIntact' /\ done' <= pos'
                     /\ alive' /\ st' = "FIND" => NextWindow(buf'[cur'], left', done', pos')
    BY Zenon DEF ReadInv, NextWindow
  <2> QED BY <1>2, <1>6, <1>8, <1>9, <1>12, <2>1, Zenon
<1>14. EntryInv'
  BY <1>1, <1>2, Zenon DEF EntryInv, BurstContinues
<1>15. OrderInv'
  BY <1>1, <1>2, Zenon DEF OrderInv
<1> QED BY <1>8, <1>10, <1>11, <1>13, <1>14, <1>15 DEF IndInv

\* an error of the radio while searching
LEMMA FindErrorInv ==
  ASSUME IndInv, FindError
  PROVE  IndInv'
<1>1. /\ TypeOK /\ CountInv /\ ReadInv /\ EntryInv /\ OrderInv /\ RingInv
      /\ alive /\ st = "FIND"
  BY Zenon DEF FindError, Iterate, IndInv
<1>2. /\ left' = 0 /\ leftPos' = 0 /\ alive' = FALSE /\ watchdog' = TRUE
      /\ bursts' = bursts /\ cur' = cur /\ prev' = prev /\ start' = start /\ st' = st
      /\ last' = last /\ counter' = counter /\ synced' = synced /\ pushed' = pushed
      /\ done' = done
  BY Zenon DEF FindError, Break
<1>3. /\ bursts \in Streams /\ pos \in Nat /\ nof \in Nat /\ wrong \in 0 .. MaxWrong
      /\ done \in Nat /\ done <= pos /\ L \in Nat /\ Index = 0 .. 3 * L - 1
  BY <1>1, Lengths, Zenon DEF TypeOK, ReadInv
<1>4. PICK r \in 0 .. 2 * L : r = ReadToFind
  BY <1>1, WindowFind
<1>5. ReceivedToFind \in Buffer /\ MovedToFind \in Buffer
  BY <1>1, WindowFind
<1>6. PICK b \in Buffer, p \in Nat :
        /\ buf' = [buf EXCEPT ![cur] = b] /\ pos' = p /\ done <= p
        /\ nof' \in Nat /\ wrong' \in 0 .. MaxWrong
  <2>1. CASE buf' = [buf EXCEPT ![cur] = MovedToFind] /\ UNCHANGED <<pos, nof, wrong>>
    BY <1>3, <1>5, <2>1
  <2>2. CASE \E d \in Possible(ReceivedToFind) \ {Nothing} :
               /\ Find(ReceivedToFind, d)
               /\ Stay(d[1]) < L
               /\ buf' = [buf EXCEPT ![cur] = Aligned(ReceivedToFind, d[1])]
               /\ pos' = pos + ReadToFind /\ nof' = d[2]
    <3>1. PICK d \in Possible(ReceivedToFind) \ {Nothing} :
            /\ Find(ReceivedToFind, d)
            /\ buf' = [buf EXCEPT ![cur] = Aligned(ReceivedToFind, d[1])]
            /\ pos' = pos + r /\ nof' = d[2]
      BY <1>4, <2>2
    <3>2. wrong' \in 0 .. MaxWrong
      BY <1>3, <3>1, FindType
    <3>3. d[1] \in Peaks /\ d[2] \in Nat
      BY <1>3, PossibleRange
    <3>4. pos + r \in Nat /\ done <= pos + r
      BY <1>3
    <3>5. Aligned(ReceivedToFind, d[1]) \in Buffer
      <4>1. ASSUME NEW i \in Index, i < Stay(d[1])
            PROVE  Offset(d[1]) + i \in Index
        BY <1>3, <3>3, <4>1, Lengths DEF Stay, Offset, Peaks
      <4> QED BY <1>5, <4>1 DEF Aligned, Buffer
    <3> QED BY <3>1, <3>2, <3>3, <3>4, <3>5, Zenon
  <2> QED BY <2>1, <2>2, Zenon DEF FindError
<1>7. /\ buf' \in [0 .. N - 1 -> Buffer] /\ RingInv'
      /\ buf'[prev'] = buf[prev]
  BY <1>1, <1>2, <1>6, Refilled
<1>8. KeptIn(buf[prev], 0, 0, done, p)
  BY <1>3 DEF KeptIn
<1>9. TypeOK'
  <2>1. 0 \in 0 .. 3 * L
    BY <1>3
  <2>2. alive' \in BOOLEAN /\ watchdog' \in BOOLEAN
    BY <1>2, Zenon
  <2> QED BY <1>1, <1>2, <1>6, <1>7, <2>1, <2>2 DEF TypeOK
<1>10. CountInv'
  BY <1>1, <1>2, Zenon DEF CountInv, InStep
<1>11. KeptIntact'
  <2>1. KeptIntact' <=> KeptIn(buf'[prev'], leftPos', left', done', pos')
    BY DEF KeptIntact, KeptIn
  <2> QED BY <1>2, <1>6, <1>7, <1>8, <2>1, Zenon
<1>12. ReadInv'
  <2>1. ~alive' /\ done' <= pos'
    BY <1>2, <1>6, Zenon
  <2> QED BY <1>11, <2>1, Zenon DEF ReadInv
<1>13. EntryInv'
  BY <1>1, <1>2, Zenon DEF EntryInv, BurstContinues
<1>14. OrderInv'
  BY <1>1, <1>2, Zenon DEF OrderInv
<1> QED BY <1>7, <1>9, <1>10, <1>12, <1>13, <1>14 DEF IndInv

\* and while following a burst, which ends the thread.
LEMMA TrackErrorInv ==
  ASSUME IndInv, TrackError
  PROVE  IndInv'
<1>1. /\ TypeOK /\ CountInv /\ ReadInv /\ EntryInv /\ OrderInv /\ RingInv
  BY Zenon DEF IndInv
<1>2. /\ buf' = [buf EXCEPT ![cur] = MovedToTrack] /\ alive' = FALSE /\ watchdog' = TRUE
      /\ bursts' = bursts /\ cur' = cur /\ prev' = prev /\ start' = start /\ st' = st
      /\ last' = last /\ counter' = counter /\ synced' = synced /\ pushed' = pushed
      /\ done' = done /\ pos' = pos /\ left' = left /\ leftPos' = leftPos /\ nof' = nof
      /\ wrong' = wrong
  BY Zenon DEF TrackError, Break
<1>3. MovedToTrack \in Buffer
  BY <1>1, WindowTrack
<1>4. /\ buf' \in [0 .. N - 1 -> Buffer] /\ RingInv'
      /\ buf'[prev'] = buf[prev]
  BY <1>1, <1>2, <1>3, Refilled
<1>5. TypeOK'
  <2>1. alive' \in BOOLEAN /\ watchdog' \in BOOLEAN
    BY <1>2, Zenon
  <2> QED BY <1>1, <1>2, <1>4, <2>1 DEF TypeOK
<1>6. CountInv'
  BY <1>1, <1>2, Zenon DEF CountInv, InStep
<1>7. KeptIntact'
  <2>1. KeptIntact' <=> KeptIn(buf'[prev'], leftPos', left', done', pos')
    BY DEF KeptIntact, KeptIn
  <2>2. KeptIn(buf[prev], leftPos, left, done, pos)
    BY <1>1 DEF ReadInv, KeptIntact, KeptIn
  <2> QED BY <1>2, <1>4, <2>1, <2>2, Zenon
<1>8. ReadInv'
  <2>1. ~alive' /\ done' <= pos'
    BY <1>1, <1>2, Zenon DEF ReadInv
  <2> QED BY <1>7, <2>1, Zenon DEF ReadInv
<1>9. EntryInv'
  BY <1>1, <1>2, Zenon DEF EntryInv, BurstContinues
<1>10. OrderInv'
  BY <1>1, <1>2, Zenon DEF OrderInv
<1> QED BY <1>4, <1>5, <1>6, <1>8, <1>9, <1>10 DEF IndInv

---------------------------------------------------------------------------
(* The theorems.                                                           *)

\* The thread before its first iteration.
LEMMA InitInv == Init => IndInv
<1> SUFFICES ASSUME Init PROVE IndInv
  OBVIOUS
<1>1. /\ L \in Nat /\ Index = 0 .. 3 * L - 1 /\ N \in Nat /\ N > 1 /\ MaxWrong \in Nat
  BY Lengths
<1>2. Cleared \in Buffer /\ \A i \in Index : Cleared[i] = Zero
  BY DEF Cleared, Buffer, Sample
<1>3. /\ bursts \in Streams /\ pos = 0 /\ buf = [b \in 0 .. N - 1 |-> Cleared]
      /\ cur = 0 /\ prev = N - 1 /\ left = 0 /\ leftPos = 0 /\ start = 0
      /\ st = "FIND" /\ last = "FIND" /\ nof = 0 /\ counter = 0 /\ synced = 0
      /\ pushed = <<>> /\ done = 0 /\ watchdog = FALSE /\ alive = TRUE /\ wrong = 0
  BY DEF Init
<1>4. TypeOK
  <2>1. pushed \in Seq(Entry)
    BY <1>3
  <2>2. watchdog \in BOOLEAN /\ alive \in BOOLEAN
    BY <1>3, Zenon
  <2>3. buf \in [0 .. N - 1 -> Buffer]
    BY <1>2, <1>3
  <2>4. /\ cur \in 0 .. N - 1 /\ prev \in 0 .. N - 1 /\ 0 \in 0 .. 3 * L /\ 0 \in 0 .. 2 * L
        /\ 0 \in 0 .. MaxWrong /\ 0 \in Nat
    BY <1>1, <1>3
  <2> QED BY <1>3, <2>1, <2>2, <2>3, <2>4 DEF TypeOK, Entry
<1>5. CountInv
  <2>1. Len(pushed) = 0
    BY <1>3
  <2> QED BY <1>3, <2>1 DEF CountInv, InStep
<1>6. ReadInv
  <2>1. KeptIntact
    BY <1>1, <1>3 DEF KeptIntact
  <2>2. buf[cur] = Cleared
    BY <1>1, <1>3
  <2>3. ASSUME NEW i \in Index
        PROVE  buf[cur][i] = From(done, pos - 3 * L + i)
    BY <1>1, <1>2, <1>3, <2>2 DEF From
  <2> QED BY <1>3, <2>1, <2>3 DEF ReadInv
<1>7. DOMAIN pushed = {}
  BY <1>3
<1>8. EntryInv /\ OrderInv
  BY <1>3, <1>7 DEF EntryInv, OrderInv, BurstContinues
<1>9. RingInv
  BY <1>1, <1>3, <1>7 DEF RingInv, PushedIntact
<1> QED BY <1>4, <1>5, <1>6, <1>8, <1>9 DEF IndInv

\* Every iteration keeps the invariant.
LEMMA NextInv == IndInv /\ [Next]_vars => IndInv'
<1> SUFFICES ASSUME IndInv, [Next]_vars PROVE IndInv'
  OBVIOUS
<1>1. CASE FindNothing
  BY <1>1, FindNothingInv
<1>2. CASE FindPeak
  BY <1>2, FindPeakTakes, TakesInv
<1>3. CASE FindPeakAtEnd
  BY <1>3, FindPeakAtEndTakes, TakesInv
<1>4. CASE FindError
  BY <1>4, FindErrorInv
<1>5. CASE TrackAndRead
  BY <1>5, TrackAndReadTakes, TakesInv
<1>6. CASE TrackKept
  BY <1>6, TrackKeptTakes, TakesInv
<1>7. CASE TrackError
  BY <1>7, TrackErrorInv
<1>8. CASE UNCHANGED vars
  <2>1. /\ TypeOK' /\ CountInv' /\ ReadInv'
    BY <1>8, Zenon DEF vars, IndInv, TypeOK, CountInv, InStep, ReadInv, KeptIntact
  <2>2. /\ EntryInv' /\ OrderInv' /\ RingInv'
    BY <1>8, Zenon DEF vars, IndInv, EntryInv, BurstContinues, OrderInv, RingInv, PushedIntact
  <2> QED BY <2>1, <2>2 DEF IndInv
<1> QED BY <1>1, <1>2, <1>3, <1>4, <1>5, <1>6, <1>7, <1>8 DEF Next

\* The inductive invariant holds in every state.
THEOREM Inductive == Spec => []IndInv
BY InitInv, NextInv, PTL DEF Spec

\* Every variable keeps its type: ue_sync.c's indices stay in its buffers, and an
\* entry pushed for decoding names a buffer of the ring and a place in it.
THEOREM TypeCorrect == Spec => []TypeOK
<1>1. IndInv => TypeOK
  BY DEF IndInv
<1> QED BY <1>1, Inductive, PTL

\* A subframe is L successive samples, and within a burst they follow those of
\* the subframe before, whatever the PSS search answers.
THEOREM Continues == Spec => []BurstContinues
<1>1. IndInv => BurstContinues
  BY DEF IndInv, EntryInv
<1> QED BY <1>1, Inductive, PTL

\* What the next iteration and the decoding thread will read is still in the ring
\* of input buffers.
THEOREM Kept == Spec => []RingKeeps
<1>1. IndInv => RingKeeps
  BY Zenon DEF IndInv, ReadInv, RingInv, RingKeeps
<1> QED BY <1>1, Inductive, PTL

\* Every subframe synchronized is pushed for decoding, and a thread in its loop
\* leaves no iteration with its watchdog armed.
THEOREM Accounted == Spec => []InStep
<1>1. IndInv => InStep
  BY DEF IndInv, CountInv
<1> QED BY <1>1, Inductive, PTL

\* No sample of the stream is delivered twice, whatever the PSS search answers.
THEOREM OnlyOnce == Spec => []NoSampleTwice
<1>1. ASSUME IndInv
      PROVE  NoSampleTwice
  <2>1. L \in Nat /\ pushed \in Seq(Entry)
    BY <1>1, Lengths, Zenon DEF IndInv, TypeOK, Entry
  <2>2. ASSUME NEW k \in DOMAIN pushed, NEW l \in DOMAIN pushed, k < l,
               NEW i \in 0 .. L - 1, NEW j \in 0 .. L - 1,
               pushed[k].samples[i] = pushed[l].samples[j], pushed[k].samples[i] # Zero
        PROVE  FALSE
    <3>1. PICK c \in Nat, d \in Int, e \in Nat, f \in Int :
            /\ c = pushed[k].done /\ d = pushed[k].end
            /\ e = pushed[l].done /\ f = pushed[l].end
      <4>1. pushed[k] \in Entry /\ pushed[l] \in Entry
        BY <2>1, ElementOfSeq, LenProperties
      <4> QED BY <4>1 DEF Entry
    <3>2. /\ pushed[k].samples[i] = From(c, d - L + i)
          /\ pushed[l].samples[j] = From(e, f - L + j)
      BY <1>1, <3>1 DEF IndInv, EntryInv, BurstContinues
    <3>3. d - L + i = f - L + j /\ f - L + j >= e
      <4>1. PICK a \in Int, g \in Int : a = d - L + i /\ g = f - L + j
        BY <2>1
      <4>2. From(c, a) = From(e, g) /\ From(c, a) # Zero
        BY <2>2, <3>2, <4>1
      <4>3. a = g /\ g >= e
        BY <4>2 DEF From
      <4> QED BY <4>1, <4>3
    <3>4. e >= d \/ f >= d + L
      BY <1>1, <2>2, <3>1, Zenon DEF IndInv, OrderInv
    <3> QED BY <2>1, <3>3, <3>4
  <2> QED BY <2>2, Zenon DEF NoSampleTwice
<1> QED BY <1>1, Inductive, PTL

---------------------------------------------------------------------------
(* BurstsDelivered: as long as the PSS search is right, the synchronization   *)
(* thread delivers the subframes of the bursts on the air, and nothing else.  *)

\* Where a burst ends in the stream.
End(b) == b.at + b.n * L

\* The bursts on the air do not overlap.
Separate ==
  \A B \in Streams : \A b, c \in B : b = c \/ End(b) <= c.at \/ End(c) <= b.at

---------------------------------------------------------------------------
(* The inductive invariant.                                                *)

\* Each entry of u is a subframe of a burst of B, and behind the one before.
Only(u, B) ==
  /\ \A k \in DOMAIN u : \E b \in B : Carries(u[k], b)
  /\ \A k \in 2 .. Len(u) : u[k].end >= u[k - 1].end + L

\* The first m subframes of a burst are among the entries of u.
Has(u, b, m) ==
  \A i \in 1 .. m : \E k \in DOMAIN u : Carries(u[k], b) /\ u[k].counter = i

\* A burst delivered, and one that is still to come into the window.
Passed(c) == End(c) <= done /\ Has(pushed, c, c.n)
Ahead(c)  == done <= c.at /\ (left = 0 => pos - L < c.at)

\* The thread is in the middle of b; every other burst is before or behind it.
Follows(b) ==
  /\ nof = b.n /\ counter < b.n /\ done <= b.at
  /\ pos - left = b.at + counter * L /\ Has(pushed, b, counter)
  /\ \A c \in bursts : c = b \/ Passed(c) \/ End(b) <= c.at

DeliverInv ==
  wrong = 0 =>
    /\ Only(pushed, bursts)
    /\ alive /\ st = "FIND" => \A c \in bursts : Passed(c) \/ Ahead(c)
    /\ alive /\ st = "TRACK" => \E b \in bursts : Follows(b)

---------------------------------------------------------------------------
(* The window and the bursts.                                              *)

\* The fields of a burst, and its length.
LEMMA BurstFields ==
  ASSUME bursts \in Streams, NEW b \in bursts
  PROVE  b.at \in Nat /\ b.n \in Nat /\ b.n >= 1 /\ End(b) \in Nat /\ b.at + L <= End(b)
<1>1. b.at \in Nat /\ b.n \in Nat /\ b.n >= 1 /\ L \in Nat
  BY Lengths
<1>2. b.n * L \in Nat /\ L <= b.n * L
  <2>1. PICK m \in Nat : b.n = m + 1
    <3>1. b.n - 1 \in Nat /\ b.n = (b.n - 1) + 1
      BY <1>1
    <3> QED BY <3>1
  <2>2. (m + 1) * L = m * L + L /\ m * L \in Nat
    BY <1>1, <2>1
  <2> QED BY <1>1, <2>1, <2>2
<1> QED BY <1>1, <1>2 DEF End

\* A multiple of the length of a subframe, and the next ones.
LEMMA Multiple ==
  ASSUME NEW a \in Nat, NEW b \in Nat, a < b
  PROVE  /\ a * L \in Nat /\ b * L \in Nat /\ (a + 1) * L = a * L + L
         /\ a * L + L <= b * L
<1>1. L \in Nat
  BY Lengths
<1>2. PICK m \in Nat : b = a + 1 + m
  <2>1. b - a - 1 \in Nat /\ b = a + 1 + (b - a - 1)
    OBVIOUS
  <2> QED BY <2>1
<1>3. (a + 1 + m) * L = a * L + L + m * L /\ m * L \in Nat /\ a * L \in Nat
  BY <1>1
<1>4. (a + 1) * L = a * L + L
  BY <1>1
<1> QED BY <1>1, <1>2, <1>3, <1>4

\* The sample the window begins with.
Origin == pos + ReadToFind - 3 * L

\* What the proofs of this section use of the state.
LEMMA FindState ==
  ASSUME IndInv, alive, st = "FIND"
  PROVE  /\ bursts \in Streams /\ pos \in Nat /\ done \in Nat /\ left \in Nat /\ done <= pos
         /\ left > 0 => done >= pos - left
         /\ ReadToFind \in 0 .. 2 * L /\ Origin \in Int
         /\ ReadToFind = IF left > 0 THEN 2 * L - left ELSE L
         /\ \A i \in Index : ReceivedToFind[i] = From(done, Origin + i)
<1>1. TypeOK /\ ReadInv
  BY Zenon DEF IndInv
<1>2. bursts \in Streams /\ pos \in Nat /\ done \in Nat /\ left \in 0 .. 3 * L
  BY <1>1, Zenon DEF TypeOK
<1>3. L \in Nat
  BY Lengths
<1>4. ReadToFind \in 0 .. 2 * L
      /\ \A i \in Index : ReceivedToFind[i] = From(done, pos + ReadToFind - 3 * L + i)
  BY <1>1, WindowFind
<1>5. done <= pos /\ (left > 0 => done >= pos - left)
  BY <1>1, Zenon DEF ReadInv
<1>6. Origin \in Int
  BY <1>2, <1>3, <1>4 DEF Origin
<1>7. ReadToFind = IF left > 0 THEN 2 * L - left ELSE L
  BY DEF ReadToFind
<1> QED BY <1>2, <1>3, <1>4, <1>5, <1>6, <1>7 DEF Origin

\* What a right search answers is the PSS of a burst, and not one delivered.
LEMMA Seen ==
  ASSUME IndInv, alive, st = "FIND", NEW off \in {0, Half},
         NEW d \in Right(ReceivedToFind, off)
  PROVE  \E b \in bursts :
           /\ d[2] = b.n /\ d[1] \in Int /\ Origin + d[1] = b.at + Half
           /\ done <= b.at + Half - F
           /\ L + off + F <= d[1] /\ d[1] <= 2 * L + off
<1>1. PICK O \in Int, R \in {ReceivedToFind} :
        /\ O = Origin
        /\ bursts \in Streams /\ done \in Nat
        /\ \A i \in Index : R[i] = From(done, O + i)
  BY FindState
<1>2. /\ L \in Nat /\ Half \in Nat /\ F \in Nat /\ L = 2 * Half /\ 2 < F /\ F <= Half
      /\ Index = 0 .. 3 * L - 1 /\ off \in {0, Half}
  BY Lengths
<1>3. PICK e \in (F .. L) \X bursts :
        /\ d = <<L + off + e[1], e[2].n>>
        /\ \A j \in 1 .. F : R[L + off + e[1] - j] = e[2].at + Half - j
  BY <1>1 DEF Right
<1>4. PICK b \in bursts, x \in Int :
        /\ b = e[2] /\ x = L + off + e[1] /\ e[1] \in F .. L
  BY <1>2, <1>3
<1>5. b.at \in Nat
  BY <1>1, BurstFields
<1>6. L + off + F <= x /\ x <= 2 * L + off
  BY <1>2, <1>4
<1>7. d[1] = x /\ d[2] = b.n
  BY <1>3, <1>4
<1>8. ASSUME NEW j \in 1 .. F
      PROVE  R[x - j] = b.at + Half - j
  <2>1. R[L + off + e[1] - j] = e[2].at + Half - j
    BY <1>3
  <2>2. x - j = L + off + e[1] - j
    BY <1>2, <1>4
  <2>3. e[2].at + Half - j = b.at + Half - j
    BY <1>4
  <2> QED BY <2>1, <2>2, <2>3
<1>9. ASSUME NEW j \in 1 .. F
      PROVE  O + (x - j) = b.at + Half - j /\ O + (x - j) >= done
  <2>1. x - j \in Index
    BY <1>2, <1>6
  <2>2. From(done, O + (x - j)) = b.at + Half - j
    BY <1>1, <1>8, <2>1
  <2>3. b.at + Half - j # Zero /\ O + (x - j) \in Int
    BY <1>2, <1>5 DEF Zero
  <2> QED BY <1>1, <2>2, <2>3 DEF From
<1>10. O + x = b.at + Half
  <2>1. 1 \in 1 .. F
    BY <1>2
  <2>2. O + (x - 1) = b.at + Half - 1
    BY <1>9, <2>1
  <2> QED BY <1>2, <1>5, <2>2
<1>11. done <= b.at + Half - F
  <2>1. F \in 1 .. F
    BY <1>2
  <2>2. O + (x - F) = b.at + Half - F /\ O + (x - F) >= done
    BY <1>9, <2>1
  <2> QED BY <2>2
<1> QED BY <1>1, <1>4, <1>6, <1>7, <1>10, <1>11

\* A burst that is still ahead begins a subframe or more behind the window's
\* first sample.
LEMMA AheadPlace ==
  ASSUME IndInv, alive, st = "FIND", NEW c \in bursts, Ahead(c)
  PROVE  Origin + L <= c.at
<1>1. /\ pos \in Nat /\ done \in Nat /\ left \in Nat /\ c.at \in Nat /\ L \in Nat
      /\ left > 0 => done >= pos - left
      /\ ReadToFind = IF left > 0 THEN 2 * L - left ELSE L
  BY FindState, BurstFields, Lengths
<1>2. done <= c.at /\ (left = 0 => pos - L < c.at)
  BY DEF Ahead
<1>3. CASE left = 0
  BY <1>1, <1>2, <1>3 DEF Origin
<1>4. CASE left > 0
  BY <1>1, <1>2, <1>4 DEF Origin
<1> QED BY <1>1, <1>3, <1>4

\* Its PSS is found when it is in the range of a search.
LEMMA Visible ==
  ASSUME IndInv, alive, st = "FIND", NEW c \in bursts, Ahead(c), NEW off \in {0, Half},
         L + off + F <= c.at + Half - Origin, c.at + Half - Origin <= 2 * L + off
  PROVE  Right(ReceivedToFind, off) # {}
<1>1. PICK O \in Int, R \in {ReceivedToFind} :
        /\ O = Origin
        /\ done \in Nat /\ c.at \in Nat /\ done <= c.at
        /\ \A i \in Index : R[i] = From(done, O + i)
  BY FindState, BurstFields DEF Ahead
<1>2. /\ L \in Nat /\ Half \in Nat /\ F \in Nat /\ L = 2 * Half /\ 2 < F /\ F <= Half
      /\ Index = 0 .. 3 * L - 1 /\ off \in {0, Half}
  BY Lengths
<1>3. PICK x \in Int : x = c.at + Half - O /\ L + off + F <= x /\ x <= 2 * L + off
  BY <1>1, <1>2
<1>4. PICK r \in F .. L : x = L + off + r
  <2>1. x - L - off \in F .. L /\ x = L + off + (x - L - off)
    BY <1>2, <1>3
  <2> QED BY <2>1
<1>5. ASSUME NEW j \in 1 .. F
      PROVE  R[L + off + r - j] = c.at + Half - j
  <2>1. x - j \in Index /\ L + off + r - j = x - j
    BY <1>2, <1>3, <1>4
  <2>2. O + (x - j) = c.at + Half - j
    BY <1>1, <1>2, <1>3
  <2>3. c.at + Half - j >= done /\ c.at + Half - j \in Int
    BY <1>1, <1>2
  <2>4. From(done, c.at + Half - j) = c.at + Half - j
    BY <1>1, <2>3 DEF From
  <2> QED BY <1>1, <2>1, <2>2, <2>4
<1>6. <<L + off + r, c.n>> \in Right(R, off)
  <2>1. PICK e \in (F .. L) \X bursts : e[1] = r /\ e[2] = c
    <3>1. <<r, c>> \in (F .. L) \X bursts /\ <<r, c>>[1] = r /\ <<r, c>>[2] = c
      OBVIOUS
    <3> QED BY <3>1
  <2> QED BY <1>5, <2>1 DEF Right
<1> QED BY <1>1, <1>6

\* A window without a peak holds the beginning of no burst ahead.
LEMMA NothingAhead ==
  ASSUME IndInv, alive, st = "FIND", NEW c \in bursts, Ahead(c),
         Right(ReceivedToFind, 0) = {}, Right(ReceivedToFind, Half) = {}
  PROVE  Origin + 2 * L < c.at
<1>1. PICK O \in Int, a \in Nat : O = Origin /\ a = c.at /\ O + L <= a
  BY FindState, BurstFields, AheadPlace
<1>2. L \in Nat /\ Half \in Nat /\ F \in Nat /\ L = 2 * Half /\ 2 < F /\ F <= Half
  BY Lengths
<1>3. ~(L + 0 + F <= a + Half - O /\ a + Half - O <= 2 * L + 0)
  BY <1>1, Visible
<1>4. ~(L + Half + F <= a + Half - O /\ a + Half - O <= 2 * L + Half)
  BY <1>1, Visible
<1> QED BY <1>1, <1>2, <1>3, <1>4

\* A right answer of both searches: the first burst ahead.
LEMMA FirstAhead ==
  ASSUME IndInv, Separate, alive, st = "FIND",
         \A c \in bursts : Passed(c) \/ Ahead(c),
         NEW d \in Correct(ReceivedToFind), d # Nothing
  PROVE  \E b \in bursts :
           /\ d[2] = b.n /\ d[1] \in Int /\ Origin + d[1] = b.at + Half /\ done <= b.at
           /\ \A c \in bursts : c = b \/ Passed(c) \/ End(b) <= c.at
<1> DEFINE R == ReceivedToFind
<1>1. PICK off \in {0, Half} :
        d \in Right(R, off) /\ (off # 0 => Right(R, 0) = {})
  <2>1. CASE Right(R, 0) # {}
    <3>1. d \in Right(R, 0)
      BY <2>1, Zenon DEF Correct
    <3> QED BY <3>1
  <2>2. CASE Right(R, 0) = {} /\ Right(R, Half) # {}
    <3>1. d \in Right(R, Half)
      BY <2>2, Zenon DEF Correct
    <3> QED BY <2>2, <3>1
  <2>3. CASE Right(R, 0) = {} /\ Right(R, Half) = {}
    BY <2>3, Zenon DEF Correct
  <2> QED BY <2>1, <2>2, <2>3
<1>2. PICK b \in bursts :
        /\ d[2] = b.n /\ d[1] \in Int /\ Origin + d[1] = b.at + Half
        /\ done <= b.at + Half - F
        /\ L + off + F <= d[1] /\ d[1] <= 2 * L + off
  BY <1>1, Seen
<1> HIDE DEF R
<1>3. PICK O \in Int, x \in Int :
        O = Origin /\ x = d[1] /\ O + x = b.at + Half /\ x <= 2 * L + off
  BY <1>2, FindState
<1>4. /\ L \in Nat /\ Half \in Nat /\ F \in Nat /\ L = 2 * Half /\ 2 < F /\ F <= Half
      /\ off \in {0, Half}
  BY Lengths
<1>5. bursts \in Streams /\ done \in Nat
  BY FindState
<1>6. b.at \in Nat /\ b.n \in Nat /\ End(b) \in Nat /\ b.at + L <= End(b)
  BY <1>5, BurstFields
<1>7. Ahead(b)
  <2>1. ~(End(b) <= done)
    BY <1>2, <1>4, <1>5, <1>6
  <2> QED BY <2>1 DEF Passed
<1>8. ASSUME NEW c \in bursts, c # b, Ahead(c)
      PROVE  End(b) <= c.at
  <2>1. End(b) <= c.at \/ End(c) <= b.at
    BY <1>5, <1>8 DEF Separate
  <2>2. c.at \in Nat /\ End(c) \in Nat /\ c.at + L <= End(c)
    BY <1>5, BurstFields
  <2>3. O + L <= c.at
    BY <1>3, <1>8, AheadPlace
  <2>4. CASE End(c) <= b.at
    <3>1. c.at + L <= b.at
      BY <1>4, <1>6, <2>2, <2>4
    <3>2. off # 0
      BY <1>3, <1>4, <1>6, <2>2, <2>3, <3>1
    <3>3. Right(R, 0) # {}
      <4>1. L + 0 + F <= c.at + Half - O /\ c.at + Half - O <= 2 * L + 0
        BY <1>3, <1>4, <1>6, <2>2, <2>3, <3>1
      <4> QED BY <1>3, <1>8, <4>1, Visible DEF R
    <3> QED BY <1>1, <3>2, <3>3
  <2> QED BY <2>1, <2>4
<1>9. \A c \in bursts : c = b \/ Passed(c) \/ End(b) <= c.at
  BY <1>8
<1>10. done <= b.at
  BY <1>7 DEF Ahead
<1> QED BY <1>2, <1>9, <1>10

---------------------------------------------------------------------------
(* The next subframe of a burst.                                           *)

\* An iteration that takes the next subframe of b, and all it takes.
Adds(w, s, p, q, o, b) ==
  /\ Takes(w, s, b.n, p, q, o)
  /\ counter < b.n /\ done <= b.at /\ p - q = b.at + (counter + 1) * L

\* Its entry carries it.
LEMMA EntryCarries ==
  ASSUME IndInv, NEW w, NEW s, NEW p \in Nat, NEW q \in Nat, NEW o \in Nat,
         NEW b \in bursts, Adds(w, s, p, q, o, b)
  PROVE  /\ Carries(Pushes(w, s, b.n, p - q), b)
         /\ Pushes(w, s, b.n, p - q).counter = counter + 1
         /\ Pushes(w, s, b.n, p - q).end = p - q
<1>1. TypeOK
  BY Zenon DEF IndInv
<1>0. /\ Takes(w, s, b.n, p, q, o)
      /\ counter < b.n /\ done <= b.at /\ p - q = b.at + (counter + 1) * L
  BY Zenon DEF Adds
<1>2. bursts \in Streams /\ counter \in Nat /\ done \in Nat /\ L \in Nat
  BY <1>1, Lengths, Zenon DEF TypeOK
<1>3. b.at \in Nat /\ b.n \in Nat
  BY <1>2, BurstFields
<1>4. PICK x \in Nat : x = counter * L /\ (counter + 1) * L = x + L
  BY <1>2, <1>3, Multiple
<1>5. PICK e : e = Pushes(w, s, b.n, p - q)
  OBVIOUS
<1>6. /\ e.counter = counter + 1 /\ e.end = p - q /\ e.nof = b.n
      /\ \A i \in 0 .. L - 1 : e.samples[i] = w[s + i]
  BY <1>5 DEF Pushes
<1>7. \A i \in 0 .. L - 1 : w[s + i] = From(done, p - q - L + i)
  BY <1>0, Zenon DEF Takes
<1>8. ASSUME NEW i \in 0 .. L - 1
      PROVE  e.samples[i] = b.at + (e.counter - 1) * L + i
  <2>1. PICK z \in Int : z = p - q /\ z = b.at + (x + L)
    BY <1>0, <1>4
  <2>2. z - L + i = b.at + x + i
    <3>1. z - L = b.at + x
      BY <1>2, <1>3, <2>1
    <3> QED BY <3>1
  <2>3. b.at + x + i >= done /\ b.at + x + i \in Int
    BY <1>0, <1>2, <1>3
  <2>4. From(done, b.at + x + i) = b.at + x + i
    BY <1>2, <2>3 DEF From
  <2>5. e.counter - 1 = counter
    BY <1>2, <1>6
  <2>6. e.samples[i] = From(done, z - L + i)
    BY <1>6, <1>7, <2>1
  <2>7. b.at + (e.counter - 1) * L + i = b.at + x + i
    BY <1>4, <2>5
  <2> QED BY <2>2, <2>4, <2>6, <2>7
<1>9. e.counter \in 1 .. b.n
  BY <1>0, <1>2, <1>3, <1>6
<1> QED BY <1>5, <1>6, <1>8, <1>9 DEF Carries

\* With it the invariant holds as before, and after the last one the burst has passed.
LEMMA Advance ==
  ASSUME IndInv, Only(pushed, bursts),
         NEW w, NEW s, NEW p \in Nat, NEW q \in Nat, NEW o \in Nat,
         NEW b \in bursts, Adds(w, s, p, q, o, b),
         Has(pushed, b, counter),
         \A c \in bursts : c = b \/ Passed(c) \/ End(b) <= c.at,
         pushed # <<>> => pushed[Len(pushed)].end + L <= p - q
  PROVE  DeliverInv'
<1>1. TypeOK /\ CountInv
  BY Zenon DEF IndInv
<1>0. /\ Takes(w, s, b.n, p, q, o)
      /\ counter < b.n /\ done <= b.at /\ p - q = b.at + (counter + 1) * L
  BY Zenon DEF Adds
<1>2. bursts \in Streams /\ counter \in Nat /\ done \in Nat /\ L \in Nat /\ L > 0
  <2>1. bursts \in Streams /\ counter \in Nat /\ done \in Nat
    BY <1>1, Zenon DEF TypeOK
  <2> QED BY <2>1, Lengths
<1>3. b.at \in Nat /\ b.n \in Nat /\ End(b) = b.at + b.n * L
  BY <1>2, BurstFields DEF End
<1>4. PICK u \in Seq(Entry), n \in Nat :
        /\ u = pushed' /\ n = Len(pushed)
        /\ Len(u) = n + 1 /\ DOMAIN pushed = 1 .. n /\ DOMAIN u = 1 .. n + 1
        /\ \A k \in 1 .. n : u[k] = pushed[k] /\ pushed[k] \in Entry
        /\ u[n + 1] = Pushes(w, s, b.n, p - q)
  BY <1>0, <1>1, PushedStep
<1>5. Carries(u[n + 1], b) /\ u[n + 1].counter = counter + 1 /\ u[n + 1].end = p - q
  <2>1. /\ Carries(Pushes(w, s, b.n, p - q), b)
        /\ Pushes(w, s, b.n, p - q).counter = counter + 1
        /\ Pushes(w, s, b.n, p - q).end = p - q
    BY EntryCarries
  <2> QED BY <1>4, <2>1
<1>6. Only(u, bursts)
  <2>1. ASSUME NEW k \in DOMAIN u
        PROVE  \E c \in bursts : Carries(u[k], c)
    <3>1. CASE k = n + 1
      BY <1>4, <1>5, <3>1
    <3>2. CASE k # n + 1
      <4>1. k \in 1 .. n
        BY <1>4, <3>2
      <4> QED BY <1>4, <4>1 DEF Only
    <3> QED BY <3>1, <3>2
  <2>2. ASSUME NEW k \in 2 .. Len(u)
        PROVE  u[k].end >= u[k - 1].end + L
    <3>1. CASE k = n + 1
      <4>1. n \in 1 .. n /\ k - 1 = n /\ pushed # <<>>
        BY <1>4, <3>1
      <4>2. u[n].end + L <= p - q /\ u[k].end = p - q /\ u[n].end \in Int
        BY <1>4, <1>5, <3>1, <4>1 DEF Entry
      <4> QED BY <1>2, <4>1, <4>2
    <3>2. CASE k # n + 1
      <4>1. k \in 2 .. n /\ k \in 1 .. n /\ k - 1 \in 1 .. n
        BY <1>4, <3>2
      <4>2. pushed[k].end >= pushed[k - 1].end + L
        BY <1>4, <4>1 DEF Only
      <4> QED BY <1>4, <4>1, <4>2
    <3> QED BY <3>1, <3>2
  <2> QED BY <2>1, <2>2 DEF Only
<1>7. ASSUME NEW c, NEW m \in Nat, Has(pushed, c, m)
      PROVE  Has(u, c, m)
  BY <1>4, <1>7 DEF Has
<1>8. Has(u, b, counter + 1)
  <2>1. ASSUME NEW i \in 1 .. counter + 1
        PROVE  \E k \in DOMAIN u : Carries(u[k], b) /\ u[k].counter = i
    <3>1. CASE i = counter + 1
      <4>1. n + 1 \in DOMAIN u
        BY <1>4
      <4> QED BY <1>4, <1>5, <3>1, <4>1
    <3>2. CASE i # counter + 1
      <4>1. i \in 1 .. counter
        BY <1>2, <3>2
      <4>2. Has(u, b, counter)
        BY <1>2, <1>7
      <4> QED BY <4>1, <4>2 DEF Has
    <3> QED BY <3>1, <3>2
  <2> QED BY <2>1 DEF Has
<1>9. /\ bursts' = bursts /\ pos' = p /\ left' = q
      /\ \/ /\ counter + 1 >= b.n /\ st' = "FIND"
            /\ done' = IF p - q > done THEN p - q ELSE done
         \/ /\ counter + 1 < b.n /\ st' = "TRACK" /\ counter' = counter + 1 /\ nof' = b.n
            /\ done' = done
  BY <1>0, <1>1, TakesFacts, TakesStep
<1>10. \A c \in bursts : c.n \in Nat /\ End(c) \in Nat /\ c.at \in Nat
  BY <1>2, BurstFields
<1>11. CASE counter + 1 >= b.n
  <2>1. counter + 1 = b.n
    BY <1>0, <1>2, <1>3, <1>11
  <2>2. p - q = End(b) /\ End(b) > done
    <3>1. p - q = End(b)
      BY <1>0, <1>3, <2>1
    <3>2. b.at + L <= End(b)
      BY <1>2, BurstFields
    <3> QED BY <1>0, <1>2, <1>3, <1>10, <3>1, <3>2
  <2>3. PICK f \in Nat : f = done' /\ f = End(b) /\ st' = "FIND"
    BY <1>2, <1>3, <1>9, <1>10, <1>11, <2>1, <2>2
  <2>4. ASSUME NEW c \in bursts
        PROVE  \/ End(c) <= f /\ Has(u, c, c.n)
               \/ f <= c.at /\ (q = 0 => p - L < c.at)
    <3>1. CASE c = b
      BY <1>8, <1>10, <2>1, <2>3, <3>1
    <3>2. CASE Passed(c)
      BY <1>2, <1>7, <1>10, <2>2, <2>3, <3>2 DEF Passed
    <3>3. CASE End(b) <= c.at
      BY <1>2, <1>10, <2>2, <2>3, <3>3
    <3> QED BY <3>1, <3>2, <3>3
  <2>5. \A c \in bursts : Passed(c)' \/ Ahead(c)'
    BY <1>4, <1>9, <2>3, <2>4 DEF Passed, Ahead
  <2> QED BY <1>4, <1>6, <1>9, <2>3, <2>5 DEF DeliverInv
<1>12. CASE counter + 1 < b.n
  <2>1. st' = "TRACK" /\ counter' = counter + 1 /\ nof' = b.n /\ done' = done
    BY <1>2, <1>3, <1>9, <1>12
  <2>2. ASSUME NEW c \in bursts
        PROVE  c = b \/ (End(c) <= done /\ Has(u, c, c.n)) \/ End(b) <= c.at
    BY <1>7, <1>10 DEF Passed
  <2>3. Follows(b)'
    BY <1>0, <1>4, <1>8, <1>9, <1>12, <2>1, <2>2 DEF Follows, Passed
  <2> QED BY <1>4, <1>6, <1>9, <2>1, <2>3 DEF DeliverInv
<1> QED BY <1>2, <1>3, <1>11, <1>12

---------------------------------------------------------------------------
(* The iterations.                                                         *)

\* A search was right if there has been no wrong answer after it.
LEMMA RightSoFar ==
  ASSUME IndInv, NEW w, NEW d, Find(w, d), wrong' = 0
  PROVE  wrong = 0 /\ d \in Correct(w)
<1>1. wrong \in 0 .. MaxWrong /\ MaxWrong \in Nat
  BY Lengths, Zenon DEF IndInv, TypeOK
<1>2. wrong' = IF d \in Correct(w) THEN wrong ELSE wrong + 1
  BY DEF Find
<1> QED BY <1>1, <1>2

\* Nothing was found: what is ahead is still ahead.
LEMMA FindNothingDelivers ==
  ASSUME IndInv, DeliverInv, FindNothing
  PROVE  DeliverInv'
<1> SUFFICES ASSUME wrong' = 0
             PROVE  DeliverInv'
  BY DEF DeliverInv
<1>1. /\ Find(ReceivedToFind, Nothing) /\ alive /\ st = "FIND"
      /\ bursts' = bursts /\ pushed' = pushed /\ done' = done /\ st' = st
      /\ pos' = pos + ReadToFind /\ left' = 0
  BY Zenon DEF FindNothing, Iterate
<1>2. wrong = 0 /\ Nothing \in Correct(ReceivedToFind)
  BY <1>1, RightSoFar
<1>3. Only(pushed, bursts) /\ \A c \in bursts : Passed(c) \/ Ahead(c)
  BY <1>1, <1>2 DEF DeliverInv
<1>4. Right(ReceivedToFind, 0) = {} /\ Right(ReceivedToFind, Half) = {}
  <2>1. bursts \in Streams
    BY <1>1, FindState
  <2>2. Nothing \notin Right(ReceivedToFind, 0) /\ Nothing \notin Right(ReceivedToFind, Half)
    BY <2>1, RightRange
  <2>3. ASSUME Right(ReceivedToFind, 0) # {}
        PROVE  FALSE
    BY <1>2, <2>2, <2>3, Zenon DEF Correct
  <2>4. ASSUME Right(ReceivedToFind, 0) = {}, Right(ReceivedToFind, Half) # {}
        PROVE  FALSE
    BY <1>2, <2>2, <2>4, Zenon DEF Correct
  <2> QED BY <2>3, <2>4
<1>5. PICK p \in Int : p = pos' /\ p - L = Origin + 2 * L
  <2>1. pos \in Nat /\ ReadToFind \in 0 .. 2 * L /\ L \in Nat
    BY <1>1, FindState, Lengths
  <2> QED BY <1>1, <2>1 DEF Origin
<1>6. ASSUME NEW c \in bursts
      PROVE  \/ End(c) <= done /\ Has(pushed, c, c.n)
             \/ done <= c.at /\ p - L < c.at
  <2>1. CASE Passed(c)
    BY <2>1 DEF Passed
  <2>2. CASE Ahead(c)
    BY <1>1, <1>4, <1>5, <2>2, NothingAhead DEF Ahead
  <2> QED BY <1>3, <2>1, <2>2
<1>7. \A c \in bursts : Passed(c)' \/ Ahead(c)'
  BY <1>1, <1>5, <1>6 DEF Passed, Ahead
<1> QED BY <1>1, <1>3, <1>7 DEF DeliverInv

\* A peak was found: the first subframe of the first burst ahead.
LEMMA FindPeakDelivers ==
  ASSUME IndInv, DeliverInv, Separate, FindPeak \/ FindPeakAtEnd
  PROVE  DeliverInv'
<1> SUFFICES ASSUME wrong' = 0
             PROVE  DeliverInv'
  BY DEF DeliverInv
<1>1. alive /\ st = "FIND"
  BY Zenon DEF FindPeak, FindPeakAtEnd, Iterate
<1>2. PICK d \in Possible(ReceivedToFind) \ {Nothing} :
        /\ Find(ReceivedToFind, d)
        /\ \E w, s : \E p, q, o \in Nat :
             /\ Takes(w, s, d[2], p, q, o)
             /\ p - q = pos + ReadToFind - 3 * L + d[1] + Half
  BY FindPeakTakes, FindPeakAtEndTakes
<1>3. PICK w, s : \E p, q, o \in Nat :
        /\ Takes(w, s, d[2], p, q, o)
        /\ p - q = pos + ReadToFind - 3 * L + d[1] + Half
  BY <1>2
<1>4. PICK p \in Nat, q \in Nat, o \in Nat :
        /\ Takes(w, s, d[2], p, q, o)
        /\ p - q = pos + ReadToFind - 3 * L + d[1] + Half
  BY <1>3
<1>5. wrong = 0 /\ d \in Correct(ReceivedToFind) /\ d # Nothing
  BY <1>2, RightSoFar
<1>6. Only(pushed, bursts) /\ \A c \in bursts : Passed(c) \/ Ahead(c)
  BY <1>1, <1>5 DEF DeliverInv
<1>7. PICK b \in bursts :
        /\ d[2] = b.n /\ d[1] \in Int /\ Origin + d[1] = b.at + Half /\ done <= b.at
        /\ \A c \in bursts : c = b \/ Passed(c) \/ End(b) <= c.at
  BY <1>1, <1>5, <1>6, FirstAhead
<1>8. /\ L \in Nat /\ Half \in Nat /\ L = 2 * Half /\ bursts \in Streams /\ counter = 0
      /\ done \in Nat /\ Origin \in Int /\ pushed \in Seq(Entry)
  <2>1. counter = 0 /\ pushed \in Seq(Entry)
    BY <1>1, Zenon DEF IndInv, CountInv, TypeOK, Entry
  <2> QED BY <1>1, <2>1, Lengths, FindState
<1>9. b.at \in Nat /\ b.n \in Nat /\ b.n >= 1
  BY <1>8, BurstFields
<1>10. p - q = b.at + L
  <2>1. p - q = Origin + d[1] + Half
    BY <1>4 DEF Origin
  <2> QED BY <1>7, <1>8, <1>9, <2>1
<1>11. Adds(w, s, p, q, o, b)
  <2>1. counter < b.n /\ (counter + 1) * L = L
    BY <1>8, <1>9
  <2>2. Takes(w, s, b.n, p, q, o)
    BY <1>4, <1>7
  <2> QED BY <1>7, <1>10, <2>1, <2>2 DEF Adds
<1>12. Has(pushed, b, counter)
  BY <1>8 DEF Has
<1>13. ASSUME pushed # <<>>
       PROVE  pushed[Len(pushed)].end + L <= p - q
  <2>1. Len(pushed) \in DOMAIN pushed /\ pushed[Len(pushed)] \in Entry
    BY <1>8, <1>13, LenProperties, ElementOfSeq
  <2>2. done >= pushed[Len(pushed)].end /\ pushed[Len(pushed)].end \in Int
    <3>1. \A k \in DOMAIN pushed :
            done >= pushed[k].end \/ (st = "TRACK" /\ pos - left >= pushed[k].end)
      BY Zenon DEF IndInv, OrderInv
    <3> QED BY <1>1, <2>1, <3>1 DEF Entry
  <2> QED BY <1>7, <1>8, <1>9, <1>10, <2>2
<1> QED BY <1>6, <1>7, <1>11, <1>12, <1>13, Advance

\* The next subframe of the burst that is followed.
LEMMA TrackDelivers ==
  ASSUME IndInv, DeliverInv, TrackAndRead \/ TrackKept
  PROVE  DeliverInv'
<1> SUFFICES ASSUME wrong' = 0
             PROVE  DeliverInv'
  BY DEF DeliverInv
<1>1. alive /\ st = "TRACK" /\ wrong = 0
  BY Zenon DEF TrackAndRead, TrackKept, Iterate
<1>2. PICK w, s : \E p, q, o \in Nat : Takes(w, s, nof, p, q, o)
  BY TrackAndReadTakes, TrackKeptTakes
<1>3. PICK p \in Nat, q \in Nat, o \in Nat : Takes(w, s, nof, p, q, o)
  BY <1>2
<1>4. PICK b \in bursts : Follows(b)
  BY <1>1 DEF DeliverInv
<1>5. Only(pushed, bursts)
  BY <1>1 DEF DeliverInv
<1>6. /\ nof = b.n /\ counter < b.n /\ done <= b.at
      /\ pos - left = b.at + counter * L /\ Has(pushed, b, counter)
      /\ \A c \in bursts : c = b \/ Passed(c) \/ End(b) <= c.at
  BY <1>4, Zenon DEF Follows
<1>7. TypeOK /\ pushed # <<>> /\ pushed[Len(pushed)].end = pos - left
  BY <1>1, Zenon DEF IndInv, EntryInv
<1>8. bursts \in Streams /\ counter \in Nat /\ pos \in Nat /\ left \in 0 .. 3 * L /\ L \in Nat
  BY <1>7, Lengths, Zenon DEF TypeOK
<1>9. b.at \in Nat /\ b.n \in Nat
  BY <1>8, BurstFields
<1>10. p - q = (pos - left) + L
  BY <1>1, <1>3, <1>7, TakesFacts
<1>11. p - q = b.at + (counter + 1) * L
  <2>1. PICK x \in Nat : x = counter * L /\ (counter + 1) * L = x + L
    BY <1>6, <1>8, <1>9, Multiple
  <2>2. PICK y \in Int : y = pos - left /\ y = b.at + x
    BY <1>6, <1>8, <2>1
  <2>3. p - q = b.at + (x + L)
    BY <1>8, <1>9, <1>10, <2>2
  <2> QED BY <2>1, <2>3
<1>12. Adds(w, s, p, q, o, b)
  BY <1>3, <1>6, <1>11 DEF Adds
<1>13. pushed[Len(pushed)].end + L <= p - q
  BY <1>7, <1>8, <1>10
<1> QED BY <1>5, <1>6, <1>12, <1>13, Advance

\* An error of the radio ends the thread; what was delivered stays so.
LEMMA ErrorDelivers ==
  ASSUME IndInv, DeliverInv, FindError \/ TrackError
  PROVE  DeliverInv'
<1> SUFFICES ASSUME wrong' = 0
             PROVE  DeliverInv'
  BY DEF DeliverInv
<1>1. ~alive' /\ bursts' = bursts /\ pushed' = pushed
  BY Zenon DEF FindError, TrackError, Break
<1>2. wrong = 0
  <2>1. CASE wrong' = wrong
    BY <2>1
  <2>2. CASE \E d : Find(ReceivedToFind, d)
    BY <2>2, RightSoFar
  <2> QED BY <2>1, <2>2, Zenon DEF FindError, TrackError
<1> QED BY <1>1, <1>2 DEF DeliverInv

\* At the start everything is ahead.
LEMMA InitDelivers == Init => DeliverInv
<1> SUFFICES ASSUME Init PROVE DeliverInv
  OBVIOUS
<1>1. bursts \in Streams /\ pushed = <<>> /\ done = 0 /\ pos = 0 /\ st = "FIND"
  BY DEF Init
<1>2. L \in Nat /\ L > 0
  BY Lengths
<1>3. \A c \in bursts : Ahead(c)
  BY <1>1, <1>2, BurstFields DEF Ahead
<1>4. Only(pushed, bursts)
  BY <1>1 DEF Only
<1> QED BY <1>1, <1>3, <1>4 DEF DeliverInv

\* Every iteration keeps the invariant.
LEMMA NextDelivers ==
  ASSUME Separate
  PROVE  IndInv /\ DeliverInv /\ [Next]_vars => DeliverInv'
<1> SUFFICES ASSUME IndInv, DeliverInv, [Next]_vars
             PROVE  DeliverInv'
  OBVIOUS
<1>1. CASE UNCHANGED vars
  BY <1>1 DEF vars, DeliverInv, Passed, Ahead, Follows
<1> QED BY <1>1, FindNothingDelivers, FindPeakDelivers, TrackDelivers, ErrorDelivers DEF Next

---------------------------------------------------------------------------
(* What it implies.                                                        *)

\* Two subframes after its end, a burst is behind the thread.
LEMMA AllDelivered ==
  ASSUME IndInv, DeliverInv, wrong = 0, alive, NEW b \in bursts, pos >= b.at + (b.n + 2) * L
  PROVE  Has(pushed, b, b.n)
<1>1. /\ TypeOK /\ left <= 2 * L /\ (st = "FIND" /\ left > 0 => done >= pos - left)
  BY Zenon DEF IndInv, ReadInv, KeptIntact
<1>2. /\ bursts \in Streams /\ counter \in Nat /\ pos \in Nat /\ left \in 0 .. 3 * L
      /\ st \in {"FIND", "TRACK"} /\ done \in Nat
  BY <1>1, Zenon DEF TypeOK
<1>3. L \in Nat /\ L > 0
  BY Lengths
<1>4. b.at \in Nat /\ b.n \in Nat /\ b.n >= 1 /\ End(b) \in Nat /\ b.at + L <= End(b)
  BY <1>2, BurstFields
<1>5. pos >= End(b) + 2 * L
  <2>1. (b.n + 2) * L = b.n * L + 2 * L /\ b.n * L \in Nat
    BY <1>3, <1>4
  <2> QED BY <1>2, <1>3, <1>4, <2>1 DEF End
<1>6. CASE st = "FIND"
  <2>1. Passed(b) \/ Ahead(b)
    BY <1>6 DEF DeliverInv
  <2>2. ~Ahead(b)
    BY <1>1, <1>2, <1>3, <1>4, <1>5, <1>6 DEF Ahead
  <2> QED BY <2>1, <2>2 DEF Passed
<1>7. CASE st = "TRACK"
  <2>1. PICK f \in bursts : Follows(f)
    BY <1>7 DEF DeliverInv
  <2>2. /\ counter < f.n /\ pos - left = f.at + counter * L
        /\ \A c \in bursts : c = f \/ Passed(c) \/ End(f) <= c.at
    BY <2>1, Zenon DEF Follows
  <2>3. f.at \in Nat /\ f.n \in Nat /\ End(f) \in Nat
    BY <1>2, BurstFields
  <2>4. PICK x \in Nat : x = counter * L /\ f.at + x + L <= End(f)
    <3>1. counter * L \in Nat /\ counter * L + L <= f.n * L /\ f.n * L \in Nat
      BY <1>2, <2>2, <2>3, Multiple
    <3>2. PICK x \in Nat, y \in Nat : x = counter * L /\ y = f.n * L /\ x + L <= y
      BY <3>1
    <3>3. f.at + x + L <= f.at + y
      BY <1>3, <2>3, <3>2
    <3> QED BY <3>2, <3>3 DEF End
  <2>5. pos <= End(f) + L
    BY <1>1, <1>2, <1>3, <2>2, <2>3, <2>4
  <2>6. b # f /\ ~(End(f) <= b.at)
    BY <1>2, <1>3, <1>4, <1>5, <2>3, <2>5
  <2> QED BY <2>2, <2>6 DEF Passed
<1> QED BY <1>2, <1>6, <1>7

\* When the bursts on the air do not overlap, and as long as the search answers
\* right: what is pushed for decoding are the subframes of the bursts, in order
\* and with their number, and a burst is complete two subframes after its end,
\* wherever it lies in the windows the thread reads.
THEOREM Delivered == ASSUME Separate PROVE Spec => []BurstsDelivered
<1>1. Spec => []DeliverInv
  BY InitDelivers, NextDelivers, Inductive, PTL DEF Spec
<1>2. IndInv /\ DeliverInv => BurstsDelivered
  <2> SUFFICES ASSUME IndInv, DeliverInv, wrong = 0
               PROVE  BurstsDelivered
    BY DEF BurstsDelivered
  <2>1. Only(pushed, bursts)
    BY DEF DeliverInv
  <2>2. ASSUME NEW b \in bursts, alive, pos >= b.at + (b.n + 2) * L, NEW c \in 1 .. b.n
        PROVE  \E k \in DOMAIN pushed : Carries(pushed[k], b) /\ pushed[k].counter = c
    BY <2>2, AllDelivered DEF Has
  <2> QED BY <2>1, <2>2 DEF Only, BurstsDelivered
<1> QED BY <1>1, <1>2, Inductive, PTL
=============================================================================

---------------------------- MODULE RxPathProofs ----------------------------
(***************************************************************************)
(* Proofs about RxPath for every size of the ring, every set of controls   *)
(* and environments, and every number of subframes and messages.           *)
(***************************************************************************)
EXTENDS RxPath, SequenceTheorems, FiniteSetTheorems, TLAPS

---------------------------------------------------------------------------
(* The inductive invariants.                                               *)

\* Who has been joined when the main thread is in the middle of a change.
JoinedInv ==
  /\ ~ready => sync = "off" /\ dec = "off"
  /\ main \in {"stopDec", "joinDec"} => sync = "off"
  /\ main \in {"rebuild", "startSync", "free", "ended"} => sync = "off" /\ dec = "off"
  /\ main = "startDec" => dec = "off"
  /\ main \in {"startSync", "startDec"} => ready

\* Which of the two hands are full.
HandsInv ==
  /\ hand \in IF sync = "push" THEN Entries ELSE {NoEntry}
  /\ item \in IF dec \in {"popped", "decode"} THEN Entries ELSE {NoEntry}

TypeInv == TypeOK /\ HandsInv /\ JoinedInv

\* What the radio is tuned to and what is recorded in the middle of a change.
TunedInv ==
  /\ closing => main \in {"stopSync", "joinSync", "stopDec", "joinDec", "free",
                          "ended", "undefined"}
  /\ ~failed =>
       /\ last.gain = gain
       /\ main # "ended" => ready
       /\ main \in {"idle", "gain"} =>
            last.bw = bw /\ freq = [env |-> env, bw |-> bw, ch |-> last.ch]
       /\ main \in {"stopSync", "joinSync", "stopDec", "joinDec", "rebuild"} =>
            closing \/ freq = [env |-> env, bw |-> bc.bw, ch |-> last.ch]
       /\ main \in {"startSync", "startDec", "record"} =>
            bw = bc.bw /\ freq = [env |-> env, bw |-> bw, ch |-> last.ch]

\* The last subframe that was pushed.
Pushed == IF sync = "push" THEN n - 1 ELSE n

\* The numbers of the subframes, from what was decoded to what is pushed.
OrderInv ==
  /\ sync = "push" => hand.id = n
  /\ item.id <= Pushed
  /\ \A k \in DOMAIN cb : cb[k].id + Len(cb) - k <= Pushed /\ item.id < cb[k].id
  /\ \A j, k \in DOMAIN cb : j < k => cb[j].id < cb[k].id
  /\ \A i \in DOMAIN decoded : decoded[i] <= Pushed
  /\ \A i \in DOMAIN decoded : item # NoEntry => decoded[i] < item.id
  /\ \A i \in DOMAIN decoded, k \in DOMAIN cb : decoded[i] < cb[k].id
  /\ \A i, j \in DOMAIN decoded : i < j => decoded[i] < decoded[j]

\* The subframes that are somewhere; no other is missing but those overwritten.
Kept == Queued \cup InHand \cup dropped \cup {decoded[i] : i \in DOMAIN decoded}

KeptInv == main # "ended" => \A id \in 1 .. n : id \in Kept \/ n >= id + N

\* One entry is dropped per stop of the decoding thread.
DroppedInv ==
  /\ IsFiniteSet(dropped) /\ Cardinality(dropped) <= gen
  /\ dec \notin {"left", "off"} \/ main \in {"startSync", "startDec"} =>
       Cardinality(dropped) <= gen - 1

\* How many subframes ago a buffer of the ring was filled, when c is current.
Age(c, s) == IF s < c THEN c - 1 - s ELSE c - 1 - s + N

\* An entry of the present structures has its subframe until the ring is round:
\* with g initializations and m subframes so far, c the current buffer, b the ring.
EntryOK(e, g, m, c, b) ==
  /\ e.gen <= g
  /\ e.gen = g /\ m < e.id + N - 1 =>
       Age(c, e.buf) = m - e.id /\ b[e.buf] = e.id

RingInv ==
  /\ sync = "push" => EntryOK(hand, gen, n, cur, bufs)
  /\ dec \in {"popped", "decode"} => EntryOK(item, gen, n, cur, bufs)
  /\ \A k \in DOMAIN cb : EntryOK(cb[k], gen, n, cur, bufs)

---------------------------------------------------------------------------
(* The container and the ring.                                             *)

\* push_back on a container gives a container.
LEMMA PushBackType ==
  ASSUME NEW q \in Seq(Entries), NEW e \in Entries, Len(q) <= N
  PROVE  PushBack(q, e) \in Seq(Entries) /\ Len(PushBack(q, e)) <= N
<1>1. CASE Len(q) < N
  BY <1>1, RxAssumption DEF PushBack
<1>2. CASE Len(q) = N
  <2>1. q # <<>>
    BY <1>2, RxAssumption
  <2> QED BY <1>2, <2>1, RxAssumption, HeadTailProperties DEF PushBack
<1> QED BY <1>1, <1>2, RxAssumption

\* The next buffer of the ring is the one behind, or the first.
LEMMA NextBufferValue ==
  ASSUME NEW b \in Slots
  PROVE  /\ NextBuffer(b) \in Slots
         /\ NextBuffer(b) = IF b = N - 1 THEN 0 ELSE b + 1
BY RxAssumption DEF NextBuffer, Slots

---------------------------------------------------------------------------
(* Type correctness, whatever fails.                                       *)

\* The fields of a control.
LEMMA ControlFields ==
  ASSUME NEW c \in Controls
  PROVE  /\ c.ch \in Chs /\ c.bw \in Bws /\ c.gain \in {d.gain : d \in Controls}
         /\ c \in [ch : Chs, bw : Bws, gain : {d.gain : d \in Controls}]
<1>1. c.ch \in Chs /\ c.bw \in Bws /\ c.gain \in {d.gain : d \in Controls}
  BY DEF Chs, Bws
<1>2. c = [ch |-> c.ch, bw |-> c.bw, gain |-> c.gain]
  BY RxAssumption
<1> QED BY <1>1, <1>2

\* The state in which both threads were just started.
LEMMA InitType == Init => TypeInv
<1> SUFFICES ASSUME Init
             PROVE  TypeInv
  OBVIOUS
<1>1. First \in Controls /\ FirstEnv \in Envs /\ 0 \in Slots
  BY RxAssumption DEF Slots
<1>2. freq \in Freqs
  BY <1>1, ControlFields DEF Init, Freqs
<1> QED BY <1>1, <1>2, ControlFields, RxAssumption DEF Init, TypeInv, TypeOK, HandsInv, JoinedInv

\* The synchronization thread.
LEMMA SyncType ==
  ASSUME TypeInv, SyncThread
  PROVE  TypeInv'
<1> USE DEF TypeInv, TypeOK, HandsInv, JoinedInv, mainVars, ueVars, decVars
<1>1. CASE Synchronize
  <2>1. n + 1 \in Ids /\ n' \in 0 .. MaxSub
    BY <1>1, RxAssumption DEF Synchronize, Ids
  <2>2. freq.ch \in Chs \cup {OffTarget.ch}
    BY DEF Freqs, OffTarget
  <2>3. hand' \in Entries
    BY <1>1, <2>1, <2>2 DEF Synchronize, Entries
  <2>4. cur' \in Slots /\ bufs' \in [Slots -> Ids \cup {0}]
    BY <1>1, <2>1, NextBufferValue DEF Synchronize
  <2> QED BY <1>1, <2>1, <2>3, <2>4 DEF Synchronize
<1>2. CASE Push
  BY <1>2, PushBackType DEF Push
<1>3. CASE SyncLeave
  BY <1>3 DEF SyncLeave
<1> QED BY <1>1, <1>2, <1>3 DEF SyncThread

\* The decoding thread.
LEMMA DecType ==
  ASSUME TypeInv, DecThread
  PROVE  TypeInv'
<1> USE DEF TypeInv, TypeOK, HandsInv, JoinedInv, mainVars, ueVars, syncVars
<1>1. cb # <<>> => Head(cb) \in Entries /\ Tail(cb) \in Seq(Entries) /\ Len(Tail(cb)) <= N
  BY HeadTailProperties, RxAssumption
<1>2. CASE PopNow
  BY <1>1, <1>2 DEF PopNow, Pop
<1>3. CASE Wake
  BY <1>1, <1>3 DEF Wake, Pop
<1>4. item \in Entries => item.id \in Ids
  BY DEF Entries
<1>5. CASE TestRun
  BY <1>4, <1>5 DEF TestRun
<1>6. CASE Decode
  BY <1>4, <1>6 DEF Decode
<1> QED BY <1>2, <1>3, <1>5, <1>6 DEF DecThread

\* The main thread between changes.
LEMMA MessageType ==
  ASSUME TypeInv, UpdateEnvironment \/ HandleControl \/ Exit
  PROVE  TypeInv'
<1> USE DEF TypeInv, TypeOK, HandsInv, JoinedInv, ueVars, threads, syncVars, decVars
<1>1. CASE UpdateEnvironment
  <2>1. {closing', failed', ready', runSync', runDec'} \subseteq BOOLEAN
    BY <1>1, Zenon DEF UpdateEnvironment
  <2> QED BY <1>1, <2>1, RxAssumption DEF UpdateEnvironment, Idle, Freqs
<1>2. CASE HandleControl
  <2>1. msgs' \in 0 .. MaxMsg
    BY <1>2, RxAssumption DEF HandleControl, Idle
  <2>2. PICK c \in Controls :
          /\ bc' = c
          /\ \/ /\ c.ch # last.ch \/ c.bw # last.bw
                /\ freq' = [env |-> env, bw |-> c.bw, ch |-> c.ch]
                /\ last' = [last EXCEPT !.ch = c.ch]
                /\ main' = IF c.bw # last.bw THEN "stopSync" ELSE "gain"
                /\ UNCHANGED failed
             \/ /\ c.ch # last.ch \/ c.bw # last.bw
                /\ "tune" \in Failures
                /\ freq' \in {freq, OffTarget} /\ failed' = TRUE
                /\ UNCHANGED <<last, main>>
             \/ /\ c.ch = last.ch /\ c.bw = last.bw
                /\ main' = "gain"
                /\ UNCHANGED <<freq, last, failed>>
    BY <1>2 DEF HandleControl
  <2>3. freq' \in Freqs \cup {OffTarget}
    BY <2>2, ControlFields DEF Freqs
  <2>4. last' \in [ch : Chs, bw : Bws, gain : {d.gain : d \in Controls}]
    BY <2>2, ControlFields
  <2> QED BY <1>2, <2>1, <2>2, <2>3, <2>4 DEF HandleControl
<1>3. CASE Exit
  BY <1>3 DEF Exit
<1> QED BY <1>1, <1>2, <1>3

\* The main thread during a change.
LEMMA ChangeType ==
  ASSUME TypeInv, Change
  PROVE  TypeInv'
<1> USE DEF TypeInv, TypeOK, HandsInv, JoinedInv, ueVars, threads, syncVars, decVars
<1>1. CASE StopSync
  BY <1>1 DEF StopSync
<1>2. CASE JoinSync
  BY <1>2 DEF JoinSync
<1>3. CASE StopDec
  BY <1>3 DEF StopDec
<1>4. CASE JoinDec
  BY <1>4 DEF JoinDec
<1>5. CASE JoinAgain
  BY <1>5 DEF JoinAgain
<1>6. CASE Rebuild
  <2>1. {closing', failed', ready', runSync', runDec'} \subseteq BOOLEAN
    BY <1>6, Zenon DEF Rebuild
  <2> QED BY <1>6, <2>1, ControlFields, RxAssumption DEF Rebuild, Slots
<1>7. CASE StartSync
  <2>1. {closing', failed', ready', runSync', runDec'} \subseteq BOOLEAN
    BY <1>7, Zenon DEF StartSync
  <2>2. /\ main' \in {"startDec", "idle"} /\ sync' \in {"loop", sync}
    BY <1>7 DEF StartSync
  <2> QED BY <1>7, <2>1, <2>2 DEF StartSync
<1>8. CASE StartDec
  <2>1. {closing', failed', ready', runSync', runDec'} \subseteq BOOLEAN
    BY <1>8, Zenon DEF StartDec
  <2>2. main' \in {"record", "idle"} /\ dec' \in {"check", dec}
    BY <1>8 DEF StartDec
  <2> QED BY <1>8, <2>1, <2>2 DEF StartDec
<1>9. CASE RecordBw
  BY <1>9, ControlFields DEF RecordBw
<1>10. CASE SetGain
  BY <1>10, ControlFields DEF SetGain
<1>11. CASE Free
  <2>1. {closing', failed', ready', runSync', runDec'} \subseteq BOOLEAN
    <3>1. ready' \in {FALSE, ready} /\ failed' \in {TRUE, failed}
      BY <1>11, Zenon DEF Free
    <3>2. UNCHANGED <<closing, runSync, runDec>>
      BY <1>11, Zenon DEF Free
    <3> QED BY <3>1, <3>2
  <2>2. cb' = <<>> \/ cb' = cb
    BY <1>11 DEF Free
  <2>3. main = "free" /\ main' = "ended"
    BY <1>11 DEF Free
  <2>4. UNCHANGED <<bc, msgs, last, env, bw, freq, gain, gen, syncVars, decVars>>
    BY <1>11 DEF Free
  <2>5. cb' \in Seq(Entries) /\ Len(cb') <= N
    <3>1. CASE cb' = <<>>
      <4>1. <<>> \in Seq(Entries) /\ Len(<<>>) = 0
        OBVIOUS
      <4> QED BY <3>1, <4>1, RxAssumption
    <3>2. CASE cb' = cb
      BY <3>2
    <3> QED BY <2>2, <3>1, <3>2
  <2>6. UNCHANGED <<runSync, runDec>>
    BY <1>11, Zenon DEF Free
  <2> QED BY <2>1, <2>3, <2>4, <2>5, <2>6
<1> QED BY <1>1, <1>2, <1>3, <1>4, <1>5, <1>6, <1>7, <1>8, <1>9, <1>10, <1>11 DEF Change

\* Every step keeps types, hands and the order of the joins.
LEMMA NextType == TypeInv /\ [Next]_vars => TypeInv'
<1> SUFFICES ASSUME TypeInv, [Next]_vars
             PROVE  TypeInv'
  OBVIOUS
<1>1. CASE UNCHANGED vars
  BY <1>1 DEF vars, mainVars, ueVars, syncVars, decVars, TypeInv, TypeOK, HandsInv, JoinedInv
<1> QED BY <1>1, SyncType, DecType, MessageType, ChangeType DEF Next

\* Every variable keeps its type, whatever fails: the container stays within its
\* capacity, and each thread pushes, decodes or loses an entry it really has.
LEMMA TypeInvariant == Spec => []TypeInv
BY InitType, NextType, PTL DEF Spec

\* Every variable keeps its type, whatever fails: the container stays within its
\* capacity, and each thread holds an entry only where its loop has one.
THEOREM TypeCorrect == Spec => []TypeOK
BY TypeInvariant, PTL DEF TypeInv

\* The structures and the container are freed and rebuilt only when both threads
\* were joined, also after a change that failed half way.
THEOREM JoinedSafe == Spec => []JoinedBeforeFreed
<1>1. TypeInv => JoinedBeforeFreed
  BY DEF TypeInv, JoinedInv, JoinedBeforeFreed
<1> QED BY <1>1, TypeInvariant, PTL

---------------------------------------------------------------------------
(* The radio between two messages.                                         *)

\* At the start the radio has what last_rx_basic_control was given.
LEMMA InitTuned == Init => TunedInv
BY DEF Init, TunedInv

\* The working threads do nothing TunedInv looks at.
LEMMA ThreadsTuned ==
  ASSUME TunedInv, SyncThread \/ DecThread
  PROVE  TunedInv'
<1>1. UNCHANGED <<mainVars, ueVars>>
  BY DEF SyncThread, Synchronize, Push, SyncLeave, DecThread, PopNow, Wake,
         TestRun, Decode
<1> QED BY <1>1 DEF TunedInv, mainVars, ueVars

\* The main thread changes the radio and its records one after the other.
LEMMA MainTuned ==
  ASSUME TypeInv, TunedInv, UpdateEnvironment \/ HandleControl \/ Exit \/ Change
  PROVE  TunedInv'
<1> USE DEF TunedInv, ueVars
<1>0. /\ last = [ch |-> last.ch, bw |-> last.bw, gain |-> last.gain]
      /\ DOMAIN last = {"ch", "bw", "gain"}
  BY DEF TypeInv, TypeOK
<1>1. CASE UpdateEnvironment
  BY <1>1 DEF UpdateEnvironment, Idle
<1>2. CASE HandleControl
  BY <1>0, <1>2 DEF HandleControl, Idle
<1>3. CASE Exit
  BY <1>3 DEF Exit
<1>4. CASE StopSync
  BY <1>4 DEF StopSync
<1>5. CASE JoinSync
  BY <1>5 DEF JoinSync
<1>6. CASE StopDec
  BY <1>6 DEF StopDec
<1>7. CASE JoinDec
  BY <1>7 DEF JoinDec
<1>8. CASE JoinAgain
  BY <1>8 DEF JoinAgain
<1>9. CASE Rebuild
  BY <1>9 DEF Rebuild
<1>10. CASE StartSync
  BY <1>10 DEF StartSync
<1>11. CASE StartDec
  BY <1>11 DEF StartDec
<1>12. CASE RecordBw
  BY <1>0, <1>12 DEF RecordBw
<1>13. CASE SetGain
  BY <1>0, <1>13 DEF SetGain
<1>14. CASE Free
  BY <1>14 DEF Free
<1> QED BY <1>1, <1>2, <1>3, <1>4, <1>5, <1>6, <1>7, <1>8, <1>9, <1>10, <1>11,
           <1>12, <1>13, <1>14 DEF Change

\* Between two messages the radio has what is recorded and the structures are
\* of that bandwidth, after any sequence of changes that did not fail.
THEOREM TunedBetweenMessages == Spec => []Tuned
<1>1. TypeInv /\ TunedInv /\ [Next]_vars => TunedInv'
  <2>1. TunedInv /\ UNCHANGED vars => TunedInv'
    BY DEF TunedInv, vars, mainVars, ueVars
  <2> QED BY <2>1, ThreadsTuned, MainTuned DEF Next
<1>2. TunedInv => Tuned
  BY DEF TunedInv, Tuned
<1> QED BY <1>1, <1>2, InitTuned, TypeInvariant, PTL DEF Spec

---------------------------------------------------------------------------
(* What the decoding thread gets.                                          *)

\* The container after push_back: the entry is the last one, and the others
\* are those before it, all of them or all but the oldest.
LEMMA PushBackEntries ==
  ASSUME NEW q \in Seq(Entries), NEW e \in Entries, Len(q) <= N
  PROVE  LET d == IF Len(q) < N THEN 0 ELSE 1
             p == PushBack(q, e)
         IN  /\ Len(p) = Len(q) + 1 - d
             /\ p[Len(p)] = e
             /\ \A k \in 1 .. Len(p) - 1 : k + d \in 1 .. Len(q) /\ p[k] = q[k + d]
<1>1. CASE Len(q) < N
  BY <1>1, RxAssumption DEF PushBack
<1>2. CASE Len(q) = N
  <2>1. q # <<>>
    BY <1>2, RxAssumption
  <2>2. /\ Tail(q) \in Seq(Entries) /\ Len(Tail(q)) = Len(q) - 1
        /\ \A k \in 1 .. Len(Tail(q)) : Tail(q)[k] = q[k + 1]
    BY <2>1, HeadTailProperties
  <2>3. PushBack(q, e) = Append(Tail(q), e)
    BY <1>2, RxAssumption DEF PushBack
  <2> QED BY <1>2, <2>2, <2>3, AppendProperties, RxAssumption
<1> QED BY <1>1, <1>2, RxAssumption

\* The number of an entry, or of none.
LEMMA EntryIds ==
  ASSUME TypeInv
  PROVE  /\ \A k \in DOMAIN cb : cb[k] \in Entries /\ cb[k].id \in Ids
         /\ DOMAIN cb = 1 .. Len(cb) /\ Len(cb) \in Nat
         /\ \A i \in DOMAIN decoded : decoded[i] \in Ids
         /\ DOMAIN decoded = 1 .. Len(decoded) /\ Len(decoded) \in Nat
         /\ n \in Nat /\ gen \in Nat /\ Ids \subseteq Nat \ {0}
         /\ sync = "push" => hand \in Entries /\ hand.id \in Ids
         /\ sync # "push" => hand = NoEntry /\ hand.id = 0
         /\ dec \in {"popped", "decode"} => item \in Entries /\ item.id \in Ids
         /\ dec \notin {"popped", "decode"} => item = NoEntry /\ item.id = 0
<1> USE DEF TypeInv, TypeOK, HandsInv
<1>1. \A e \in Entries : e.id \in Ids
  BY DEF Entries
<1>2. NoEntry.id = 0
  BY DEF NoEntry
<1>3. /\ DOMAIN cb = 1 .. Len(cb) /\ Len(cb) \in Nat
      /\ \A k \in DOMAIN cb : cb[k] \in Entries
  BY LenProperties, ElementOfSeq
<1>4. /\ DOMAIN decoded = 1 .. Len(decoded) /\ Len(decoded) \in Nat
      /\ \A k \in DOMAIN decoded : decoded[k] \in Ids
  BY LenProperties, ElementOfSeq
<1>5. n \in Nat /\ gen \in Nat /\ Ids \subseteq Nat \ {0}
  BY RxAssumption DEF Ids
<1> QED BY <1>1, <1>2, <1>3, <1>4, <1>5

\* At the start nothing was received.
LEMMA InitOrder == Init => OrderInv
BY DEF Init, OrderInv, NoEntry, Pushed

\* A subframe is numbered above all before it, and pushed on the newer end.
LEMMA SyncOrder ==
  ASSUME TypeInv, OrderInv, SyncThread
  PROVE  OrderInv'
<1>1. CASE Synchronize
  <2>1. /\ hand'.id = n + 1 /\ n' = n + 1 /\ sync' = "push" /\ sync = "loop"
        /\ Pushed' = Pushed
        /\ UNCHANGED <<cb, item, decoded>>
    BY <1>1, EntryIds DEF Synchronize, Pushed, decVars
  <2> QED BY <2>1 DEF OrderInv
<1>2. CASE Push
  <2>1. /\ Pushed = n - 1 /\ Pushed' = n /\ hand.id = n /\ hand \in Entries
        /\ cb' = PushBack(cb, hand) /\ sync' = "loop"
        /\ UNCHANGED <<n, item, decoded>>
    BY <1>2, EntryIds DEF Push, Pushed, decVars, OrderInv
  <2> DEFINE d == IF Len(cb) < N THEN 0 ELSE 1
  <2>2. /\ cb \in Seq(Entries) /\ Len(cb) <= N /\ d \in {0, 1}
        /\ cb' \in Seq(Entries)
    BY <2>1, PushBackType DEF TypeInv, TypeOK
  <2>3. /\ Len(cb') = Len(cb) + 1 - d /\ Len(cb') \in Nat
        /\ DOMAIN cb' = 1 .. Len(cb')
        /\ cb'[Len(cb')] = hand
        /\ \A k \in 1 .. Len(cb') - 1 :
             k + d \in 1 .. Len(cb) /\ cb'[k] = cb[k + d]
    BY <2>1, <2>2, PushBackEntries, LenProperties
  <2> HIDE DEF d
  <2>4. item.id \in Nat /\ item.id < hand.id
    BY <2>1, EntryIds DEF OrderInv
  <2>5. \A k \in 1 .. Len(cb) :
          /\ cb[k].id \in Nat /\ cb[k].id + Len(cb) - k <= n - 1 /\ item.id < cb[k].id
          /\ \A j \in 1 .. Len(cb) : j < k => cb[j].id < cb[k].id
          /\ \A i \in DOMAIN decoded : decoded[i] < cb[k].id
    BY <2>1, EntryIds DEF OrderInv
  <2>6. /\ n \in Nat /\ Len(cb) \in Nat
        /\ \A i \in DOMAIN decoded : decoded[i] \in Nat /\ decoded[i] < n
    BY <2>1, EntryIds DEF OrderInv
  <2>7. \A k \in DOMAIN cb' :
          \/ k = Len(cb') /\ cb'[k] = hand
          \/ k < Len(cb') /\ k + d \in 1 .. Len(cb) /\ cb'[k] = cb[k + d]
    BY <2>3
  <2>8. \A k \in DOMAIN cb' : /\ cb'[k].id + Len(cb') - k <= n
                              /\ item.id < cb'[k].id
                              /\ \A i \in DOMAIN decoded : decoded[i] < cb'[k].id
    <3> SUFFICES ASSUME NEW k \in DOMAIN cb'
                 PROVE  /\ cb'[k].id + Len(cb') - k <= n
                        /\ item.id < cb'[k].id
                        /\ \A i \in DOMAIN decoded : decoded[i] < cb'[k].id
      OBVIOUS
    <3>1. CASE k = Len(cb')
      BY <2>1, <2>3, <2>4, <2>6, <3>1
    <3>2. CASE k # Len(cb')
      <4>1. k + d \in 1 .. Len(cb) /\ cb'[k] = cb[k + d] /\ k \in Nat
        BY <2>7, <2>3, <3>2
      <4>2. /\ cb[k + d].id \in Nat /\ cb[k + d].id + Len(cb) - (k + d) <= n - 1
            /\ item.id < cb[k + d].id
            /\ \A i \in DOMAIN decoded : decoded[i] < cb[k + d].id
        BY <2>5, <4>1
      <4> QED BY <2>2, <2>3, <2>6, <4>1, <4>2
    <3> QED BY <3>1, <3>2
  <2>9. \A j, k \in DOMAIN cb' : j < k => cb'[j].id < cb'[k].id
    <3> SUFFICES ASSUME NEW j \in DOMAIN cb', NEW k \in DOMAIN cb', j < k
                 PROVE  cb'[j].id < cb'[k].id
      OBVIOUS
    <3>1. j + d \in 1 .. Len(cb) /\ cb'[j] = cb[j + d] /\ j \in Nat
      BY <2>2, <2>7, <2>3
    <3>2. cb[j + d].id \in Nat /\ cb[j + d].id + Len(cb) - (j + d) <= n - 1
      BY <2>5, <3>1
    <3>3. CASE k = Len(cb')
      <4>1. cb[j + d].id < n
        BY <2>2, <2>6, <3>1, <3>2
      <4> QED BY <2>1, <2>3, <3>1, <3>3, <4>1
    <3>4. CASE k # Len(cb')
      <4>1. k + d \in 1 .. Len(cb) /\ cb'[k] = cb[k + d] /\ j + d < k + d
        BY <2>7, <2>2, <2>3, <3>4
      <4> QED BY <2>5, <3>1, <4>1
    <3> QED BY <3>3, <3>4
  <2>10. item.id <= n /\ \A i \in DOMAIN decoded : decoded[i] <= n
    BY <2>1, EntryIds DEF OrderInv
  <2> QED BY <2>1, <2>8, <2>9, <2>10 DEF OrderInv
<1>3. CASE SyncLeave
  <2>1. sync' # "push" /\ Pushed' = Pushed /\ UNCHANGED <<cb, item, decoded>>
    BY <1>3 DEF SyncLeave, Pushed, decVars
  <2> QED BY <2>1 DEF OrderInv
<1> QED BY <1>1, <1>2, <1>3 DEF SyncThread

\* A pop takes the oldest entry of the container.
LEMMA PopOrder ==
  ASSUME TypeInv, OrderInv, Pop, cb # <<>>, item = NoEntry,
         UNCHANGED <<syncVars, decoded>>
  PROVE  OrderInv'
<1>1. /\ item' = cb[1] /\ cb' = Tail(cb) /\ cb' \in Seq(Entries)
      /\ Len(cb') = Len(cb) - 1 /\ Len(cb) > 0
      /\ \A k \in 1 .. Len(cb') : cb'[k] = cb[k + 1]
  BY HeadTailProperties DEF Pop, TypeInv, TypeOK
<1>2. /\ DOMAIN cb' = 1 .. Len(cb') /\ Pushed' = Pushed /\ UNCHANGED <<sync, hand, n>>
      /\ Pushed \in Int
  BY <1>1, LenProperties, EntryIds DEF Pushed, syncVars
<1>3. item'.id <= Pushed
  BY <1>1, EntryIds, <1>2 DEF OrderInv
<1>4. \A k \in DOMAIN cb' : /\ cb'[k].id + Len(cb') - k <= Pushed
                            /\ item'.id < cb'[k].id
  <2> SUFFICES ASSUME NEW k \in DOMAIN cb'
               PROVE  cb'[k].id + Len(cb') - k <= Pushed /\ item'.id < cb'[k].id
    OBVIOUS
  <2>1. k + 1 \in DOMAIN cb /\ 1 \in DOMAIN cb /\ k + 1 > 1 /\ cb'[k] = cb[k + 1]
    BY <1>1, <1>2, EntryIds
  <2>2. /\ cb[k + 1].id + Len(cb) - (k + 1) <= Pushed /\ cb[1].id < cb[k + 1].id
        /\ cb[k + 1].id \in Nat
    BY <2>1, EntryIds DEF OrderInv
  <2> QED BY <1>1, <1>2, <2>1, <2>2, EntryIds
<1>5. \A j, k \in DOMAIN cb' : j < k => cb'[j].id < cb'[k].id
  <2> SUFFICES ASSUME NEW j \in DOMAIN cb', NEW k \in DOMAIN cb', j < k
               PROVE  cb'[j].id < cb'[k].id
    OBVIOUS
  <2>1. /\ j + 1 \in DOMAIN cb /\ k + 1 \in DOMAIN cb /\ j + 1 < k + 1
        /\ cb'[j] = cb[j + 1] /\ cb'[k] = cb[k + 1]
    BY <1>1, <1>2, EntryIds
  <2> QED BY <2>1 DEF OrderInv
<1>6. \A i \in DOMAIN decoded : /\ decoded[i] < item'.id
                                /\ \A k \in DOMAIN cb' : decoded[i] < cb'[k].id
  BY <1>1, <1>2, EntryIds DEF OrderInv
<1> QED BY <1>2, <1>3, <1>4, <1>5, <1>6 DEF OrderInv

\* The decoding thread decodes what it popped, or loses it when told to stop.
LEMMA DecOrder ==
  ASSUME TypeInv, OrderInv, DecThread
  PROVE  OrderInv'
<1>1. CASE dec \in {"check", "wait"} /\ Pop /\ cb # <<>> /\ UNCHANGED <<syncVars, decoded>>
  BY <1>1, PopOrder, EntryIds
<1>2. CASE UNCHANGED <<syncVars, item, cb, decoded>>
  BY <1>2 DEF OrderInv, syncVars, Pushed
<1>3. CASE TestRun /\ ~runDec
  <2>1. item'.id = 0 /\ item' = NoEntry /\ UNCHANGED <<sync, n, hand, cb, decoded>>
    BY <1>3 DEF TestRun, syncVars, NoEntry
  <2>2. Pushed' = Pushed /\ 0 <= Pushed
    BY <2>1, EntryIds DEF Pushed, OrderInv
  <2> QED BY <2>1, <2>2, EntryIds DEF OrderInv
<1>4. CASE Decode
  <2>1. /\ item'.id = 0 /\ item' = NoEntry /\ UNCHANGED <<sync, n, hand, cb>>
        /\ decoded' = Append(decoded, item.id) /\ item \in Entries /\ item.id \in Ids
    BY <1>4, EntryIds DEF Decode, syncVars, NoEntry
  <2>2. Pushed' = Pushed /\ 0 <= Pushed /\ Pushed \in Int
    BY <2>1, EntryIds DEF Pushed, OrderInv
  <2>3. /\ DOMAIN decoded' = 1 .. Len(decoded) + 1
        /\ \A i \in 1 .. Len(decoded) : decoded'[i] = decoded[i]
        /\ decoded'[Len(decoded) + 1] = item.id
    BY <2>1, AppendProperties, LenProperties DEF TypeInv, TypeOK
  <2>4. item # NoEntry
    BY <2>1, EntryIds DEF NoEntry
  <2>5. \A i \in DOMAIN decoded : decoded[i] < item.id
    BY <2>4 DEF OrderInv
  <2>6. \A i, j \in DOMAIN decoded' : i < j => decoded'[i] < decoded'[j]
    BY <2>3, <2>5, EntryIds DEF OrderInv
  <2>7. \A i \in DOMAIN decoded' : /\ decoded'[i] <= Pushed
                                   /\ \A k \in DOMAIN cb : decoded'[i] < cb[k].id
    BY <2>3, EntryIds DEF OrderInv
  <2> QED BY <2>1, <2>2, <2>6, <2>7, EntryIds DEF OrderInv
<1> QED BY <1>1, <1>2, <1>3, <1>4
        DEF DecThread, PopNow, Wake, TestRun, Pop

\* A change of parameters moves no entry.
LEMMA MainOrder ==
  ASSUME TypeInv, OrderInv, UpdateEnvironment \/ HandleControl \/ Exit \/ Change
  PROVE  OrderInv'
<1>1. CASE UNCHANGED <<n, hand, cb, item, decoded>> /\ sync # "push" /\ sync' # "push"
  BY <1>1 DEF OrderInv, Pushed
<1>2. CASE UNCHANGED <<n, hand, cb, item, decoded, sync>>
  BY <1>2 DEF OrderInv, Pushed
<1>3. CASE Free
  <2>1. CASE cb' = <<>>
    <3>1. UNCHANGED <<n, hand, item, decoded, sync>> /\ DOMAIN cb' = {}
      BY <1>3, <2>1 DEF Free, syncVars, decVars
    <3> QED BY <3>1 DEF OrderInv, Pushed
  <2>2. CASE UNCHANGED cb
    BY <1>2, <1>3, <2>2 DEF Free, syncVars, decVars
  <2> QED BY <1>3, <2>1, <2>2 DEF Free
<1>4. CASE StartSync \/ JoinSync
  BY <1>1, <1>4 DEF StartSync, JoinSync, TypeInv, JoinedInv, decVars
<1>5. CASE UpdateEnvironment \/ HandleControl \/ Exit
  BY <1>2, <1>5 DEF UpdateEnvironment, HandleControl, Exit, threads, syncVars, decVars
<1>6. CASE StopSync \/ StopDec \/ JoinDec \/ JoinAgain \/ Rebuild \/ StartDec
             \/ RecordBw \/ SetGain
  BY <1>2, <1>6 DEF StopSync, StopDec, JoinDec, JoinAgain, Rebuild, StartDec, RecordBw,
     SetGain, threads, syncVars, decVars
<1> QED BY <1>3, <1>4, <1>5, <1>6 DEF Change

\* The numbers rise from what was decoded to what is pushed.
LEMMA OrderInvariant == Spec => []OrderInv
<1>1. TypeInv /\ OrderInv /\ [Next]_vars => OrderInv'
  <2>1. OrderInv /\ UNCHANGED vars => OrderInv'
    BY DEF OrderInv, Pushed, vars, syncVars, decVars
  <2> QED BY <2>1, SyncOrder, DecOrder, MainOrder DEF Next
<1> QED BY <1>1, InitOrder, TypeInvariant, PTL DEF Spec

\* At the start there is nothing to keep.
LEMMA InitKept == Init => KeptInv
BY DEF Init, KeptInv

\* A step that takes no subframe away and adds none.
LEMMA KeptStep ==
  ASSUME KeptInv, main' # "ended" => main # "ended", n' = n, Kept \subseteq Kept'
  PROVE  KeptInv'
BY DEF KeptInv

\* Only a push on a full container loses a subframe: the one N before.
LEMMA SyncKept ==
  ASSUME TypeInv, OrderInv, KeptInv, SyncThread
  PROVE  KeptInv'
<1>0. main' = main
  BY DEF SyncThread, Synchronize, Push, SyncLeave, mainVars
<1>1. CASE Synchronize
  <2>1. /\ n' = n + 1 /\ hand'.id = n + 1 /\ hand.id = 0 /\ n \in Nat
        /\ UNCHANGED <<cb, item, decoded, dropped>>
    BY <1>1, EntryIds DEF Synchronize, decVars
  <2>2. Kept \cup {n + 1} \subseteq Kept'
    BY <2>1 DEF Kept, Queued, InHand
  <2> QED BY <1>0, <2>1, <2>2, RxAssumption DEF KeptInv
<1>2. CASE Push
  <2>1. /\ n' = n /\ hand \in Entries /\ hand.id = n /\ n \in Nat /\ n # 0
        /\ cb' = PushBack(cb, hand) /\ sync = "push"
        /\ UNCHANGED <<item, decoded, dropped>>
    BY <1>2, EntryIds DEF Push, decVars, OrderInv
  <2> DEFINE d == IF Len(cb) < N THEN 0 ELSE 1
  <2>2. /\ cb \in Seq(Entries) /\ Len(cb) <= N /\ Len(cb) \in Nat
        /\ DOMAIN cb = 1 .. Len(cb)
        /\ cb' \in Seq(Entries) /\ DOMAIN cb' = 1 .. Len(cb')
        /\ d = 1 => Len(cb) = N
        /\ d \in {0, 1}
    BY <2>1, PushBackType, EntryIds, LenProperties, RxAssumption DEF TypeInv, TypeOK
  <2>3. /\ Len(cb') = Len(cb) + 1 - d /\ Len(cb') \in Nat
        /\ cb'[Len(cb')] = hand
        /\ \A k \in 1 .. Len(cb') - 1 : cb'[k] = cb[k + d]
    BY <2>1, <2>2, PushBackEntries, LenProperties
  <2> HIDE DEF d
  <2>4. n \in Queued'
    <3>1. Len(cb') \in DOMAIN cb'
      BY <2>2, <2>3, RxAssumption
    <3> QED BY <2>1, <2>3, <3>1 DEF Queued
  <2>5. \A k \in DOMAIN cb : cb[k].id \in Queued' \/ n >= cb[k].id + N
    <3> SUFFICES ASSUME NEW k \in DOMAIN cb
                 PROVE  cb[k].id \in Queued' \/ n >= cb[k].id + N
      OBVIOUS
    <3>1. CASE k - d \in 1 .. Len(cb') - 1
      <4>1. cb'[k - d] = cb[k] /\ k - d \in DOMAIN cb'
        BY <2>2, <2>3, <3>1
      <4> QED BY <4>1 DEF Queued
    <3>2. CASE k - d \notin 1 .. Len(cb') - 1
      <4>1. k = 1 /\ Len(cb) = N
        BY <2>2, <2>3, <3>2
      <4>2. cb[1].id + Len(cb) - 1 <= n - 1 /\ cb[1].id \in Nat
        BY <2>1, <4>1, EntryIds DEF OrderInv, Pushed
      <4> QED BY <2>1, <4>1, <4>2, RxAssumption
    <3> QED BY <3>1, <3>2
  <2>6. \A id \in Kept : id \in Kept' \/ n >= id + N
    BY <2>1, <2>4, <2>5 DEF Kept, Queued, InHand
  <2> QED BY <1>0, <2>1, <2>6 DEF KeptInv
<1>3. CASE SyncLeave
  <2>1. n' = n /\ Kept' = Kept
    BY <1>3 DEF SyncLeave, Kept, Queued, InHand, decVars
  <2> QED BY <1>0, <2>1, KeptStep
<1> QED BY <1>1, <1>2, <1>3 DEF SyncThread

\* A popped subframe is in the hand of the decoding thread.
LEMMA PopKept ==
  ASSUME TypeInv, Pop, cb # <<>>, item = NoEntry,
         UNCHANGED <<hand, decoded, dropped>>
  PROVE  Kept \subseteq Kept'
<1>1. /\ item' = cb[1] /\ Len(cb') = Len(cb) - 1 /\ Len(cb) > 0
      /\ \A k \in 1 .. Len(cb') : cb'[k] = cb[k + 1]
      /\ DOMAIN cb' = 1 .. Len(cb')
  BY HeadTailProperties, LenProperties DEF Pop, TypeInv, TypeOK
<1>2. \A k \in DOMAIN cb : cb[k].id \in Queued' \cup InHand'
  <2> SUFFICES ASSUME NEW k \in DOMAIN cb
               PROVE  cb[k].id \in Queued' \cup InHand'
    OBVIOUS
  <2>1. k \in 1 .. Len(cb) /\ cb[k].id # 0 /\ Len(cb) \in Nat
    BY EntryIds
  <2>2. CASE k = 1
    BY <1>1, <2>1, <2>2 DEF InHand
  <2>3. CASE k # 1
    <3>1. k - 1 \in DOMAIN cb' /\ cb'[k - 1] = cb[k]
      BY <1>1, <2>1, <2>3
    <3> QED BY <3>1 DEF Queued
  <2> QED BY <2>2, <2>3
<1>3. item.id = 0
  BY DEF NoEntry
<1>4. InHand \subseteq InHand'
  BY <1>3 DEF InHand
<1> QED BY <1>2, <1>4 DEF Kept, Queued

\* That thread decodes it, or counts it as dropped.
LEMMA DecKept ==
  ASSUME TypeInv, KeptInv, DecThread
  PROVE  KeptInv'
<1>0. main' = main /\ n' = n
  BY DEF DecThread, PopNow, Wake, TestRun, Decode, mainVars, syncVars
<1>1. CASE dec \in {"check", "wait"} /\ Pop /\ cb # <<>>
             /\ UNCHANGED <<hand, decoded, dropped>>
  BY <1>0, <1>1, PopKept, KeptStep, EntryIds
<1>2. CASE UNCHANGED <<hand, item, cb, decoded, dropped>>
  <2>1. Queued' = Queued /\ InHand' = InHand
    BY <1>2 DEF Queued, InHand
  <2>2. Kept' = Kept
    BY <1>2, <2>1 DEF Kept
  <2> QED BY <1>0, <2>2, KeptStep
<1>3. CASE TestRun /\ ~runDec
  <2>1. dropped' = dropped \cup {item.id} /\ UNCHANGED <<hand, cb, decoded>>
    BY <1>3 DEF TestRun, syncVars
  <2>2. Queued' = Queued /\ InHand \subseteq InHand' \cup dropped'
    BY <2>1 DEF Queued, InHand
  <2>3. Kept \subseteq Kept'
    BY <2>1, <2>2 DEF Kept
  <2> QED BY <1>0, <2>3, KeptStep
<1>4. CASE Decode
  <2>1. /\ decoded' = Append(decoded, item.id) /\ item.id \in Ids
        /\ UNCHANGED <<hand, cb, dropped>>
    BY <1>4, EntryIds DEF Decode, syncVars
  <2>2. /\ DOMAIN decoded' = 1 .. Len(decoded) + 1 /\ Len(decoded) \in Nat
        /\ \A i \in 1 .. Len(decoded) : decoded'[i] = decoded[i]
        /\ decoded'[Len(decoded) + 1] = item.id
        /\ DOMAIN decoded = 1 .. Len(decoded)
    BY <2>1, AppendProperties, LenProperties DEF TypeInv, TypeOK
  <2>3. /\ \A i \in DOMAIN decoded : i \in DOMAIN decoded' /\ decoded'[i] = decoded[i]
        /\ Len(decoded) + 1 \in DOMAIN decoded'
    BY <2>2
  <2>4. Kept \subseteq Kept'
    BY <2>1, <2>2, <2>3 DEF Kept, Queued, InHand
  <2> QED BY <1>0, <2>4, KeptStep
<1> QED BY <1>1, <1>2, <1>3, <1>4
        DEF DecThread, PopNow, Wake, TestRun, Pop, syncVars

\* The main thread takes no subframe away, except when all ends.
LEMMA MainKept ==
  ASSUME KeptInv, UpdateEnvironment \/ HandleControl \/ Exit \/ Change
  PROVE  KeptInv'
<1>1. CASE Free
  BY <1>1 DEF Free, KeptInv
<1>2. CASE UNCHANGED <<n, hand, item, cb, decoded, dropped>> /\ main # "ended"
  <2>1. Kept' = Kept
    BY <1>2 DEF Kept, Queued, InHand
  <2> QED BY <1>2, <2>1, KeptStep
<1>3. CASE UpdateEnvironment \/ HandleControl \/ Exit
  BY <1>2, <1>3 DEF UpdateEnvironment, HandleControl, Exit, Idle, threads, syncVars, decVars
<1>4. CASE StopSync \/ StopDec \/ JoinSync \/ JoinDec \/ JoinAgain \/ Rebuild
             \/ StartSync \/ StartDec \/ RecordBw \/ SetGain
  BY <1>2, <1>4 DEF StopSync, StopDec, JoinSync, JoinDec, JoinAgain, Rebuild, StartSync,
     StartDec, RecordBw, SetGain, threads, syncVars, decVars
<1> QED BY <1>1, <1>3, <1>4 DEF Change

\* A subframe is somewhere unless N younger ones came.
LEMMA KeptInvariant == Spec => []KeptInv
<1>1. TypeInv /\ OrderInv /\ KeptInv /\ [Next]_vars => KeptInv'
  <2>1. KeptInv /\ UNCHANGED vars => KeptInv'
    BY DEF KeptInv, Kept, Queued, InHand, vars, mainVars, syncVars, decVars
  <2> QED BY <2>1, SyncKept, DecKept, MainKept DEF Next
<1> QED BY <1>1, InitKept, TypeInvariant, OrderInvariant, PTL DEF Spec

\* At the start no subframe was dropped.
LEMMA InitDropped == Init => DroppedInv
BY FS_EmptySet, RxAssumption DEF Init, DroppedInv

\* A stop of the decoding thread drops at most the one entry it had popped.
LEMMA NextDropped == TypeInv /\ DroppedInv /\ [Next]_vars => DroppedInv'
<1> SUFFICES ASSUME TypeInv, DroppedInv, [Next]_vars
             PROVE  DroppedInv'
  OBVIOUS
<1>0. gen \in Nat /\ Cardinality(dropped) \in Nat
  BY FS_CardinalityType, EntryIds DEF DroppedInv
<1>1. CASE TestRun /\ ~runDec
  <2>1. /\ dropped' = dropped \cup {item.id} /\ gen' = gen
        /\ dec = "popped" /\ dec' = "left" /\ main' = main
    BY <1>1 DEF TestRun, ueVars, mainVars
  <2>2. IsFiniteSet(dropped') /\ Cardinality(dropped') <= Cardinality(dropped) + 1
    BY <1>0, <2>1, FS_AddElement DEF DroppedInv
  <2>3. Cardinality(dropped) <= gen - 1 /\ Cardinality(dropped') \in Nat
    BY <2>1, <2>2, FS_CardinalityType DEF DroppedInv
  <2>4. main \notin {"startSync", "startDec"}
    BY <2>1 DEF TypeInv, JoinedInv
  <2> QED BY <1>0, <2>1, <2>2, <2>3, <2>4 DEF DroppedInv
<1>2. CASE Rebuild
  BY <1>0, <1>2 DEF Rebuild, DroppedInv, decVars, TypeInv, JoinedInv
<1>3. CASE UNCHANGED <<dropped, gen>>
             /\ (dec' \notin {"left", "off"} \/ main' \in {"startSync", "startDec"} =>
                 dec \notin {"left", "off"} \/ main \in {"startSync", "startDec"})
  BY <1>3 DEF DroppedInv
<1>4. CASE SyncThread \/ (DecThread /\ ~(TestRun /\ ~runDec))
  BY <1>3, <1>4 DEF SyncThread, Synchronize, Push, SyncLeave, DecThread, PopNow, Wake, Pop,
     TestRun, Decode, mainVars, ueVars, decVars
<1>5. CASE UpdateEnvironment \/ HandleControl \/ Exit
  BY <1>3, <1>5 DEF UpdateEnvironment, HandleControl, Exit, Idle, threads, ueVars, decVars
<1>6. CASE StopSync \/ StopDec \/ JoinSync \/ JoinDec \/ JoinAgain
             \/ StartSync \/ StartDec \/ RecordBw \/ SetGain \/ Free
  BY <1>3, <1>6 DEF StopSync, StopDec, JoinSync, JoinDec, JoinAgain, StartSync,
     StartDec, RecordBw, SetGain, Free, threads, ueVars, decVars
<1>7. CASE UNCHANGED vars
  BY <1>3, <1>7 DEF vars, mainVars, ueVars, decVars
<1> QED BY <1>1, <1>2, <1>4, <1>5, <1>6, <1>7 DEF Next, Change

\* What waits and what was decoded is in the order of the air, each subframe once;
\* a subframe is lost only to N younger ones or, one per stop of the decoding
\* thread, to the stop.
THEOREM Delivered == Spec => []Delivery
<1>1. Spec => []DroppedInv
  BY InitDropped, NextDropped, TypeInvariant, PTL DEF Spec
<1>2. TypeInv /\ OrderInv => InOrder
  <2> SUFFICES ASSUME TypeInv, OrderInv
               PROVE  InOrder
    OBVIOUS
  <2>1. \A i \in DOMAIN decoded, id \in Queued : decoded[i] < id
    BY DEF OrderInv, Queued
  <2>2. \A i \in DOMAIN decoded, id \in InHand : decoded[i] < id
    <3> SUFFICES ASSUME NEW i \in DOMAIN decoded, NEW id \in InHand
                 PROVE  decoded[i] < id
      OBVIOUS
    <3>1. decoded[i] <= Pushed /\ decoded[i] \in Nat /\ n \in Nat
      BY EntryIds DEF OrderInv
    <3>2. CASE id = hand.id
      <4>1. sync = "push" /\ id = n
        BY <3>2, EntryIds DEF InHand, OrderInv
      <4> QED BY <3>1, <4>1 DEF Pushed
    <3>3. CASE id = item.id
      <4>1. item # NoEntry
        BY <3>3 DEF InHand, NoEntry
      <4> QED BY <3>3, <4>1 DEF OrderInv
    <3> QED BY <3>2, <3>3 DEF InHand
  <2> QED BY <2>1, <2>2 DEF OrderInv, InOrder
<1>3. KeptInv /\ DroppedInv => NothingVanishes
  BY DEF KeptInv, DroppedInv, NothingVanishes, Kept
<1> QED BY <1>1, <1>2, <1>3, TypeInvariant, OrderInvariant, KeptInvariant, PTL DEF Delivery

---------------------------------------------------------------------------
(* The buffer of an entry.                                                 *)

\* When the next subframe is synchronized, the current buffer is the oldest and
\* the next one the second oldest; every other one grows older by one.
LEMMA AgeStep ==
  ASSUME cur \in Slots, cur' = NextBuffer(cur), NEW s \in Slots
  PROVE  /\ s = cur => Age(cur, s) = N - 1 /\ Age(cur', s) = 0
         /\ s = NextBuffer(cur) => Age(cur, s) = N - 2
         /\ s # cur => Age(cur', s) = Age(cur, s) + 1
         /\ NextBuffer(cur) # cur
<1>1. /\ N \in Nat /\ N > 1 /\ cur \in 0 .. N - 1 /\ s \in 0 .. N - 1
      /\ NextBuffer(cur) = IF cur = N - 1 THEN 0 ELSE cur + 1
  BY NextBufferValue, RxAssumption DEF Slots
<1>2. CASE cur = N - 1
  BY <1>1, <1>2 DEF Age
<1>3. CASE cur # N - 1
  BY <1>1, <1>3 DEF Age
<1> QED BY <1>2, <1>3

\* An entry that is not taken by the ring in this step.
LEMMA EntryStep ==
  ASSUME TypeInv, Synchronize, NEW e \in Entries, EntryOK(e, gen, n, cur, bufs)
  PROVE  EntryOK(e, gen', n', cur', bufs')
<1>1. /\ n' = n + 1 /\ gen' = gen /\ n \in Nat /\ gen \in Nat /\ e.id \in Nat
      /\ cur' = NextBuffer(cur) /\ cur \in Slots /\ e.buf \in Slots /\ e.gen \in Nat
      /\ bufs' = [bufs EXCEPT ![cur] = n + 1, ![NextBuffer(cur)] = 0]
      /\ bufs \in [Slots -> Ids \cup {0}]
  BY EntryIds DEF Synchronize, TypeInv, TypeOK, Entries, ueVars
<1>2. e.gen <= gen
  BY DEF EntryOK
<1>3. ASSUME e.gen = gen, n + 1 < e.id + N - 1
      PROVE  Age(cur', e.buf) = n + 1 - e.id /\ bufs'[e.buf] = e.id
  <2>1. Age(cur, e.buf) = n - e.id /\ bufs[e.buf] = e.id
    BY <1>1, <1>3, RxAssumption DEF EntryOK
  <2>2. e.buf # cur /\ e.buf # NextBuffer(cur)
    <3>1. Age(cur, e.buf) < N - 2 /\ N \in Nat
      BY <1>1, <1>3, <2>1, RxAssumption
    <3>2. /\ e.buf = cur => Age(cur, e.buf) = N - 1
          /\ e.buf = NextBuffer(cur) => Age(cur, e.buf) = N - 2
      BY <1>1, AgeStep
    <3> QED BY <3>1, <3>2
  <2>3. Age(cur', e.buf) = Age(cur, e.buf) + 1
    BY <1>1, <2>2, AgeStep
  <2>4. bufs'[e.buf] = bufs[e.buf]
    BY <1>1, <2>2, NextBufferValue
  <2> QED BY <1>1, <2>1, <2>3, <2>4
<1> QED BY <1>1, <1>2, <1>3 DEF EntryOK

\* The entry of the new subframe.
LEMMA EntryNew ==
  ASSUME TypeInv, Synchronize
  PROVE  EntryOK(hand', gen', n', cur', bufs')
<1>1. /\ n' = n + 1 /\ gen' = gen /\ n \in Nat /\ gen \in Nat
      /\ cur' = NextBuffer(cur) /\ cur \in Slots
      /\ bufs' = [bufs EXCEPT ![cur] = n + 1, ![NextBuffer(cur)] = 0]
      /\ bufs \in [Slots -> Ids \cup {0}]
      /\ hand'.id = n + 1 /\ hand'.buf = cur /\ hand'.gen = gen
  BY EntryIds DEF Synchronize, TypeInv, TypeOK, ueVars
<1>2. Age(cur', hand'.buf) = 0
  BY <1>1, AgeStep DEF Age
<1>3. bufs'[cur] = n + 1
  BY <1>1, AgeStep, NextBufferValue
<1> QED BY <1>1, <1>2, <1>3 DEF EntryOK

\* At the start no entry points into the ring.
LEMMA InitRing == Init => RingInv
BY DEF Init, RingInv

\* Synchronizing a subframe overwrites the oldest buffer of the ring and ages the
\* others by one.
LEMMA SyncRing ==
  ASSUME TypeInv, RingInv, SyncThread
  PROVE  RingInv'
<1>1. CASE Synchronize
  <2>1. sync' = "push" /\ sync = "loop" /\ UNCHANGED <<cb, dec, item>>
    BY <1>1 DEF Synchronize, decVars
  <2>2. dec \in {"popped", "decode"} => EntryOK(item, gen', n', cur', bufs')
    BY <1>1, EntryIds, EntryStep DEF RingInv
  <2>3. \A k \in DOMAIN cb : EntryOK(cb[k], gen', n', cur', bufs')
    BY <1>1, EntryIds, EntryStep DEF RingInv
  <2> QED BY <1>1, <2>1, <2>2, <2>3, EntryNew DEF RingInv
<1>2. CASE Push
  <2>1. /\ hand \in Entries /\ EntryOK(hand, gen, n, cur, bufs)
        /\ cb' = PushBack(cb, hand) /\ sync' = "loop"
        /\ UNCHANGED <<gen, n, cur, bufs, dec, item>>
    BY <1>2, EntryIds DEF Push, decVars, ueVars, RingInv
  <2>2. cb \in Seq(Entries) /\ Len(cb) <= N /\ cb' \in Seq(Entries)
        /\ DOMAIN cb' = 1 .. Len(cb') /\ DOMAIN cb = 1 .. Len(cb)
        /\ Len(cb') \in Nat
    BY <2>1, PushBackType, EntryIds, LenProperties DEF TypeInv, TypeOK
  <2>3. \A k \in DOMAIN cb' : \/ cb'[k] = hand
                              \/ \E j \in DOMAIN cb : cb'[k] = cb[j]
    <3> DEFINE d == IF Len(cb) < N THEN 0 ELSE 1
    <3>1. /\ cb'[Len(cb')] = hand
          /\ \A k \in 1 .. Len(cb') - 1 : k + d \in 1 .. Len(cb) /\ cb'[k] = cb[k + d]
      BY <2>1, <2>2, PushBackEntries
    <3> HIDE DEF d
    <3> QED BY <2>2, <3>1
  <2>4. \A k \in DOMAIN cb' : EntryOK(cb'[k], gen, n, cur, bufs)
    BY <2>1, <2>3 DEF RingInv
  <2> QED BY <2>1, <2>4 DEF RingInv
<1>3. CASE SyncLeave
  BY <1>3 DEF SyncLeave, RingInv, ueVars, decVars
<1> QED BY <1>1, <1>2, <1>3 DEF SyncThread

\* The decoding thread writes no buffer.
LEMMA DecRing ==
  ASSUME TypeInv, RingInv, DecThread
  PROVE  RingInv'
<1>1. UNCHANGED <<gen, n, cur, bufs, sync, hand>>
  BY DEF DecThread, PopNow, Wake, TestRun, Decode, ueVars, syncVars
<1>2. CASE Pop /\ cb # <<>>
  <2>1. /\ item' = cb[1] /\ Len(cb') = Len(cb) - 1 /\ Len(cb) > 0
        /\ \A k \in 1 .. Len(cb') : cb'[k] = cb[k + 1]
        /\ DOMAIN cb' = 1 .. Len(cb')
    BY <1>2, HeadTailProperties, LenProperties DEF Pop, TypeInv, TypeOK
  <2>2. 1 \in DOMAIN cb /\ \A k \in DOMAIN cb' : k + 1 \in DOMAIN cb
    BY <2>1, EntryIds
  <2> QED BY <1>1, <2>1, <2>2 DEF RingInv
<1>3. CASE UNCHANGED cb /\ (dec' \in {"popped", "decode"} =>
                              dec \in {"popped", "decode"} /\ item' = item)
  BY <1>1, <1>3 DEF RingInv
<1> QED BY <1>2, <1>3 DEF DecThread, PopNow, Wake, Pop, TestRun, Decode

\* Rebuilding the structures begins a new generation of buffers.
LEMMA MainRing ==
  ASSUME TypeInv, RingInv, UpdateEnvironment \/ HandleControl \/ Exit \/ Change
  PROVE  RingInv'
<1>1. CASE /\ UNCHANGED <<gen, n, cur, bufs, hand, item, cb>>
           /\ sync' = "push" => sync = "push"
           /\ dec' \in {"popped", "decode"} => dec \in {"popped", "decode"}
  BY <1>1 DEF RingInv
<1>2. CASE Free
  <2>1. UNCHANGED <<gen, n, cur, bufs, hand, item, sync, dec>>
    BY <1>2 DEF Free, syncVars, decVars
  <2>2. CASE cb' = <<>>
    <3>1. DOMAIN cb' = {}
      BY <2>2
    <3> QED BY <2>1, <3>1 DEF RingInv
  <2>3. CASE UNCHANGED cb
    BY <1>1, <2>1, <2>3
  <2> QED BY <1>2, <2>2, <2>3 DEF Free
<1>3. CASE Rebuild /\ gen' = gen + 1
  <2>1. UNCHANGED <<hand, item, cb, sync, dec>> /\ gen \in Nat
    BY <1>3, EntryIds DEF Rebuild, decVars
  <2>2. \A e \in Entries : EntryOK(e, gen, n, cur, bufs) => EntryOK(e, gen', n', cur', bufs')
    <3> SUFFICES ASSUME NEW e \in Entries, EntryOK(e, gen, n, cur, bufs)
                 PROVE  EntryOK(e, gen', n', cur', bufs')
      OBVIOUS
    <3>1. e.gen \in Nat /\ e.gen <= gen
      BY DEF Entries, EntryOK
    <3> QED BY <1>3, <2>1, <3>1 DEF EntryOK
  <2> QED BY <2>1, <2>2, EntryIds DEF RingInv
<1>4. CASE UpdateEnvironment \/ HandleControl \/ Exit
  BY <1>1, <1>4 DEF UpdateEnvironment, HandleControl, Exit, threads, ueVars, syncVars, decVars
<1>5. CASE Rebuild /\ UNCHANGED <<gen, cur, bufs>>
  BY <1>1, <1>5 DEF Rebuild, decVars
<1>6. CASE StopSync \/ StopDec \/ JoinSync \/ JoinDec \/ JoinAgain
             \/ StartSync \/ StartDec \/ RecordBw \/ SetGain
  BY <1>1, <1>6 DEF StopSync, StopDec, JoinSync, JoinDec, JoinAgain, StartSync,
     StartDec, RecordBw, SetGain, threads, ueVars, syncVars, decVars
<1> QED BY <1>2, <1>3, <1>4, <1>5, <1>6 DEF Change, Rebuild

\* The buffer of an entry that is decoded still holds its subframe, unless the
\* ring was rebuilt meanwhile or N - 1 younger subframes came.
THEOREM EntriesIntact == Spec => []EntryIntact
<1>1. TypeInv /\ RingInv /\ [Next]_vars => RingInv'
  <2>1. RingInv /\ UNCHANGED vars => RingInv'
    BY DEF RingInv, vars, ueVars, syncVars, decVars
  <2> QED BY <2>1, SyncRing, DecRing, MainRing DEF Next
<1>2. TypeInv /\ RingInv => EntryIntact
  BY DEF RingInv, EntryOK, EntryIntact, TypeInv, JoinedInv
<1> QED BY <1>1, <1>2, InitRing, TypeInvariant, PTL DEF Spec
=============================================================================

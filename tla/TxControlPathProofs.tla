------------------------ MODULE TxControlPathProofs ------------------------
(***************************************************************************)
(* Proofs about TxControlPath for every number of PHYs, buffers, slots and *)
(* messages.                                                               *)
(***************************************************************************)
EXTENDS TxControlPath, FiniteSetTheorems, TLAPS

---------------------------------------------------------------------------
(* The circular buffer.                                                    *)

\* push_back on a container gives a container.
LEMMA PushBackType ==
  ASSUME NEW q \in Seq(Entry), NEW e \in Entry
  PROVE  PushBack(q, e) \in Seq(Entry)
BY PathAssumption DEF PushBack

\* What push_back leaves is what was there, in the same order, and the new
\* element last; it never exceeds the capacity.
LEMMA PushBackElements ==
  ASSUME NEW q \in Seq(Entry), NEW e \in Entry, Len(q) <= Capacity
  PROVE  LET r == PushBack(q, e)
             d == IF Len(q) = Capacity THEN 1 ELSE 0
         IN  /\ Len(r) = Len(q) + 1 - d
             /\ Len(r) <= Capacity
             /\ \A i \in 1..(Len(r) - 1) : i + d \in 1..Len(q) /\ r[i] = q[i + d]
             /\ r[Len(r)] = e
<1>1. CASE Len(q) = Capacity
  <2>1. q # <<>> /\ Tail(q) \in Seq(Entry) /\ Len(Tail(q)) = Len(q) - 1
    BY <1>1, PathAssumption
  <2>2. \A i \in 1..Len(Tail(q)) : Tail(q)[i] = q[i + 1]
    BY <2>1
  <2> QED BY <1>1, <2>1, <2>2, PathAssumption DEF PushBack
<1>2. CASE Len(q) # Capacity
  BY <1>2, PathAssumption DEF PushBack
<1> QED BY <1>1, <1>2

---------------------------------------------------------------------------
(* Type correctness.                                                       *)

\* The path when all threads wait for their first control.
LEMMA InitType == Init => TypeOK
<1> SUFFICES ASSUME Init
             PROVE  TypeOK
  OBVIOUS
<1>1. 0 \in Slots /\ DefaultPhy \in Phys /\ 0 \in PhyIds /\ 0 \in 0..MaxMsgs
  BY PathAssumption DEF Slots, Phys, PhyIds
<1>2. NoEntry \in Entry
  BY <1>1 DEF NoEntry, Entry
<1>3. container \in [Phys -> Seq(Entry)]
  BY DEF Init
<1>4. "ready" \in WorkerStates /\ "loop" \in MainStates
  BY DEF WorkerStates, MainStates
<1> QED BY <1>1, <1>2, <1>3, <1>4 DEF Init, TypeOK

\* Every step keeps the types.
LEMMA NextType == TypeOK /\ [Next]_vars => TypeOK'
<1> SUFFICES ASSUME TypeOK, [Next]_vars
             PROVE  TypeOK'
  OBVIOUS
<1> USE PathAssumption DEF TypeOK
<1>1. CASE LoopTop
  BY <1>1 DEF LoopTop, ringVars, workerVars, MainStates
<1>2. CASE FetchNothing
  BY <1>2 DEF FetchNothing, ringVars, workerVars, MainStates
<1>3. ASSUME NEW p \in PhyIds, Fetch(p)
      PROVE  TypeOK'
  <2>1. accepted + 1 \in 0..MaxMsgs
    BY <1>3 DEF Fetch
  <2>2. NextSlot(cnt) \in Slots
    BY DEF NextSlot, Slots
  <2>3. [id |-> accepted + 1, slot |-> cnt] \in Entry
    BY <2>1 DEF Entry
  <2>4. "parsed" \in MainStates
    BY DEF MainStates
  <2> QED BY <1>3, <2>1, <2>2, <2>3, <2>4 DEF Fetch, workerVars
<1>4. CASE Handle
  BY <1>4, PushBackType DEF Handle, ringVars, workerVars, MainStates
<1>5. CASE SigInt
  BY <1>5 DEF SigInt, ringVars, workerVars, mainVars
<1>6. CASE FreeData
  BY <1>6 DEF FreeData, ringVars, workerVars, MainStates
<1>7. CASE StopWorker
  BY <1>7 DEF StopWorker, ringVars, workerVars, MainStates
<1>8. CASE JoinWorker
  BY <1>8 DEF JoinWorker, ringVars, workerVars, MainStates
<1>9. ASSUME NEW p \in Phys, Worker(p)
      PROVE  TypeOK'
  <2>1. ASSUME Pop(p)
        PROVE  /\ bc' \in [Phys -> Entry]
               /\ container' \in [Phys -> Seq(Entry)]
               /\ wpc' \in [Phys -> WorkerStates]
    BY <2>1 DEF Pop, WorkerStates
  <2>2. CASE PopNow(p)
    BY <2>2, <2>1 DEF PopNow, ringVars, mainVars
  <2>3. CASE StartWait(p)
    BY <2>3 DEF StartWait, ringVars, mainVars, WorkerStates
  <2>4. CASE WaitPops(p)
    BY <2>4, <2>1 DEF WaitPops, ringVars, mainVars
  <2>5. CASE Leave(p)
    BY <2>5 DEF Leave, ringVars, mainVars, WorkerStates
  <2>6. CASE StartEncoding(p)
    BY <2>6 DEF StartEncoding, ringVars, mainVars, WorkerStates
  <2>7. CASE FinishEncoding(p)
    BY <2>7 DEF FinishEncoding, ringVars, mainVars, WorkerStates
  <2> QED BY <1>9, <2>2, <2>3, <2>4, <2>5, <2>6, <2>7 DEF Worker
<1>10. CASE UNCHANGED vars
  BY <1>10 DEF vars, ringVars, workerVars, mainVars
<1> QED
  BY <1>1, <1>2, <1>3, <1>4, <1>5, <1>6, <1>7, <1>8, <1>9, <1>10
  DEF Next, Main, Terminated

\* Every variable of the path keeps its type: in particular the ring index
\* stays inside the ring and only threads' known states occur.
THEOREM TypeCorrect == Spec => []TypeOK
BY InitType, NextType, PTL DEF Spec

---------------------------------------------------------------------------
(* The inductive invariant.                                                *)

\* Copying a message makes every other buffer one message older.
LEMMA AgeStep ==
  ASSUME TypeOK, NEW p \in PhyIds, Fetch(p), NEW s \in Slots
  PROVE  /\ Age(s) \in 0..(NumBuffers - 1)
         /\ s # cnt => Age(s)' = Age(s) + 1
         /\ s = cnt => Age(s) = NumBuffers - 1 /\ Age(s)' = 0
  BY PathAssumption DEF TypeOK, Fetch, NextSlot, Slots, Age

\* Copying a message leaves every control that it does not lap in place.
LEMMA PlacedStep ==
  ASSUME TypeOK, NEW p \in PhyIds, Fetch(p), NEW e \in Entry, Placed(e)
  PROVE  Placed(e)'
<1> SUFFICES ASSUME NotLapped(e)'
             PROVE  Intact(e)' /\ Age(e.slot)' = accepted' - e.id
  BY DEF Placed, Intact, NotLapped, Age, Slots
<1>1. /\ e.id \in Int /\ e.slot \in Slots /\ accepted \in Int
      /\ accepted' = accepted + 1 /\ NumBuffers \in Int
  BY PathAssumption DEF TypeOK, Fetch, Entry
<1>2. accepted - e.id < NumBuffers - 1
  BY <1>1 DEF NotLapped
<1>3. Intact(e) /\ Age(e.slot) = accepted - e.id
  BY <1>1, <1>2 DEF Placed, NotLapped
<1>4. e.slot # cnt
  BY <1>1, <1>2, <1>3, AgeStep
<1>5. Age(e.slot)' = accepted' - e.id
  BY <1>1, <1>3, <1>4, AgeStep
<1>6. buf'[e.slot] = buf[e.slot]
  BY <1>1, <1>4 DEF Fetch, TypeOK
<1> QED BY <1>3, <1>5, <1>6 DEF Intact

\* The control just parsed is in place.
LEMMA PlacedNew ==
  ASSUME TypeOK, NEW p \in PhyIds, Fetch(p)
  PROVE  Placed(mmsg)'
<1> PICK s \in Slots : s = cnt
  BY DEF TypeOK
<1>1. Age(s)' = 0
  BY AgeStep
<1>2. mmsg' = [id |-> accepted + 1, slot |-> s] /\ accepted' = accepted + 1
  BY DEF Fetch
<1>3. buf'[s] = accepted + 1
  BY DEF Fetch, TypeOK
<1>4. accepted' - mmsg'.id = 0
  BY <1>2 DEF TypeOK
<1>5. Age(mmsg.slot)' = 0
  BY <1>1, <1>2 DEF Age
<1> QED BY <1>2, <1>3, <1>4, <1>5 DEF Placed, Intact

\* The invariant holds before the first message.
LEMMA InitInv == Init => PathInv
<1> SUFFICES ASSUME Init
             PROVE  PathInv
  OBVIOUS
<1>1. \A p \in Phys : container[p] = <<>> /\ bc[p] = NoEntry /\ wpc[p] = "ready"
                      /\ run[p] /\ ~ctxFreed[p]
  BY DEF Init
<1>2. AllPlaced
  BY <1>1 DEF Init, AllPlaced, InUse
<1>3. Numbered
  BY <1>1 DEF Init, Numbered, NoEntry
<1>4. InOrder
  BY <1>1, PathAssumption DEF InOrder
<1>5. Running /\ JoinedLeft
  BY <1>1 DEF Running, JoinedLeft
<1> QED BY <1>2, <1>3, <1>4, <1>5 DEF PathInv

\* A step of the main thread or of a Tx thread that leaves the ring, the
\* queues and what the threads hold alone.
LEMMA SameControls ==
  ASSUME AllPlaced, Numbered, InOrder,
         UNCHANGED <<accepted, cnt, buf, container, bc>>,
         \A p \in Phys : InUse(p)' => InUse(p),
         mpc' = "parsed" => mpc = "parsed" /\ UNCHANGED mmsg
  PROVE  AllPlaced' /\ Numbered' /\ InOrder'
<1>1. \A e : Placed(e) => Placed(e)'
  BY DEF Placed, Intact, NotLapped, Age
<1>2. AllPlaced'
  BY <1>1 DEF AllPlaced, InUse, Placed, Intact, NotLapped, Age
<1>3. Numbered' /\ InOrder'
  BY DEF Numbered, InOrder
<1> QED BY <1>2, <1>3

\* The part of the invariant about the shutdown, preserved by each step.
LEMMA NextShutdown == TypeOK /\ Running /\ JoinedLeft /\ [Next]_vars => (Running /\ JoinedLeft)'
<1> SUFFICES ASSUME TypeOK, Running, JoinedLeft, [Next]_vars
             PROVE  (Running /\ JoinedLeft)'
  OBVIOUS
<1> USE DEF Running, JoinedLeft
<1>1. CASE LoopTop \/ FetchNothing \/ Handle \/ SigInt \/ FreeData
  BY <1>1 DEF LoopTop, FetchNothing, Handle, SigInt, FreeData, workerVars, mainVars
<1>2. ASSUME NEW p \in PhyIds, Fetch(p)
      PROVE  (Running /\ JoinedLeft)'
  BY <1>2 DEF Fetch, workerVars
<1>3. CASE StopWorker
  BY <1>3 DEF StopWorker, workerVars
<1>4. CASE JoinWorker
  BY <1>4 DEF JoinWorker, workerVars, TypeOK
<1>5. ASSUME NEW p \in Phys, Worker(p)
      PROVE  (Running /\ JoinedLeft)'
  <2>1. CASE PopNow(p) \/ WaitPops(p)
    BY <2>1 DEF PopNow, WaitPops, Pop, mainVars, TypeOK
  <2>2. CASE StartWait(p) \/ StartEncoding(p) \/ FinishEncoding(p)
    BY <2>2 DEF StartWait, StartEncoding, FinishEncoding, mainVars, TypeOK
  <2>3. CASE Leave(p)
    BY <2>3 DEF Leave, mainVars, TypeOK
  <2> QED BY <1>5, <2>1, <2>2, <2>3 DEF Worker
<1>6. CASE UNCHANGED vars
  BY <1>6 DEF vars, workerVars, mainVars
<1> QED
  BY <1>1, <1>2, <1>3, <1>4, <1>5, <1>6 DEF Next, Main, Terminated


\* Parsing a message: the ring moves on, the queues stay.
LEMMA FetchControls ==
  ASSUME TypeOK, AllPlaced, Numbered, InOrder, NEW p \in PhyIds, Fetch(p)
  PROVE  AllPlaced' /\ Numbered' /\ InOrder'
<1> USE DEF TypeOK
<1>1. /\ UNCHANGED <<container, bc, wpc>>
      /\ accepted' = accepted + 1 /\ mmsg'.id = accepted + 1
  BY DEF Fetch, workerVars
<1>2. \A e \in Entry : Placed(e) => Placed(e)'
  BY PlacedStep
<1>3. AllPlaced'
  <2>1. ASSUME NEW q \in Phys, NEW i \in 1..Len(container'[q])
        PROVE  Placed(container[q][i])'
    <3> PICK e \in Entry : e = container[q][i]
      BY <1>1
    <3>1. Placed(e)'
      BY <1>1, <1>2 DEF AllPlaced
    <3> QED BY <1>1, <3>1 DEF Placed, Intact, NotLapped, Age
  <2>2. ASSUME NEW q \in Phys, InUse(q)'
        PROVE  Placed(bc[q])'
    <3> PICK e \in Entry : e = bc[q]
      OBVIOUS
    <3>1. Placed(e)'
      BY <1>1, <1>2, <2>2 DEF AllPlaced, InUse
    <3> QED BY <1>1, <3>1 DEF Placed, Intact, NotLapped, Age
  <2> QED BY <2>1, <2>2, PlacedNew DEF AllPlaced
<1>4. Numbered'
  <2>1. accepted \in Int /\ \A q \in Phys : bc[q].id \in Int
    BY DEF Entry
  <2>2. ASSUME NEW q \in Phys, NEW i \in 1..Len(container[q])
        PROVE  container[q][i].id \in Int
    <3>1. container[q][i] \in Entry
      OBVIOUS
    <3> QED BY <3>1 DEF Entry
  <2>3. \A q \in Phys : /\ bc[q].id <= accepted
                       /\ \A i \in 1..Len(container[q]) : container[q][i].id <= accepted
    BY DEF Numbered
  <2> QED BY <1>1, <2>1, <2>2, <2>3 DEF Numbered
<1>5. InOrder'
  BY <1>1 DEF InOrder
<1> QED BY <1>3, <1>4, <1>5

\* Pushing the control just parsed, or dropping it.
LEMMA HandleControls ==
  ASSUME TypeOK, AllPlaced, Numbered, InOrder, Handle
  PROVE  AllPlaced' /\ Numbered' /\ InOrder'
<1> USE DEF TypeOK
<1>1. UNCHANGED <<accepted, cnt, buf, bc, wpc, mmsg>> /\ mpc = "parsed" /\ mpc' = "loop"
  BY DEF Handle, ringVars, workerVars
<1>2. CASE UNCHANGED container
  BY <1>1, <1>2, SameControls DEF InUse
<1>3. CASE mphy \in Phys /\ container' = [container EXCEPT ![mphy] = PushBack(@, mmsg)]
  <2> DEFINE q == container[mphy]
             r == PushBack(q, mmsg)
             d == IF Len(q) = Capacity THEN 1 ELSE 0
  <2>1. /\ q \in Seq(Entry) /\ mmsg \in Entry /\ Len(q) <= Capacity
        /\ container'[mphy] = r
        /\ \A p \in Phys \ {mphy} : container'[p] = container[p]
    BY <1>3 DEF InOrder
  <2>2. /\ Len(r) = Len(q) + 1 - d
        /\ Len(r) <= Capacity
        /\ \A i \in 1..(Len(r) - 1) : i + d \in 1..Len(q) /\ r[i] = q[i + d]
        /\ r[Len(r)] = mmsg
    BY <2>1, PushBackElements
  <2>3. \A i \in 1..Len(r) : i = Len(r) \/ i \in 1..(Len(r) - 1)
    BY <2>1, <2>2
  <2>4. \A e : Placed(e) => Placed(e)'
    BY <1>1 DEF Placed, Intact, NotLapped, Age
  <2>5. AllPlaced'
    <3>1. ASSUME NEW p \in Phys, NEW i \in 1..Len(container'[p])
          PROVE  Placed(container'[p][i])
      <4>1. CASE p = mphy
        BY <1>1, <1>3, <2>1, <2>2, <2>3, <4>1 DEF AllPlaced
      <4>2. CASE p # mphy
        BY <2>1, <4>2 DEF AllPlaced
      <4> QED BY <4>1, <4>2
    <3>2. \A p \in Phys : InUse(p)' => Placed(bc[p])
      BY <1>1 DEF AllPlaced, InUse
    <3> QED
      BY <1>1, <3>1, <3>2 DEF AllPlaced, Placed, Intact, NotLapped, Age
  <2>6. Numbered'
    <3>1. ASSUME NEW p \in Phys, NEW i \in 1..Len(container'[p])
          PROVE  container'[p][i].id <= accepted
      <4>1. CASE p = mphy
        <5>1. mmsg.id <= accepted /\ \A k \in 1..Len(q) : q[k].id <= accepted
          BY <1>1, <1>3 DEF Numbered
        <5> QED BY <2>1, <2>2, <2>3, <4>1, <5>1
      <4>2. CASE p # mphy
        BY <2>1, <4>2 DEF Numbered
      <4> QED BY <4>1, <4>2
    <3> QED BY <1>1, <3>1 DEF Numbered
  <2>7. InOrder'
    <3> SUFFICES ASSUME NEW p \in Phys
                 PROVE  /\ Len(container'[p]) <= Capacity
                        /\ \A i \in 1..Len(container'[p]) : bc[p].id < container'[p][i].id
                        /\ \A i, j \in 1..Len(container'[p]) :
                             i < j => container'[p][i].id < container'[p][j].id
      BY <1>1 DEF InOrder
    <3>1. CASE p # mphy
      BY <2>1, <3>1 DEF InOrder
    <3>2. CASE p = mphy
      <4>1. \A i \in 1..Len(q) : q[i].id < mmsg.id /\ bc[p].id < q[i].id
        BY <1>1, <1>3, <3>2 DEF Numbered, InOrder
      <4>2. bc[p].id < mmsg.id
        BY <1>1 DEF Numbered
      <4>3. \A i \in 1..Len(r) : bc[p].id < r[i].id
        BY <2>2, <2>3, <4>1, <4>2
      <4>4. ASSUME NEW i \in 1..Len(r), NEW j \in 1..Len(r), i < j
            PROVE  r[i].id < r[j].id
        <5>1. i \in 1..(Len(r) - 1) /\ i + d \in 1..Len(q) /\ r[i] = q[i + d]
          <6>1. Len(r) \in Int
            BY <2>1, <2>2
          <6>2. i \in 1..(Len(r) - 1)
            BY <4>4, <6>1
          <6> QED BY <2>2, <6>2
        <5>2. CASE j = Len(r)
          BY <2>2, <4>1, <5>1, <5>2
        <5>3. CASE j \in 1..(Len(r) - 1)
          <6>1. j + d \in 1..Len(q) /\ r[j] = q[j + d]
            BY <2>2, <5>3
          <6>2. d \in Int /\ i \in Int /\ j \in Int
            OBVIOUS
          <6>3. i + d < j + d
            BY <4>4, <6>2
          <6> QED BY <1>3, <5>1, <6>1, <6>3 DEF InOrder
        <5> QED BY <2>3, <5>2, <5>3
      <4> QED BY <2>1, <2>2, <3>2, <4>3, <4>4
    <3> QED BY <3>1, <3>2
  <2> QED BY <2>5, <2>6, <2>7
<1> QED BY <1>1, <1>2, <1>3 DEF Handle


\* The Tx thread takes the front of its container.
LEMMA PopControls ==
  ASSUME TypeOK, AllPlaced, Numbered, InOrder, NEW p \in Phys, Pop(p),
         UNCHANGED <<accepted, cnt, buf, mpc, mmsg>>
  PROVE  AllPlaced' /\ Numbered' /\ InOrder'
<1> USE DEF TypeOK
<1> DEFINE q == container[p]
<1>1. q \in Seq(Entry) /\ q # <<>>
  BY DEF Pop
<1>2. /\ Head(q) = q[1] /\ 1 \in 1..Len(q)
      /\ Len(Tail(q)) = Len(q) - 1
      /\ \A i \in 1..Len(Tail(q)) : i + 1 \in 1..Len(q) /\ Tail(q)[i] = q[i + 1]
  BY <1>1
<1>3. /\ bc'[p] = q[1] /\ container'[p] = Tail(q)
      /\ \A o \in Phys \ {p} : /\ bc'[o] = bc[o] /\ container'[o] = container[o]
                               /\ wpc'[o] = wpc[o]
  BY <1>2 DEF Pop
<1>4. \A e : Placed(e) => Placed(e)'
  BY DEF Placed, Intact, NotLapped, Age
<1>5. AllPlaced'
  <2>1. ASSUME NEW o \in Phys, NEW i \in 1..Len(container'[o])
        PROVE  Placed(container'[o][i])
    <3>1. CASE o = p
      BY <1>2, <1>3, <3>1 DEF AllPlaced
    <3>2. CASE o # p
      BY <1>3, <3>2 DEF AllPlaced
    <3> QED BY <3>1, <3>2
  <2>2. ASSUME NEW o \in Phys, InUse(o)'
        PROVE  Placed(bc'[o])
    <3>1. CASE o = p
      BY <1>2, <1>3, <3>1 DEF AllPlaced
    <3>2. CASE o # p
      BY <1>3, <2>2, <3>2 DEF AllPlaced, InUse
    <3> QED BY <3>1, <3>2
  <2> QED BY <2>1, <2>2 DEF AllPlaced, Placed, Intact, NotLapped, Age
<1>6. Numbered'
  <2>1. ASSUME NEW o \in Phys
        PROVE  /\ bc'[o].id <= accepted
               /\ \A i \in 1..Len(container'[o]) : container'[o][i].id <= accepted
    <3>1. CASE o = p
      <4>1. \A k \in 1..Len(q) : q[k].id <= accepted
        BY DEF Numbered
      <4>2. \A i \in 1..Len(Tail(q)) : Tail(q)[i].id <= accepted
        BY <1>2, <4>1
      <4> QED BY <1>2, <1>3, <3>1, <4>1, <4>2
    <3>2. CASE o # p
      BY <1>3, <3>2 DEF Numbered
    <3> QED BY <3>1, <3>2
  <2>2. ASSUME mpc = "parsed", NEW o \in Phys
        PROVE  /\ bc'[o].id < accepted
               /\ \A i \in 1..Len(container'[o]) : container'[o][i].id < accepted
    <3>1. CASE o = p
      <4>1. \A k \in 1..Len(q) : q[k].id < accepted
        BY <2>2 DEF Numbered
      <4>2. \A i \in 1..Len(Tail(q)) : Tail(q)[i].id < accepted
        BY <1>2, <4>1
      <4> QED BY <1>2, <1>3, <3>1, <4>1, <4>2
    <3>2. CASE o # p
      BY <1>3, <2>2, <3>2 DEF Numbered
    <3> QED BY <3>1, <3>2
  <2> QED BY <2>1, <2>2 DEF Numbered
<1>7. InOrder'
  <2> SUFFICES ASSUME NEW o \in Phys
               PROVE  /\ Len(container'[o]) <= Capacity
                      /\ \A i \in 1..Len(container'[o]) : bc'[o].id < container'[o][i].id
                      /\ \A i, j \in 1..Len(container'[o]) :
                           i < j => container'[o][i].id < container'[o][j].id
    BY DEF InOrder
  <2>1. CASE o # p
    BY <1>3, <2>1 DEF InOrder
  <2>2. CASE o = p
    <3>1. Len(Tail(q)) <= Capacity
      BY <1>1, <1>2, PathAssumption DEF InOrder
    <3>2. \A i \in 1..Len(Tail(q)) : q[1].id < Tail(q)[i].id
      BY <1>2 DEF InOrder
    <3>3. \A i, j \in 1..Len(Tail(q)) : i < j => Tail(q)[i].id < Tail(q)[j].id
      BY <1>2 DEF InOrder
    <3> QED BY <1>3, <2>2, <3>1, <3>2, <3>3
  <2> QED BY <2>1, <2>2
<1> QED BY <1>5, <1>6, <1>7

\* Joining a thread empties its container.
LEMMA JoinControls ==
  ASSUME TypeOK, AllPlaced, Numbered, InOrder, JoinWorker
  PROVE  AllPlaced' /\ Numbered' /\ InOrder'
<1> USE DEF TypeOK
<1>1. /\ UNCHANGED <<accepted, cnt, buf, bc, wpc, mmsg>> /\ mpc' # "parsed"
      /\ container'[stopPhy] = <<>>
      /\ \A p \in Phys \ {stopPhy} : container'[p] = container[p]
  BY DEF JoinWorker, ringVars, workerVars
<1>0. ASSUME NEW p \in Phys
      PROVE  \/ Len(container'[p]) = 0 /\ 1..Len(container'[p]) = {}
             \/ container'[p] = container[p]
  BY <1>1
<1>2. AllPlaced'
  <2>1. \A p \in Phys : \A i \in 1..Len(container'[p]) : Placed(container'[p][i])
    BY <1>0 DEF AllPlaced
  <2> QED BY <1>1, <2>1 DEF AllPlaced, InUse, Placed, Intact, NotLapped, Age
<1>3. Numbered'
  <2>1. \A p \in Phys : \A i \in 1..Len(container'[p]) : container'[p][i].id <= accepted
    BY <1>0 DEF Numbered
  <2> QED BY <1>1, <2>1 DEF Numbered
<1>4. InOrder'
  <2> SUFFICES ASSUME NEW p \in Phys
               PROVE  /\ Len(container'[p]) <= Capacity
                      /\ \A i \in 1..Len(container'[p]) : bc[p].id < container'[p][i].id
                      /\ \A i, j \in 1..Len(container'[p]) :
                           i < j => container'[p][i].id < container'[p][j].id
    BY <1>1 DEF InOrder
  <2>1. CASE container'[p] = container[p]
    BY <2>1 DEF InOrder
  <2>2. CASE Len(container'[p]) = 0 /\ 1..Len(container'[p]) = {}
    BY <2>2, PathAssumption
  <2> QED BY <1>0, <2>1, <2>2
<1> QED BY <1>2, <1>3, <1>4

\* Every step ages the buffers by as much as the controls that point to them.
LEMMA NextInv == TypeOK /\ PathInv /\ [Next]_vars => PathInv'
<1> SUFFICES ASSUME TypeOK, PathInv, [Next]_vars
             PROVE  AllPlaced' /\ Numbered' /\ InOrder'
  BY NextShutdown DEF PathInv
<1>0. AllPlaced /\ Numbered /\ InOrder
  BY DEF PathInv
<1>1. CASE LoopTop \/ FetchNothing \/ SigInt \/ FreeData \/ StopWorker
  BY <1>0, <1>1, SameControls
  DEF LoopTop, FetchNothing, SigInt, FreeData, StopWorker, ringVars, workerVars,
      mainVars, InUse
<1>2. ASSUME NEW p \in PhyIds, Fetch(p)
      PROVE  AllPlaced' /\ Numbered' /\ InOrder'
  BY <1>0, <1>2, FetchControls
<1>3. CASE Handle
  BY <1>0, <1>3, HandleControls
<1>4. CASE JoinWorker
  BY <1>0, <1>4, JoinControls
<1>5. ASSUME NEW p \in Phys, Worker(p)
      PROVE  AllPlaced' /\ Numbered' /\ InOrder'
  <2>1. CASE PopNow(p) \/ WaitPops(p)
    BY <1>0, <2>1, PopControls DEF PopNow, WaitPops, ringVars, mainVars
  <2>2. CASE StartWait(p) \/ Leave(p) \/ StartEncoding(p) \/ FinishEncoding(p)
    <3>1. \A o \in Phys : InUse(o)' => InUse(o)
      BY <2>2 DEF StartWait, Leave, StartEncoding, FinishEncoding, InUse, TypeOK
    <3>2. UNCHANGED <<accepted, cnt, buf, container, bc, mpc, mmsg>>
      BY <2>2 DEF StartWait, Leave, StartEncoding, FinishEncoding, ringVars, mainVars
    <3> QED BY <1>0, <3>1, <3>2, SameControls
  <2> QED BY <1>5, <2>1, <2>2 DEF Worker
<1>6. CASE UNCHANGED vars
  BY <1>0, <1>6, SameControls DEF vars, ringVars, workerVars, mainVars, InUse
<1> QED
  BY <1>1, <1>2, <1>3, <1>4, <1>5, <1>6 DEF Next, Main, Terminated

\* The invariant above holds in every state of the path.
THEOREM InvCorrect == Spec => []PathInv
BY InitType, NextType, InitInv, NextInv, PTL DEF Spec

---------------------------------------------------------------------------
(* What it implies.                                                        *)

\* A control placed at its age points to its data, and a thread that was not
\* joined has its context.
LEMMA InvImplies == TypeOK /\ PathInv => RingFresh /\ NoFreedContext
<1> SUFFICES ASSUME TypeOK, PathInv
             PROVE  RingFresh /\ NoFreedContext
  OBVIOUS
<1>1. QueuedFresh
  BY DEF PathInv, AllPlaced, Placed, QueuedFresh
<1>2. InFlightFresh
  <2>1. mpc = "parsed" => NotLapped(mmsg)
    BY PathAssumption DEF PathInv, Numbered, NotLapped, TypeOK
  <2> QED BY <2>1 DEF PathInv, AllPlaced, Placed, InFlightFresh
<1>3. NoFreedContext
  BY DEF PathInv, Running, JoinedLeft, NoFreedContext
<1> QED BY <1>1, <1>2, <1>3 DEF RingFresh

\* Whatever the sizes of the ring and of the circular buffers and the speed of
\* the Tx threads, a control that the ring has not lapped points to the data
\* the MAC sent with it, in the queue and while it is transmitted.
THEOREM RingCorrect == Spec => []RingFresh
BY TypeCorrect, InvCorrect, InvImplies, PTL

\* The controls of each PHY are queued and taken in the order the MAC sent
\* them, and the circular buffer never holds more than its capacity.
THEOREM OrderCorrect == Spec => []InOrder
<1>1. PathInv => InOrder
  BY DEF PathInv
<1> QED BY <1>1, InvCorrect, PTL

\* For any number of PHYs, the shutdown frees the context of a Tx thread only
\* after the thread has left, and never one the main thread may still push to.
THEOREM ContextCorrect == Spec => []NoFreedContext
BY TypeCorrect, InvCorrect, InvImplies, PTL

---------------------------------------------------------------------------
(* The path implements the stream of controls.                             *)

\* The numbers of the controls in a container.
IdsOf(q) == {q[i].id : i \in 1..Len(q)}

Rising(q) == \A i, j \in 1..Len(q) : i < j => q[i].id < q[j].id

\* ControlStream counts with the operator of FiniteSets.
LEMMA StreamCounts ==
  ASSUME NEW S
  PROVE  Stream!Cardinality(S) = Cardinality(S)
BY Zenon DEF Stream!Cardinality, Cardinality

\* Controls queued in rising order have as many numbers as there are controls.
LEMMA IdsCount ==
  ASSUME NEW q \in Seq(Entry), Rising(q)
  PROVE  Cardinality(IdsOf(q)) = Len(q)
<1> DEFINE f == [i \in 1..Len(q) |-> q[i].id]
<1>1. Len(q) \in Nat /\ \A i \in 1..Len(q) : q[i].id \in Int
  <2>1. \A i \in 1..Len(q) : q[i] \in Entry
    OBVIOUS
  <2> QED BY <2>1, PathAssumption DEF Entry
<1>2. f \in [1..Len(q) -> IdsOf(q)]
  BY DEF IdsOf
<1>3. ASSUME NEW i \in 1..Len(q), NEW j \in 1..Len(q), f[i] = f[j]
      PROVE  i = j
  <2>1. i < j \/ j < i \/ i = j
    BY <1>1
  <2>2. q[i].id = q[j].id /\ q[i].id \in Int
    BY <1>1, <1>3
  <2> QED BY <2>1, <2>2 DEF Rising
<1>4. \A t \in IdsOf(q) : \E i \in 1..Len(q) : f[i] = t
  BY DEF IdsOf
<1> HIDE DEF f
<1>5. f \in Bijection(1..Len(q), IdsOf(q))
  <2>1. DOMAIN f = 1..Len(q)
    BY <1>2
  <2>2. f \in Injection(1..Len(q), IdsOf(q))
    BY <1>2, <1>3, <2>1 DEF Injection, IsInjective
  <2> QED BY <1>2, <1>4, <2>2 DEF Bijection, Surjection
<1> QED BY <1>1, <1>5, FS_CountingElements DEF ExistsBijection

\* The front of a container is its oldest control, and Tail removes its number only.
LEMMA IdsTail ==
  ASSUME NEW q \in Seq(Entry), q # <<>>, Rising(q)
  PROVE  /\ IdsOf(Tail(q)) = IdsOf(q) \ {q[1].id}
         /\ Stream!Oldest(IdsOf(q)) = {q[1].id}
<1>1. /\ Len(q) \in Nat /\ 1 \in 1..Len(q) /\ Len(Tail(q)) = Len(q) - 1
      /\ \A i \in 1..Len(q) : q[i].id \in Int
      /\ \A i \in 1..(Len(q) - 1) : Tail(q)[i] = q[i + 1]
  <2>1. \A i \in 1..Len(q) : q[i] \in Entry
    OBVIOUS
  <2>2. \A i \in 1..Len(q) : q[i].id \in Int
    BY <2>1, PathAssumption DEF Entry
  <2> QED BY <2>2
<1>2. \A i \in 1..Len(q) : i # 1 => q[1].id < q[i].id
  BY <1>1 DEF Rising
<1>3. \A i \in 1..Len(q) : i # 1 => i - 1 \in 1..(Len(q) - 1) /\ Tail(q)[i - 1] = q[i]
  BY <1>1
<1>4. \A i \in 1..(Len(q) - 1) : i + 1 \in 1..Len(q) /\ i + 1 # 1
  BY <1>1
<1>5. ASSUME NEW t \in IdsOf(Tail(q))
      PROVE  t \in IdsOf(q) \ {q[1].id}
  <2>1. PICK i \in 1..(Len(q) - 1) : t = q[i + 1].id
    BY <1>1 DEF IdsOf
  <2>2. t \in IdsOf(q)
    BY <1>4, <2>1 DEF IdsOf
  <2>3. q[1].id < t /\ t \in Int /\ q[1].id \in Int
    BY <1>1, <1>2, <1>4, <2>1
  <2> QED BY <2>2, <2>3
<1>6. ASSUME NEW t \in IdsOf(q), t # q[1].id
      PROVE  t \in IdsOf(Tail(q))
  <2>1. PICK i \in 1..Len(q) : t = q[i].id /\ i # 1
    BY <1>6 DEF IdsOf
  <2>2. i - 1 \in 1..Len(Tail(q)) /\ t = Tail(q)[i - 1].id
    BY <1>1, <1>3, <2>1
  <2> QED BY <2>2 DEF IdsOf
<1>7. q[1].id \in IdsOf(q) /\ \A t \in IdsOf(q) : q[1].id <= t /\ t \in Int
  BY <1>1, <1>2 DEF IdsOf
<1>8. Stream!Oldest(IdsOf(q)) = {q[1].id}
  BY <1>1, <1>7 DEF Stream!Oldest
<1>9. IdsOf(Tail(q)) = IdsOf(q) \ {q[1].id}
  BY <1>5, <1>6
<1> QED BY <1>8, <1>9

\* Appending a control adds its number.
LEMMA IdsAppend ==
  ASSUME NEW q \in Seq(Entry), NEW e \in Entry
  PROVE  IdsOf(Append(q, e)) = IdsOf(q) \cup {e.id}
<1> DEFINE r == Append(q, e)
<1>1. /\ Len(q) \in Nat /\ Len(r) = Len(q) + 1 /\ r[Len(q) + 1] = e
      /\ \A i \in 1..Len(q) : r[i] = q[i]
  OBVIOUS
<1> HIDE DEF r
<1>2. \A i \in 1..Len(r) : i \in 1..Len(q) \/ i = Len(q) + 1
  BY <1>1
<1>3. Len(q) + 1 \in 1..Len(r) /\ \A i \in 1..Len(q) : i \in 1..Len(r)
  BY <1>1
<1>4. \A t \in IdsOf(r) : t \in IdsOf(q) \cup {e.id}
  BY <1>1, <1>2 DEF IdsOf
<1>5. \A t \in IdsOf(q) \cup {e.id} : t \in IdsOf(r)
  BY <1>1, <1>3 DEF IdsOf
<1> QED BY <1>4, <1>5 DEF r

\* push_back does to the numbers what Push of ControlStream does.
LEMMA IdsPush ==
  ASSUME NEW q \in Seq(Entry), NEW e \in Entry, Len(q) <= Capacity, Rising(q)
  PROVE  IdsOf(PushBack(q, e)) =
           (IF Cardinality(IdsOf(q)) < Capacity
            THEN IdsOf(q)
            ELSE IdsOf(q) \ Stream!Oldest(IdsOf(q))) \cup {e.id}
<1>1. Cardinality(IdsOf(q)) = Len(q) /\ Len(q) \in Nat /\ Capacity \in Nat /\ Capacity # 0
  BY IdsCount, PathAssumption
<1>2. CASE Len(q) = Capacity
  <2>1. q # <<>> /\ Tail(q) \in Seq(Entry)
    BY <1>1, <1>2
  <2>2. IdsOf(PushBack(q, e)) = IdsOf(Tail(q)) \cup {e.id}
    BY <1>2, <2>1, IdsAppend DEF PushBack
  <2> QED BY <1>1, <1>2, <2>1, <2>2, IdsTail
<1>3. CASE Len(q) # Capacity
  <2>1. IdsOf(PushBack(q, e)) = IdsOf(q) \cup {e.id}
    BY <1>3, IdsAppend DEF PushBack
  <2> QED BY <1>1, <1>3, <2>1
<1> QED BY <1>2, <1>3

\* At the start no control is pending for any PHY.
LEMMA InitStream == Init => Stream!Init
<1> SUFFICES ASSUME Init
             PROVE  Stream!Init
  OBVIOUS
<1>1. \A p \in Phys : container[p] = <<>> /\ bc[p].id = 0
  BY DEF Init, NoEntry
<1>2. \A p \in Phys : QueuedIds(p) = {}
  BY <1>1 DEF QueuedIds
<1> QED BY <1>1, <1>2 DEF Stream!Init

\* Pushing the control just parsed is a Push, dropping it changes nothing.
LEMMA HandleStream ==
  ASSUME TypeOK, PathInv, Handle
  PROVE  [Stream!Next]_(Stream!vars)
<1>1. /\ UNCHANGED bc /\ mpc = "parsed" /\ mmsg \in Entry /\ mmsg.id = accepted
      /\ container \in [Phys -> Seq(Entry)]
  BY DEF Handle, workerVars, TypeOK, PathInv, Numbered
<1>2. CASE UNCHANGED container
  BY <1>1, <1>2 DEF Stream!vars, QueuedIds
<1>3. CASE mphy \in Phys /\ container' = [container EXCEPT ![mphy] = PushBack(@, mmsg)]
  <2> PICK h \in Phys : h = mphy
    BY <1>3
  <2>0. container' = [container EXCEPT ![h] = PushBack(@, mmsg)]
    BY <1>3
  <2> DEFINE q == container[h]
             id == mmsg.id
  <2>1. q \in Seq(Entry) /\ Len(q) <= Capacity /\ Rising(q)
    BY <1>1 DEF PathInv, InOrder, Rising
  <2>2. QueuedIds(h) = IdsOf(q) /\ QueuedIds(h)' = IdsOf(PushBack(q, mmsg))
    BY <1>1, <2>0 DEF QueuedIds, IdsOf
  <2>3. \A p \in Phys \ {h} : QueuedIds(p)' = QueuedIds(p)
    BY <1>1, <2>0 DEF QueuedIds
  <2>4. bc[h].id < id /\ \A i \in 1..Len(q) : q[i].id < id
    BY <1>1, <2>0 DEF PathInv, Numbered
  <2>5. id \in 1..MaxMsgs
    <3>1. id \in 0..MaxMsgs /\ bc[h].id \in Nat
      BY <1>1, <2>0 DEF TypeOK, Entry
    <3> QED BY <2>4, <3>1
  <2>6. \A m \in IdsOf(q) : id > m
    BY <2>4 DEF IdsOf
  <2>7. IdsOf(PushBack(q, mmsg)) =
          (IF Cardinality(IdsOf(q)) < Capacity
           THEN IdsOf(q) ELSE IdsOf(q) \ Stream!Oldest(IdsOf(q))) \cup {id}
    BY <1>1, <2>1, IdsPush
  <2> HIDE DEF q, id
  <2>8. Stream!Push(h, id)
    <3>1. [p \in Phys |-> QueuedIds(p)]' =
            [[p \in Phys |-> QueuedIds(p)] EXCEPT ![h] = IdsOf(PushBack(q, mmsg))]
      BY <2>0, <2>2, <2>3
    <3> DEFINE P == [p \in Phys |-> QueuedIds(p)]
               T == [p \in Phys |-> bc[p].id]
    <3>2. P[h] = IdsOf(q) /\ T[h] = bc[h].id /\ T' = T
      BY <1>1, <2>2
    <3>3. id > T[h] /\ \A m \in P[h] : id > m
      BY <2>4, <2>6, <3>2
    <3>4. LET kept == IF Cardinality(P[h]) < Capacity
                      THEN P[h] ELSE P[h] \ Stream!Oldest(P[h])
          IN  P' = [P EXCEPT ![h] = kept \cup {id}]
      BY <2>7, <3>1, <3>2, Zenon
    <3>5. /\ id > T[h] /\ \A m \in P[h] : id > m
          /\ LET kept == IF Stream!Cardinality(P[h]) < Capacity
                         THEN P[h] ELSE P[h] \ Stream!Oldest(P[h])
             IN  P' = [P EXCEPT ![h] = kept \cup {id}]
          /\ UNCHANGED T
      BY <3>2, <3>3, <3>4, StreamCounts
    <3> QED BY <3>5 DEF Stream!Push
  <2>9. \E n \in 1..MaxMsgs : Stream!Push(h, n)
    BY <2>5, <2>8, Zenon
  <2>10. Stream!Next
    BY <2>9 DEF Stream!Next
  <2> QED BY <2>10
<1> QED BY <1>1, <1>2, <1>3 DEF Handle

\* The pop of a Tx thread is a Deliver.
LEMMA PopStream ==
  ASSUME TypeOK, PathInv, NEW p \in Phys, Pop(p)
  PROVE  Stream!Deliver(p)
<1> DEFINE q == container[p]
<1>1. /\ q \in Seq(Entry) /\ q # <<>> /\ Rising(q) /\ Head(q) = q[1]
      /\ container \in [Phys -> Seq(Entry)] /\ bc \in [Phys -> Entry]
  BY DEF Pop, TypeOK, PathInv, InOrder, Rising
<1>2. /\ bc' = [bc EXCEPT ![p] = q[1]]
      /\ container' = [container EXCEPT ![p] = Tail(q)]
  BY <1>1 DEF Pop
<1>3. QueuedIds(p) = IdsOf(q) /\ QueuedIds(p)' = IdsOf(Tail(q))
  BY <1>1, <1>2 DEF QueuedIds, IdsOf
<1>4. \A o \in Phys \ {p} : QueuedIds(o)' = QueuedIds(o)
  BY <1>1, <1>2 DEF QueuedIds
<1>5. /\ IdsOf(Tail(q)) = IdsOf(q) \ {q[1].id}
      /\ Stream!Oldest(IdsOf(q)) = {q[1].id}
  BY <1>1, IdsTail
<1> HIDE DEF q
<1>6. [o \in Phys |-> QueuedIds(o)]' =
        [[o \in Phys |-> QueuedIds(o)] EXCEPT ![p] = IdsOf(q) \ {q[1].id}]
  BY <1>3, <1>4, <1>5
<1>7. [o \in Phys |-> bc[o].id]' = [[o \in Phys |-> bc[o].id] EXCEPT ![p] = q[1].id]
  BY <1>1, <1>2
<1> QED BY <1>3, <1>5, <1>6, <1>7 DEF Stream!Deliver

\* Joining a thread closes the stream of its PHY.
LEMMA JoinStream ==
  ASSUME TypeOK, JoinWorker
  PROVE  \E p \in Phys : Stream!Close(p)
<1> PICK p \in Phys : p = stopPhy
  BY DEF TypeOK
<1>1. /\ bc' = bc /\ container' = [container EXCEPT ![p] = <<>>]
      /\ container \in [Phys -> Seq(Entry)]
  BY DEF JoinWorker, workerVars, TypeOK
<1>2. QueuedIds(p)' = {} /\ \A o \in Phys \ {p} : QueuedIds(o)' = QueuedIds(o)
  BY <1>1 DEF QueuedIds
<1>3. [o \in Phys |-> QueuedIds(o)]' = [[o \in Phys |-> QueuedIds(o)] EXCEPT ![p] = {}]
  BY <1>2
<1> QED BY <1>1, <1>3 DEF Stream!Close

\* A push on a full container, a push, a pop and the end of a PHY are steps of the
\* stream; everything else changes nothing of it.
LEMMA NextStream == TypeOK /\ PathInv /\ [Next]_vars => [Stream!Next]_(Stream!vars)
<1> SUFFICES ASSUME TypeOK, PathInv, [Next]_vars
             PROVE  [Stream!Next]_(Stream!vars)
  OBVIOUS
<1>1. CASE UNCHANGED <<container, bc>>
  BY <1>1 DEF Stream!vars, QueuedIds
<1>2. CASE LoopTop \/ FetchNothing \/ SigInt \/ FreeData \/ StopWorker
  BY <1>1, <1>2 DEF LoopTop, FetchNothing, SigInt, FreeData, StopWorker, workerVars
<1>3. ASSUME NEW p \in PhyIds, Fetch(p)
      PROVE  [Stream!Next]_(Stream!vars)
  BY <1>1, <1>3 DEF Fetch, workerVars
<1>4. CASE Handle
  BY <1>4, HandleStream
<1>5. CASE JoinWorker
  BY <1>5, JoinStream DEF Stream!Next
<1>6. ASSUME NEW p \in Phys, Worker(p)
      PROVE  [Stream!Next]_(Stream!vars)
  <2>1. CASE PopNow(p) \/ WaitPops(p)
    <3>1. Stream!Deliver(p)
      BY <2>1, PopStream DEF PopNow, WaitPops
    <3> QED BY <3>1 DEF Stream!Next
  <2>2. CASE StartWait(p) \/ Leave(p) \/ StartEncoding(p) \/ FinishEncoding(p)
    BY <1>1, <2>2 DEF StartWait, Leave, StartEncoding, FinishEncoding
  <2> QED BY <1>6, <2>1, <2>2 DEF Worker
<1>7. CASE UNCHANGED vars
  BY <1>1, <1>7 DEF vars, workerVars
<1> QED
  BY <1>2, <1>3, <1>4, <1>5, <1>6, <1>7 DEF Next, Main, Terminated

\* Each step of the circular buffers, the timed wait and the shutdown is a step of
\* the stream of controls ControlStream promises, or changes nothing of it: a
\* control is delivered at most once, in order, and only the oldest is lost.
THEOREM Implements == Spec => ImplementsStream
BY InitStream, NextStream, TypeCorrect, InvCorrect, PTL DEF Spec, ImplementsStream, Stream!Spec
=============================================================================

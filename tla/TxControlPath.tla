--------------------------- MODULE TxControlPath ---------------------------
(***************************************************************************)
(* The path of a Tx basic control from the main thread of trx.c to the     *)
(* transmission threads of phy_transmission.c.                             *)
(*                                                                         *)
(* The main thread parses a message of the MAC (parse_received_message),   *)
(* which copies the user data into the next buffer of one ring shared by   *)
(* all PHYs, and pushes the control, which points into that ring, on the   *)
(* circular buffer of the PHY it is addressed to.  The Tx thread of that   *)
(* PHY pops controls and encodes the data they point to.  On exit the main *)
(* thread frees the ring, then stops, joins and frees the Tx threads.      *)
(*                                                                         *)
(* Messages are numbered in the order they are parsed; a buffer of the     *)
(* ring holds the number of the message whose data was copied last.        *)
(***************************************************************************)
EXTENDS Integers, Sequences

CONSTANTS
  MaxPhys,     \* MAX_NUM_CONCURRENT_PHYS, the PHY IDs the communicator lets pass
  DefaultPhy,  \* default_phy_id, the first PHY that runs
  NofPhys,     \* nof_phys, the PHYs that run
  NumBuffers,  \* NUMBER_OF_USER_DATA_BUFFERS
  Capacity,    \* slots of tx_basic_control_handle
  MaxMsgs      \* bound of the model: messages the MAC sends

ASSUME PathAssumption ==
  /\ MaxPhys \in Nat \ {0}
  /\ DefaultPhy \in Nat
  /\ NofPhys \in Nat \ {0}
  /\ DefaultPhy + NofPhys <= MaxPhys
  /\ NumBuffers \in Nat \ {0}
  /\ Capacity \in Nat \ {0}
  /\ MaxMsgs \in Nat

Phys   == DefaultPhy..(DefaultPhy + NofPhys - 1)
PhyIds == 0..(MaxPhys - 1)
Slots  == 0..(NumBuffers - 1)
Entry  == [id : 0..MaxMsgs, slot : Slots]

MainStates   == {"loop", "fetch", "parsed", "exit", "stop", "join", "done"}
WorkerStates == {"ready", "waiting", "popped", "encoding", "left"}

VARIABLES
  accepted,    \* messages parsed so far
  cnt,         \* user_data_buffer_cnt
  buf,         \* user_data_buffer: the message whose data each buffer holds
  container,   \* tx_basic_control_handle of each PHY
  bc,          \* the control each Tx thread popped last
  wpc,         \* where each Tx thread is
  run,         \* run_tx_encoding_thread
  mpc,         \* where the main thread is
  mmsg,        \* the control the main thread parsed last
  mphy,        \* and the PHY ID it carries
  stopPhy,     \* the PHY the main thread is stopping
  goExit,      \* go_exit
  dataFreed,   \* the ring was freed by communicator_uninitialization
  ctxFreed     \* the context of the Tx thread was freed

mainVars   == <<mpc, mmsg, mphy, stopPhy>>
ringVars   == <<accepted, cnt, buf>>
workerVars == <<bc, wpc>>
vars == <<ringVars, container, workerVars, run, mainVars, goExit, dataFreed, ctxFreed>>

NoEntry == [id |-> 0, slot |-> 0]

Init ==
  /\ accepted = 0
  /\ cnt = 0
  /\ buf = [s \in Slots |-> 0]
  /\ container = [p \in Phys |-> <<>>]
  /\ bc = [p \in Phys |-> NoEntry]
  /\ wpc = [p \in Phys |-> "ready"]
  /\ run = [p \in Phys |-> TRUE]
  /\ mpc = "loop"
  /\ mmsg = NoEntry
  /\ mphy = 0
  /\ stopPhy = DefaultPhy
  /\ goExit = FALSE
  /\ dataFreed = FALSE
  /\ ctxFreed = [p \in Phys |-> FALSE]

---------------------------------------------------------------------------
(* Main thread: the message loop of trx.c.                                 *)

\* Mutants of NextSlot: the wrap is forgotten, or comes one buffer early.
NextSlotNoWrap(c) == c + 1
NextSlotEarly(c) == IF c + 2 = NumBuffers THEN 0 ELSE c + 1

\* The buffer after c in the ring: (c + 1) % NUMBER_OF_USER_DATA_BUFFERS.
NextSlot(c) == IF c + 1 = NumBuffers THEN 0 ELSE c + 1

\* while(!go_exit)
LoopTop ==
  /\ mpc = "loop"
  /\ mpc' = IF goExit THEN "exit" ELSE "fetch"
  /\ UNCHANGED <<ringVars, container, workerVars, run, mmsg, mphy, stopPhy,
                 goExit, dataFreed, ctxFreed>>

\* communicator_get_low_queue_wait_for gives nothing within its 500 us, or
\* what it gives is refused by parse_received_message.
FetchNothing ==
  /\ mpc = "fetch"
  /\ mpc' = "loop"
  /\ UNCHANGED <<ringVars, container, workerVars, run, mmsg, mphy, stopPhy,
                 goExit, dataFreed, ctxFreed>>

\* A Tx control for PHY ID p is parsed: its data goes to the next buffer.
Fetch(p) ==
  /\ mpc = "fetch"
  /\ accepted < MaxMsgs
  /\ accepted' = accepted + 1
  /\ buf' = [buf EXCEPT ![cnt] = accepted + 1]
  /\ mmsg' = [id |-> accepted + 1, slot |-> cnt]
  /\ cnt' = NextSlot(cnt)
  /\ mphy' = p
  /\ mpc' = "parsed"
  /\ UNCHANGED <<container, workerVars, run, stopPhy, goExit, dataFreed, ctxFreed>>

\* Mutants of PushBack: a plain queue, and a full buffer that loses its back.
PushBackUnbounded(q, e) == Append(q, e)
PushBackOverBack(q, e) ==
  IF Len(q) = Capacity THEN [q EXCEPT ![Len(q)] = e] ELSE Append(q, e)

\* push_back of a boost circular_buffer: a full buffer loses its front.
PushBack(q, e) == IF Len(q) = Capacity THEN Append(Tail(q), e) ELSE Append(q, e)

\* trx_handle_mac_messages: when not all PHYs run, only the default one is served.
Accepts(p) == NofPhys < MaxPhys => p = DefaultPhy

\* The loop's "if(!go_exit && ret)" and the push on the container of the PHY.
Handle ==
  /\ mpc = "parsed"
  /\ mpc' = "loop"
  /\ container' = IF ~goExit /\ Accepts(mphy)
                  THEN [container EXCEPT ![mphy] = PushBack(@, mmsg)]
                  ELSE container
  /\ UNCHANGED <<ringVars, workerVars, run, mmsg, mphy, stopPhy,
                 goExit, dataFreed, ctxFreed>>

\* The signal handler of trx.c.
SigInt ==
  /\ ~goExit
  /\ goExit' = TRUE
  /\ UNCHANGED <<ringVars, container, workerVars, run, mainVars, dataFreed, ctxFreed>>

\* communicator_uninitialization: communicator_free_user_data_buffer.
FreeData ==
  /\ mpc = "exit"
  /\ dataFreed' = TRUE
  /\ mpc' = "stop"
  /\ UNCHANGED <<ringVars, container, workerVars, run, mmsg, mphy, stopPhy,
                 goExit, ctxFreed>>

\* Mutant of StopWorker: the flag is not cleared.
StopWorkerFlagLeft ==
  /\ mpc = "stop"
  /\ mpc' = "join"
  /\ UNCHANGED <<ringVars, container, workerVars, run, mmsg, mphy, stopPhy,
                 goExit, dataFreed, ctxFreed>>

\* phy_transmission_stop_thread up to pthread_join.  Its pthread_cond_signal
\* only shortens a wait that ends by itself every 10 us.
StopWorker ==
  /\ mpc = "stop"
  /\ run' = [run EXCEPT ![stopPhy] = FALSE]
  /\ mpc' = "join"
  /\ UNCHANGED <<ringVars, container, workerVars, mmsg, mphy, stopPhy,
                 goExit, dataFreed, ctxFreed>>

\* Mutant of JoinWorker: the context is freed without the join.
JoinWorkerNoJoin ==
  /\ mpc = "join"
  /\ ctxFreed' = [ctxFreed EXCEPT ![stopPhy] = TRUE]
  /\ container' = [container EXCEPT ![stopPhy] = <<>>]
  /\ IF stopPhy + 1 \in Phys
     THEN mpc' = "stop" /\ stopPhy' = stopPhy + 1
     ELSE mpc' = "done" /\ UNCHANGED stopPhy
  /\ UNCHANGED <<ringVars, workerVars, run, mmsg, mphy, goExit, dataFreed>>

\* pthread_join returns; mutexes, buffers, container and context are freed.
JoinWorker ==
  /\ mpc = "join"
  /\ wpc[stopPhy] = "left"
  /\ ctxFreed' = [ctxFreed EXCEPT ![stopPhy] = TRUE]
  /\ container' = [container EXCEPT ![stopPhy] = <<>>]
  /\ IF stopPhy + 1 \in Phys
     THEN mpc' = "stop" /\ stopPhy' = stopPhy + 1
     ELSE mpc' = "done" /\ UNCHANGED stopPhy
  /\ UNCHANGED <<ringVars, workerVars, run, mmsg, mphy, goExit, dataFreed>>

---------------------------------------------------------------------------
(* Tx thread of PHY p.                                                     *)

\* Front of the container into bc, under tx_basic_control_mutex.
Pop(p) ==
  /\ container[p] # <<>>
  /\ bc' = [bc EXCEPT ![p] = Head(container[p])]
  /\ container' = [container EXCEPT ![p] = Tail(@)]
  /\ wpc' = [wpc EXCEPT ![p] = "popped"]

\* timedwait_and_pop when the container is not empty: no wait, and no look at
\* the run flag.
PopNow(p) ==
  /\ wpc[p] = "ready"
  /\ Pop(p)
  /\ UNCHANGED <<ringVars, run, mainVars, goExit, dataFreed, ctxFreed>>

\* timedwait_and_pop when it is empty: enter the timed wait.
StartWait(p) ==
  /\ wpc[p] = "ready"
  /\ container[p] = <<>>
  /\ wpc' = [wpc EXCEPT ![p] = "waiting"]
  /\ UNCHANGED <<ringVars, container, bc, run, mainVars, goExit, dataFreed, ctxFreed>>

\* The timed wait ends, by the signal of a push or by its timeout, and finds a
\* control.  With an empty container and the flag set the loop waits again,
\* which changes nothing.
WaitPops(p) ==
  /\ wpc[p] = "waiting"
  /\ run[p]
  /\ Pop(p)
  /\ UNCHANGED <<ringVars, run, mainVars, goExit, dataFreed, ctxFreed>>

\* The timed wait ends and finds the run flag cleared, or the loop condition of
\* phy_transmission_work does after a pop: the thread leaves.
Leave(p) ==
  /\ wpc[p] \in {"waiting", "popped"}
  /\ ~run[p]
  /\ wpc' = [wpc EXCEPT ![p] = "left"]
  /\ UNCHANGED <<ringVars, container, bc, run, mainVars, goExit, dataFreed, ctxFreed>>

\* The loop body starts: from here bc.data is read, once per subframe.
StartEncoding(p) ==
  /\ wpc[p] = "popped"
  /\ run[p]
  /\ wpc' = [wpc EXCEPT ![p] = "encoding"]
  /\ UNCHANGED <<ringVars, container, bc, run, mainVars, goExit, dataFreed, ctxFreed>>

\* Mutant of FinishEncoding: an error ends the thread instead of the iteration.
FinishEncodingBreak(p) ==
  /\ wpc[p] = "encoding"
  /\ wpc' = [wpc EXCEPT ![p] = "left"]
  /\ UNCHANGED <<ringVars, container, bc, run, mainVars, goExit, dataFreed, ctxFreed>>

\* The loop body ends, the control transmitted or dropped.
FinishEncoding(p) ==
  /\ wpc[p] = "encoding"
  /\ wpc' = [wpc EXCEPT ![p] = "ready"]
  /\ UNCHANGED <<ringVars, container, bc, run, mainVars, goExit, dataFreed, ctxFreed>>

---------------------------------------------------------------------------
Main ==
  \/ LoopTop
  \/ FetchNothing
  \/ \E p \in PhyIds : Fetch(p)
  \/ Handle
  \/ FreeData
  \/ StopWorker
  \/ JoinWorker

Worker(p) ==
  \/ PopNow(p)
  \/ StartWait(p)
  \/ WaitPops(p)
  \/ Leave(p)
  \/ StartEncoding(p)
  \/ FinishEncoding(p)

\* The process has ended.
Terminated == mpc = "done" /\ UNCHANGED vars

Next == Main \/ SigInt \/ (\E p \in Phys : Worker(p)) \/ Terminated

Spec == Init /\ [][Next]_vars

\* Every thread that can take a step is scheduled again; the timed wait ends by
\* itself, so it needs no signal.  Nothing obliges SIGINT or the MAC.
Fairness == WF_vars(Main) /\ \A p \in Phys : WF_vars(Worker(p))

FairSpec == Spec /\ Fairness

---------------------------------------------------------------------------
(* Properties.                                                             *)

TypeOK ==
  /\ accepted \in 0..MaxMsgs
  /\ cnt \in Slots
  /\ buf \in [Slots -> 0..MaxMsgs]
  /\ container \in [Phys -> Seq(Entry)]
  /\ bc \in [Phys -> Entry]
  /\ wpc \in [Phys -> WorkerStates]
  /\ run \in [Phys -> BOOLEAN]
  /\ mpc \in MainStates
  /\ mmsg \in Entry
  /\ mphy \in PhyIds
  /\ stopPhy \in Phys
  /\ goExit \in BOOLEAN
  /\ dataFreed \in BOOLEAN
  /\ ctxFreed \in [Phys -> BOOLEAN]

\* The control e points to the data the MAC sent with it.
Intact(e) == buf[e.slot] = e.id

\* Fewer messages than the ring has buffers were parsed since e was.
NotLapped(e) == accepted - e.id < NumBuffers

InUse(p) == wpc[p] \in {"popped", "encoding"}

\* A control in a container points to its own data until the MAC has sent as
\* many further messages as the ring has buffers, for whatever PHY
\* (user_data_buffer_cnt wraps over data that a slow Tx thread still needs).
QueuedFresh ==
  \A p \in Phys : \A i \in 1..Len(container[p]) :
    NotLapped(container[p][i]) => Intact(container[p][i])

\* The same of the control a Tx thread is encoding, which no longer occupies a
\* slot of the container, and of the one the main thread is about to push.
InFlightFresh ==
  /\ \A p \in Phys : InUse(p) /\ NotLapped(bc[p]) => Intact(bc[p])
  /\ mpc = "parsed" => Intact(mmsg)

RingFresh == QueuedFresh /\ InFlightFresh

\* The controls of a PHY are queued in the order the MAC sent them, all newer
\* than the one its Tx thread popped last, and never more than the circular
\* buffer holds.
InOrder ==
  \A p \in Phys :
    /\ Len(container[p]) <= Capacity
    /\ \A i \in 1..Len(container[p]) : bc[p].id < container[p][i].id
    /\ \A i, j \in 1..Len(container[p]) :
         i < j => container[p][i].id < container[p][j].id

\* The context, container and mutexes of a PHY are gone only once its thread
\* has left, and while the main thread may still push none is gone.
NoFreedContext ==
  /\ \A p \in Phys : ctxFreed[p] => wpc[p] = "left"
  /\ mpc \in {"loop", "fetch", "parsed"} =>
       \A p \in Phys : ~ctxFreed[p] /\ wpc[p] # "left"

\* "After use, communicator handle MUST be freed" (trx.c:610): the buffers that
\* go with it are not freed while a Tx thread encodes what is in them.
FreedAfterUse == \A p \in Phys : wpc[p] = "encoding" => ~dataFreed

QueuedIds(p) == {container[p][i].id : i \in 1..Len(container[p])}

Stream == INSTANCE ControlStream WITH
  Ids <- 1..MaxMsgs,
  pending <- [p \in Phys |-> QueuedIds(p)],
  latest <- [p \in Phys |-> bc[p].id]

\* The circular buffers, the timed wait and the shutdown implement the stream
\* of controls ControlStream promises.
ImplementsStream == Stream!Spec

\* A control that was pushed does not stay queued for ever: the Tx thread takes
\* it, a newer one overwrites it, or the PHY is stopped.
EachControlLeaves ==
  \A p \in Phys, n \in 1..MaxMsgs :
    n \in QueuedIds(p) ~> n \notin QueuedIds(p)

\* After SIGINT every Tx thread is joined and the process ends, whatever the
\* threads were doing (trx.c main, phy_transmission_stop_thread).
ShutdownEnds == goExit ~> mpc = "done"

---------------------------------------------------------------------------
(* The inductive invariant behind RingFresh, InOrder and NoFreedContext.    *)

\* Messages parsed since buffer s was written last.
Age(s) == IF s < cnt THEN cnt - 1 - s ELSE cnt - 1 - s + NumBuffers

\* Until it is lapped, a control is as old as the buffer it points to.
Placed(e) == NotLapped(e) => Intact(e) /\ Age(e.slot) = accepted - e.id

AllPlaced ==
  /\ \A p \in Phys : \A i \in 1..Len(container[p]) : Placed(container[p][i])
  /\ \A p \in Phys : InUse(p) => Placed(bc[p])
  /\ mpc = "parsed" => Placed(mmsg)

\* No control is newer than the last message parsed, and the one the main
\* thread is about to push is newer than all others.
Numbered ==
  /\ \A p \in Phys : /\ bc[p].id <= accepted
                    /\ \A i \in 1..Len(container[p]) : container[p][i].id <= accepted
  /\ mpc = "parsed" =>
       /\ mmsg.id = accepted
       /\ \A p \in Phys : /\ bc[p].id < accepted
                         /\ \A i \in 1..Len(container[p]) : container[p][i].id < accepted

\* No thread is told to stop before the main thread has left its loop.
Running ==
  mpc \in {"loop", "fetch", "parsed", "exit"} =>
    \A p \in Phys : run[p] /\ ~ctxFreed[p] /\ wpc[p] # "left"

JoinedLeft == \A p \in Phys : ctxFreed[p] => wpc[p] = "left"

\* Until the ring laps a control its buffer is as many messages old as the
\* control; controls are numbered as they were parsed and queued in that order;
\* a thread leaves, and is freed, only after the main thread told it to.
PathInv == AllPlaced /\ Numbered /\ InOrder /\ Running /\ JoinedLeft
=============================================================================

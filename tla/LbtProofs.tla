----------------------------- MODULE LbtProofs -----------------------------
(***************************************************************************)
(* Proofs about Lbt for any number of PHYs that ask at any time: its       *)
(* types; that a burst is sent or dropped on its own procedure's verdict   *)
(* unless two requests met; that a wakeup is lost only to a thread that    *)
(* shares the condition variable.                                          *)
(***************************************************************************)
EXTENDS Lbt, TLAPS

---------------------------------------------------------------------------
(* Type correctness.                                                       *)

\* pthread_cond_signal wakes at most one waiter.
LEMMA SignalType ==
  ASSUME NEW tp \in [Phys -> TxPcs], SignalFrom(tp)
  PROVE  tpc' \in [Phys -> TxPcs]
BY DEF SignalFrom, TxPcs

\* The LBT thread and the Tx threads before the first request.
LEMMA InitType == Init => TypeOK
<1>1. 0 \in Phys /\ MaxBackoff \in 0 .. MaxBackoff /\ 0 \in 0 .. MaxRequests
  BY LbtAssumption DEF Phys
<1> QED BY <1>1 DEF Init, TypeOK, Events, LbtStates, LbtPcs, TxPcs, MainPcs

\* The sensing thread and the timer keep the types;
LEMMA LbtType ==
  ASSUME TypeOK, LbtThread \/ Expire
  PROVE  TypeOK'
<1> USE DEF TypeOK, Events, LbtStates, LbtPcs, txVars, mainVars
<1>1. CASE Measure
  <2>1. free' \in BOOLEAN
    BY <1>1, Zenon DEF Measure
  <2>2. /\ lpc' \in {"fsm", "uninit"}
        /\ UNCHANGED <<evt, drop, st, backoff, expired, toSet, after, txVars, verdict, mainVars>>
    BY <1>1 DEF Measure
  <2> QED BY <2>1, <2>2
<1>2. CASE NoRequest
  BY <1>2 DEF NoRequest
<1>3. CASE TakeRequest
  <2>1. backoff' \in 0 .. MaxBackoff
    BY <1>3, LbtAssumption DEF TakeRequest
  <2>3. drop' \in BOOLEAN /\ expired' \in BOOLEAN
    BY <1>3, Zenon DEF TakeRequest
  <2>2. /\ toSet' \in {"done", "busy"} /\ st' \in {"allow", "check"} /\ after' = "top"
        /\ lpc' = "set" /\ verdict' \in {"free", verdict}
    BY <1>3 DEF TakeRequest, Announce
  <2> QED BY <1>3, <2>1, <2>2, <2>3 DEF TakeRequest
<1>4. CASE CheckMedium
  <2>1. backoff' \in 0 .. MaxBackoff
    BY <1>4, LbtAssumption DEF CheckMedium
  <2> QED BY <1>4, <2>1 DEF CheckMedium, Announce
<1>5. CASE CheckTimeout
  BY <1>5 DEF CheckTimeout, Announce
<1>6. CASE Rearm
  BY <1>6 DEF Rearm, Announce
<1>7. CASE SetEvent
  BY <1>7 DEF SetEvent
<1>8. CASE SignalTx
  BY <1>8, SignalType DEF SignalTx
<1>9. CASE LastSignal
  BY <1>9, SignalType DEF LastSignal
<1>10. CASE Destroy
  BY <1>10 DEF Destroy
<1>11. CASE Expire
  BY <1>11 DEF Expire
<1> QED BY <1>1, <1>2, <1>3, <1>4, <1>5, <1>6, <1>7, <1>8, <1>9, <1>10, <1>11 DEF LbtThread

\* so do the Tx threads, whatever wakes them,
LEMMA TxType ==
  ASSUME TypeOK, NEW p \in Phys,
         TxProceeds(p) \/ Request(p) \/ SpuriousWake(p) \/ TxLeave(p)
  PROVE  TypeOK'
<1> USE DEF TypeOK, TxPcs, lbtVars, mainVars
<1>1. CASE SignalLbt(p)
  BY <1>1, SignalType DEF SignalLbt
<1>2. CASE LookAtEvent(p)
  BY <1>2 DEF LookAtEvent
<1>3. CASE Wake(p)
  BY <1>3 DEF Wake
<1>4. CASE Answer(p)
  BY <1>4 DEF Answer
<1>5. CASE Request(p)
  BY <1>5, LbtAssumption DEF Request, Events
<1>6. CASE SpuriousWake(p)
  BY <1>6 DEF SpuriousWake
<1>7. CASE TxLeave(p)
  BY <1>7 DEF TxLeave
<1> QED BY <1>1, <1>2, <1>3, <1>4, <1>5, <1>6, <1>7 DEF TxProceeds

\* and the shutdown.
LEMMA MainType ==
  ASSUME TypeOK, StopMonitor \/ Shutdown
  PROVE  TypeOK'
<1> USE DEF TypeOK, MainPcs, lbtVars, txVars
<1>1. CASE StopMonitor
  BY <1>1 DEF StopMonitor
<1>2. CASE JoinMonitor
  BY <1>2 DEF JoinMonitor
<1>3. CASE StopTx
  BY <1>3 DEF StopTx
<1>4. CASE JoinTx
  BY <1>4 DEF JoinTx
<1> QED BY <1>1, <1>2, <1>3, <1>4 DEF Shutdown

\* Every variable keeps its type; the countdown never goes below 0.
THEOREM TypeCorrect == Spec => []TypeOK
<1>1. TypeOK /\ [Next]_vars => TypeOK'
  <2>1. TypeOK /\ UNCHANGED vars => TypeOK'
    BY DEF TypeOK, vars, lbtVars, txVars, mainVars
  <2> QED BY <2>1, LbtType, TxType, MainType DEF Next
<1> QED BY <1>1, InitType, PTL DEF Spec

---------------------------------------------------------------------------
(* The procedure of a PHY that asked when the event was idle.              *)

\* The verdict a Tx thread is about to read is the one of its procedure.
Justified == verdict = IF drop THEN "timeout" ELSE "free"

\* Where the LBT thread is in the procedure when the event is ...
IdleEvent == st = "idle" /\ lpc # "set"

StartEvent ==
  \/ st = "idle" /\ lpc # "set"
  \/ st = "check" /\ lpc = "set" /\ toSet = "busy" /\ ~drop
  \/ st = "allow" /\ lpc = "set" /\ toSet = "done" /\ Justified

BusyEvent ==
  \/ st = "check" /\ lpc # "set" /\ ~drop
  \/ st = "allow" /\ lpc = "set" /\ toSet = "done" /\ Justified

DoneEvent ==
  /\ Justified
  /\ \/ st = "allow" /\ (lpc = "set" => toSet = "done")
     \/ st = "idle" /\ lpc = "set" /\ toSet = "idle"

\* Whoever asks, the event is idle only when the state machine is idle.
RestInv ==
  /\ evt = "idle" => IdleEvent
  /\ lpc = "set" /\ toSet = "idle" => st = "idle"
  /\ st = "idle" => lpc # "timeout" /\ (lpc \in {"set", "signal"} => after = "top")

\* The procedure of a PHY that is alone, from its START to its verdict.
ProcedureInv ==
  /\ RestInv
  /\ \A p \in alone :
       /\ evt = "start" => StartEvent
       /\ evt = "busy" => BusyEvent
       /\ evt = "done" => DoneEvent
       /\ evt = "idle" /\ tpc[p] \notin {"work", "left"} => Justified
       /\ tpc[p] = "answer" /\ runMon => evt \in {"done", "idle"}

\* Before the first request no procedure is under way.
LEMMA InitProcedure == Init => ProcedureInv
BY DEF Init, ProcedureInv, RestInv, IdleEvent

\* The steps of the LBT thread, whatever it finds.
LEMMA LbtProcedure ==
  ASSUME TypeOK, ProcedureInv, LbtThread \/ Expire
  PROVE  ProcedureInv'
<1> USE DEF ProcedureInv, RestInv, IdleEvent, StartEvent, BusyEvent, DoneEvent, Justified,
            txVars, mainVars, TypeOK, Events, LbtStates
<1>1. CASE Measure
  BY <1>1 DEF Measure
<1>2. CASE NoRequest
  BY <1>2 DEF NoRequest
<1>3. CASE TakeRequest
  BY <1>3 DEF TakeRequest, Announce
<1>4. CASE CheckMedium
  BY <1>4 DEF CheckMedium, Announce
<1>5. CASE CheckTimeout
  BY <1>5 DEF CheckTimeout, Announce
<1>6. CASE Rearm
  BY <1>6 DEF Rearm, Announce
<1>7. CASE SetEvent
  BY <1>7 DEF SetEvent
<1>8. CASE SignalTx
  BY <1>8 DEF SignalTx, SignalFrom
<1>9. CASE LastSignal
  BY <1>9 DEF LastSignal, SignalFrom
<1>10. CASE Destroy
  BY <1>10 DEF Destroy
<1>11. CASE Expire
  BY <1>11 DEF Expire
<1> QED BY <1>1, <1>2, <1>3, <1>4, <1>5, <1>6, <1>7, <1>8, <1>9, <1>10, <1>11 DEF LbtThread

\* The steps of a Tx thread: its own request begins a procedure or shares one,
\* the others leave the procedure of the PHY that is alone as it is.
LEMMA TxProcedure ==
  ASSUME TypeOK, ProcedureInv, NEW p \in Phys,
         TxProceeds(p) \/ Request(p) \/ SpuriousWake(p) \/ TxLeave(p)
  PROVE  ProcedureInv'
<1> USE DEF ProcedureInv, RestInv, IdleEvent, StartEvent, BusyEvent, DoneEvent, Justified,
            lbtVars, mainVars, TypeOK
<1>1. CASE SignalLbt(p)
  BY <1>1 DEF SignalLbt, SignalFrom
<1>2. CASE LookAtEvent(p)
  BY <1>2 DEF LookAtEvent, Answered
<1>3. CASE Wake(p)
  BY <1>3 DEF Wake
<1>4. CASE Answer(p)
  BY <1>4 DEF Answer
<1>5. CASE Request(p)
  BY <1>5 DEF Request
<1>6. CASE SpuriousWake(p)
  BY <1>6 DEF SpuriousWake
<1>7. CASE TxLeave(p)
  BY <1>7 DEF TxLeave
<1> QED BY <1>1, <1>2, <1>3, <1>4, <1>5, <1>6, <1>7 DEF TxProceeds

\* Every step of lbt.c stays within the procedure of a PHY that is alone.
LEMMA NextProcedure ==
  ASSUME TypeOK, ProcedureInv, [Next]_vars
  PROVE  ProcedureInv'
<1>1. CASE StopMonitor \/ Shutdown
  BY <1>1 DEF StopMonitor, Shutdown, JoinMonitor, StopTx, JoinTx, lbtVars, txVars,
     ProcedureInv, RestInv, IdleEvent, StartEvent, BusyEvent, DoneEvent, Justified
<1>2. CASE UNCHANGED vars
  BY <1>2 DEF vars, lbtVars, txVars, mainVars,
     ProcedureInv, RestInv, IdleEvent, StartEvent, BusyEvent, DoneEvent, Justified
<1> QED BY <1>1, <1>2, LbtProcedure, TxProcedure DEF Next

\* For any number of PHYs, whenever they ask and as long as the LBT thread runs: a
\* burst is sent only when its own procedure found the medium free, and dropped
\* only when that one timed out, unless its START met an event that was not idle or
\* was overtaken by another START before the verdict was read.
THEOREM VerdictIsItsOwn == Spec => AnswerJustified
<1>1. Spec => []ProcedureInv
  BY InitProcedure, NextProcedure, TypeCorrect, PTL DEF Spec
<1>2. TypeOK /\ ProcedureInv /\ [Next]_vars =>
        [\A p \in alone : Returns(p) /\ runMon =>
           verdict = IF drop THEN "timeout" ELSE "free"]_vars
  BY DEF TypeOK, ProcedureInv, DoneEvent, Justified, Returns
<1> QED BY <1>1, <1>2, TypeCorrect, PTL DEF Spec, AnswerJustified

---------------------------------------------------------------------------
(* No wakeup is lost to all of the Tx threads.                             *)

\* Somebody will still set an event that answers: a request that the LBT thread
\* finds when it is idle again, or a procedure it has begun and not ended.
UnderWay ==
  \/ evt = "start"
  \/ evt = "busy" /\ st = "check"
  \/ evt = "busy" /\ lpc = "set" /\ toSet = "done"

\* When every Tx thread waits although the event is one it would leave with, one of
\* them is about to be signalled; else there is a procedure to wait for.
NoLostWakeup ==
  (\A p \in Phys : tpc[p] = "wait") => IF Answered THEN lpc = "signal" ELSE UnderWay

\* BUSY is set and stays only while the state machine checks the medium, or is about
\* to set the event that ends the procedure.
BusyInv ==
  /\ evt = "busy" => UnderWay
  /\ lpc = "set" /\ toSet = "busy" => st = "check"

WakeupInv == BusyInv /\ NoLostWakeup

\* The steps of the LBT thread: what it sets it signals before anything else.
LEMMA LbtWakeup ==
  ASSUME TypeOK, WakeupInv, LbtThread \/ Expire
  PROVE  WakeupInv'
<1> USE DEF WakeupInv, BusyInv, NoLostWakeup, UnderWay, Answered, txVars, mainVars,
            TypeOK, Events
<1>1. CASE Measure
  BY <1>1 DEF Measure
<1>2. CASE NoRequest
  BY <1>2 DEF NoRequest
<1>3. CASE TakeRequest
  BY <1>3 DEF TakeRequest, Announce
<1>4. CASE CheckMedium
  BY <1>4 DEF CheckMedium, Announce
<1>5. CASE CheckTimeout
  BY <1>5 DEF CheckTimeout, Announce
<1>6. CASE Rearm
  BY <1>6 DEF Rearm, Announce
<1>7. CASE SetEvent
  BY <1>7 DEF SetEvent
<1>8. CASE SignalTx
  BY <1>8 DEF SignalTx, SignalFrom
<1>9. CASE LastSignal
  BY <1>9 DEF LastSignal, SignalFrom
<1>10. CASE Destroy
  BY <1>10 DEF Destroy
<1>11. CASE Expire
  BY <1>11 DEF Expire
<1> QED BY <1>1, <1>2, <1>3, <1>4, <1>5, <1>6, <1>7, <1>8, <1>9, <1>10, <1>11 DEF LbtThread

\* The steps of the Tx thread: it looks at the event and begins to wait in one
\* critical section, so no event is set in between.
LEMMA TxWakeup ==
  ASSUME TypeOK, WakeupInv, NEW p \in Phys,
         TxProceeds(p) \/ Request(p) \/ SpuriousWake(p) \/ TxLeave(p)
  PROVE  WakeupInv'
<1> USE DEF WakeupInv, BusyInv, NoLostWakeup, UnderWay, Answered, lbtVars, mainVars,
            TypeOK, Events
<1>1. CASE SignalLbt(p)
  BY <1>1 DEF SignalLbt, SignalFrom
<1>2. CASE LookAtEvent(p)
  BY <1>2 DEF LookAtEvent
<1>3. CASE Wake(p)
  BY <1>3 DEF Wake
<1>4. CASE Answer(p)
  BY <1>4 DEF Answer
<1>5. CASE Request(p)
  BY <1>5 DEF Request
<1>6. CASE SpuriousWake(p)
  BY <1>6 DEF SpuriousWake
<1>7. CASE TxLeave(p)
  BY <1>7 DEF TxLeave
<1> QED BY <1>1, <1>2, <1>3, <1>4, <1>5, <1>6, <1>7 DEF TxProceeds

\* However many PHYs ask, as fast as they may, and whatever the shutdown does: the
\* answer of lbt.c is never slept through by all of them, for they all wait only for
\* an event that is still to be set, or for the signal that follows one; with one
\* PHY, its Tx thread misses none.  RequestsAnswered rests on it.  Of several PHYs
\* one may stay asleep while another goes on: one signal serves them all.
THEOREM WakeupKept == Spec => []NoLostWakeup
<1>1. 0 \in Phys
  BY LbtAssumption DEF Phys
<1>2. Init => WakeupInv
  BY <1>1 DEF Init, WakeupInv, BusyInv, NoLostWakeup
<1>3. TypeOK /\ WakeupInv /\ [Next]_vars => WakeupInv'
  <2>1. TypeOK /\ WakeupInv /\ (StopMonitor \/ Shutdown) => WakeupInv'
    BY DEF StopMonitor, Shutdown, JoinMonitor, StopTx, JoinTx, lbtVars, txVars,
       WakeupInv, BusyInv, NoLostWakeup, UnderWay, Answered
  <2>2. WakeupInv /\ UNCHANGED vars => WakeupInv'
    BY DEF vars, lbtVars, txVars, mainVars,
       WakeupInv, BusyInv, NoLostWakeup, UnderWay, Answered
  <2> QED BY <2>1, <2>2, LbtWakeup, TxWakeup DEF Next
<1>4. WakeupInv => NoLostWakeup
  BY DEF WakeupInv
<1> QED BY <1>2, <1>3, <1>4, TypeCorrect, PTL DEF Spec
=============================================================================

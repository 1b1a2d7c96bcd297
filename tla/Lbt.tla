-------------------------------- MODULE Lbt --------------------------------
(***************************************************************************)
(* Listen before talk (srslte/lib/rf_monitor/lbt.c, built when             *)
(* ENABLE_LBT_FEATURE is 1): the sensing thread runs a state machine that  *)
(* the transmission threads start through one global event variable, its   *)
(* mutex and its condition variable, and whose verdict they read from one  *)
(* global flag.                                                            *)
(*                                                                         *)
(* A critical section of lbt_procedure_evt_mutex is one step, so is the    *)
(* pthread_cond_signal that follows it outside the lock.                   *)
(***************************************************************************)
EXTENDS Integers

CONSTANTS
  NofPhys,     \* PHYs whose Tx threads ask for the medium
  MaxBackoff,  \* maximum_backoff_period
  Immediate,   \* immediate_transmission
  MaxRequests  \* bound of the model: requests of each Tx thread

ASSUME LbtAssumption ==
  /\ NofPhys \in Nat \ {0}
  /\ MaxBackoff \in Nat
  /\ Immediate \in BOOLEAN
  /\ MaxRequests \in Nat

Phys == 0..(NofPhys - 1)

Events    == {"idle", "start", "busy", "done"}
LbtStates == {"idle", "check", "allow"}
LbtPcs    == {"top", "fsm", "set", "signal", "timeout", "uninit", "destroy", "ended"}
TxPcs     == {"work", "signal", "check", "wait", "woken", "answer", "left"}
MainPcs   == {"run", "joinLbt", "stopTx", "joinTx", "done"}

VARIABLES
  evt,      \* lbt_procedure_event
  drop,     \* lbt_drop_packet_flag
  st,       \* lbt_state
  backoff,  \* backoff
  free,     \* is_channel_free of this iteration
  expired,  \* lbt_timeout has passed since lbt_procedure_start
  lpc,      \* where the LBT thread is
  toSet,    \* the event it is about to set
  after,    \* where it goes on after the signal
  tpc,      \* where each Tx thread is in lbt_execute_procedure
  asked,    \* requests each Tx thread has made
  verdict,  \* what the procedure found since the last request
  alone,    \* history: the PHY that asked last, if the event was idle then
  runMon,   \* run_rf_monitor_thread
  runTx,    \* run_tx_encoding_thread
  mpc,      \* where the main thread is in the shutdown
  stopPhy   \* the PHY it is stopping

lbtVars  == <<st, backoff, free, expired, lpc, toSet, after>>
mainVars == <<runMon, runTx, mpc, stopPhy>>
txVars   == <<tpc, asked, alone>>
vars == <<evt, drop, lbtVars, txVars, verdict, mainVars>>

Init ==
  /\ evt = "idle"
  /\ drop = FALSE
  /\ st = "idle"
  /\ backoff = MaxBackoff
  /\ free = FALSE
  /\ expired = FALSE
  /\ lpc = "top"
  /\ toSet = "idle"
  /\ after = "top"
  /\ tpc = [p \in Phys |-> "work"]
  /\ asked = [p \in Phys |-> 0]
  /\ verdict = "none"
  /\ alone = {}
  /\ runMon = TRUE
  /\ runTx = [p \in Phys |-> TRUE]
  /\ mpc = "run"
  /\ stopPhy = 0

---------------------------------------------------------------------------
(* pthread_cond_signal: one of the waiting Tx threads, if any, is woken.   *)

\* The signal wakes one waiter of those that wait in tp.
SignalFrom(tp) ==
  \/ /\ \A p \in Phys : tp[p] # "wait"
     /\ tpc' = tp
  \/ \E p \in Phys : tp[p] = "wait" /\ tpc' = [tp EXCEPT ![p] = "woken"]

---------------------------------------------------------------------------
(* The LBT thread, lbt_work.                                               *)

\* while(run_rf_monitor_thread): samples are read and the channel measured.
Measure ==
  /\ lpc = "top"
  /\ IF runMon
     THEN lpc' = "fsm" /\ free' \in BOOLEAN
     ELSE lpc' = "uninit" /\ UNCHANGED free
  /\ UNCHANGED <<evt, drop, st, backoff, expired, toSet, after, txVars, verdict, mainVars>>

\* Go on to set_lbt_procedure_event(e), then to pc.
Announce(e, pc) == toSet' = e /\ after' = pc /\ lpc' = "set"

\* IDLE_ST without a request.
NoRequest ==
  /\ lpc = "fsm" /\ st = "idle" /\ evt # "start"
  /\ lpc' = "top"
  /\ UNCHANGED <<evt, drop, st, backoff, free, expired, toSet, after, txVars,
                 verdict, mainVars>>

\* Mutant of TakeRequest: the drop flag of the last procedure is kept.
TakeRequestKeepsDrop ==
  /\ lpc = "fsm" /\ st = "idle" /\ evt = "start"
  /\ IF free /\ Immediate
     THEN /\ st' = "allow"
          /\ Announce("done", "top")
          /\ verdict' = "free"
          /\ UNCHANGED <<backoff, expired>>
     ELSE /\ st' = "check"
          /\ Announce("busy", "top")
          /\ backoff' \in IF MaxBackoff > 0 THEN 0..(MaxBackoff - 1) ELSE {backoff}
          /\ expired' = FALSE
          /\ UNCHANGED verdict
  /\ UNCHANGED <<evt, drop, free, txVars, mainVars>>

\* IDLE_ST: a request; the drop flag is cleared, and the packet is allowed at
\* once or a random backoff is started.
TakeRequest ==
  /\ lpc = "fsm" /\ st = "idle" /\ evt = "start"
  /\ drop' = FALSE
  /\ IF free /\ Immediate
     THEN /\ st' = "allow"
          /\ Announce("done", "top")
          /\ verdict' = "free"
          /\ UNCHANGED <<backoff, expired>>
     ELSE /\ st' = "check"
          /\ Announce("busy", "top")
          /\ backoff' \in IF MaxBackoff > 0 THEN 0..(MaxBackoff - 1) ELSE {backoff}
          /\ expired' = FALSE
          /\ UNCHANGED verdict
  /\ UNCHANGED <<evt, free, txVars, mainVars>>

\* Mutant of CheckMedium: the countdown is tested after the decrement.
CheckMediumDecrementsFirst ==
  /\ lpc = "fsm" /\ st = "check"
  /\ backoff' = IF free THEN backoff - 1 ELSE backoff
  /\ IF free /\ backoff' = 0
     THEN st' = "allow" /\ Announce("done", "timeout") /\ verdict' = "free"
     ELSE lpc' = "timeout" /\ UNCHANGED <<st, toSet, after, verdict>>
  /\ UNCHANGED <<evt, drop, free, expired, txVars, mainVars>>

\* CHECK_MEDIUM_ST: a free channel counts the backoff down, and at 0 the
\* packet is allowed.  The timeout is looked at in any case.
CheckMedium ==
  /\ lpc = "fsm" /\ st = "check"
  /\ IF free /\ backoff = 0
     THEN st' = "allow" /\ Announce("done", "timeout") /\ verdict' = "free" /\ UNCHANGED backoff
     ELSE /\ backoff' = IF free THEN backoff - 1 ELSE backoff
          /\ lpc' = "timeout"
          /\ UNCHANGED <<st, toSet, after, verdict>>
  /\ UNCHANGED <<evt, drop, free, expired, txVars, mainVars>>

\* The end of CHECK_MEDIUM_ST: the packet is dropped when the procedure has
\* lasted lbt_timeout.
CheckTimeout ==
  /\ lpc = "timeout"
  /\ IF expired
     THEN drop' = TRUE /\ st' = "allow" /\ Announce("done", "top") /\ verdict' = "timeout"
     ELSE lpc' = "top" /\ UNCHANGED <<drop, st, toSet, after, verdict>>
  /\ UNCHANGED <<evt, backoff, free, expired, txVars, mainVars>>

\* ALLOW_TX_ST
Rearm ==
  /\ lpc = "fsm" /\ st = "allow"
  /\ st' = "idle"
  /\ Announce("idle", "top")
  /\ UNCHANGED <<evt, drop, backoff, free, expired, txVars, verdict, mainVars>>

\* set_lbt_procedure_event, under the mutex.
SetEvent ==
  /\ lpc = "set"
  /\ evt' = toSet
  /\ lpc' = "signal"
  /\ UNCHANGED <<drop, st, backoff, free, expired, toSet, after, txVars, verdict, mainVars>>

\* Mutant of SignalTx: no signal is sent.
SignalTxLost ==
  /\ lpc = "signal"
  /\ lpc' = after
  /\ UNCHANGED <<evt, drop, st, backoff, free, expired, toSet, after, txVars,
                 verdict, mainVars>>

\* Its pthread_cond_signal.
SignalTx ==
  /\ lpc = "signal"
  /\ SignalFrom(tpc)
  /\ lpc' = after
  /\ UNCHANGED <<evt, drop, st, backoff, free, expired, toSet, after, asked, alone,
                 verdict, mainVars>>

\* lbt_uninitialize: one last signal.
LastSignal ==
  /\ lpc = "uninit"
  /\ SignalFrom(tpc)
  /\ lpc' = "destroy"
  /\ UNCHANGED <<evt, drop, st, backoff, free, expired, toSet, after, asked, alone,
                 verdict, mainVars>>

\* The mutex and the condition variable are destroyed.  A thread that still
\* waits makes this undefined: here the call returns and the thread stays.
Destroy ==
  /\ lpc = "destroy"
  /\ lpc' = "ended"
  /\ UNCHANGED <<evt, drop, st, backoff, free, expired, toSet, after, txVars,
                 verdict, mainVars>>

\* The clock reaches the timeout of a procedure that waits for the medium.
Expire ==
  /\ st = "check" /\ ~expired
  /\ expired' = TRUE
  /\ UNCHANGED <<evt, drop, st, backoff, free, lpc, toSet, after, txVars,
                 verdict, mainVars>>

---------------------------------------------------------------------------
(* A Tx thread at the first packet of a burst, lbt_execute_procedure.      *)

\* set_lbt_procedure_event(LBT_START_EVT), under the mutex.
Request(p) ==
  /\ tpc[p] = "work"
  /\ asked[p] < MaxRequests
  /\ evt' = "start"
  /\ asked' = [asked EXCEPT ![p] = @ + 1]
  /\ tpc' = [tpc EXCEPT ![p] = "signal"]
  /\ verdict' = "none"
  /\ alone' = IF evt = "idle" THEN {p} ELSE {}
  /\ UNCHANGED <<drop, lbtVars, mainVars>>

\* Its pthread_cond_signal, meant for the LBT thread, which never waits.
SignalLbt(p) ==
  /\ tpc[p] = "signal"
  /\ SignalFrom([tpc EXCEPT ![p] = "check"])
  /\ UNCHANGED <<evt, drop, lbtVars, asked, alone, verdict, mainVars>>

Answered == evt \in {"done", "idle"}

\* wait_lbt_to_be_done: the loop condition, under the mutex.  Once the mutex is
\* destroyed, pthread_cond_wait may also return at once.
LookAtEvent(p) ==
  /\ tpc[p] = "check"
  /\ \/ Answered /\ tpc' = [tpc EXCEPT ![p] = "answer"]
     \/ ~Answered /\ tpc' = [tpc EXCEPT ![p] = "wait"]
     \/ ~Answered /\ lpc = "ended" /\ tpc' = [tpc EXCEPT ![p] = "woken"]
  /\ UNCHANGED <<evt, drop, lbtVars, asked, alone, verdict, mainVars>>

\* pthread_cond_wait returns with the mutex: leave the loop when the LBT thread
\* was told to stop, else evaluate the condition again.
Wake(p) ==
  /\ tpc[p] = "woken"
  /\ tpc' = [tpc EXCEPT ![p] = IF ~runMon THEN "answer" ELSE "check"]
  /\ UNCHANGED <<evt, drop, lbtVars, asked, alone, verdict, mainVars>>

\* A spurious wakeup, which POSIX allows.
SpuriousWake(p) ==
  /\ tpc[p] = "wait"
  /\ tpc' = [tpc EXCEPT ![p] = "woken"]
  /\ UNCHANGED <<evt, drop, lbtVars, asked, alone, verdict, mainVars>>

\* return !lbt_drop_packet_flag; the burst is sent or dropped.
Answer(p) ==
  /\ tpc[p] = "answer"
  /\ tpc' = [tpc EXCEPT ![p] = "work"]
  /\ UNCHANGED <<evt, drop, lbtVars, asked, alone, verdict, mainVars>>

\* The loop of phy_transmission_work ends.
TxLeave(p) ==
  /\ tpc[p] = "work"
  /\ ~runTx[p]
  /\ tpc' = [tpc EXCEPT ![p] = "left"]
  /\ UNCHANGED <<evt, drop, lbtVars, asked, alone, verdict, mainVars>>

---------------------------------------------------------------------------
(* The shutdown of trx.c: rf_monitor_uninitialize, then the Tx threads.    *)

StopMonitor ==
  /\ mpc = "run"
  /\ runMon' = FALSE
  /\ mpc' = "joinLbt"
  /\ UNCHANGED <<evt, drop, lbtVars, txVars, verdict, runTx, stopPhy>>

JoinMonitor ==
  /\ mpc = "joinLbt"
  /\ lpc = "ended"
  /\ mpc' = "stopTx"
  /\ UNCHANGED <<evt, drop, lbtVars, txVars, verdict, runMon, runTx, stopPhy>>

StopTx ==
  /\ mpc = "stopTx"
  /\ runTx' = [runTx EXCEPT ![stopPhy] = FALSE]
  /\ mpc' = "joinTx"
  /\ UNCHANGED <<evt, drop, lbtVars, txVars, verdict, runMon, stopPhy>>

JoinTx ==
  /\ mpc = "joinTx"
  /\ tpc[stopPhy] = "left"
  /\ IF stopPhy + 1 \in Phys
     THEN mpc' = "stopTx" /\ stopPhy' = stopPhy + 1
     ELSE mpc' = "done" /\ UNCHANGED stopPhy
  /\ UNCHANGED <<evt, drop, lbtVars, txVars, verdict, runMon, runTx>>

---------------------------------------------------------------------------
LbtThread ==
  \/ Measure \/ NoRequest \/ TakeRequest \/ CheckMedium \/ CheckTimeout
  \/ Rearm \/ SetEvent \/ SignalTx \/ LastSignal \/ Destroy

\* The steps of lbt_execute_procedure once it was called.
TxProceeds(p) == SignalLbt(p) \/ LookAtEvent(p) \/ Wake(p) \/ Answer(p)

Shutdown == JoinMonitor \/ StopTx \/ JoinTx

Next ==
  \/ LbtThread \/ Expire
  \/ \E p \in Phys : TxProceeds(p) \/ Request(p) \/ SpuriousWake(p) \/ TxLeave(p)
  \/ StopMonitor \/ Shutdown

Spec == Init /\ [][Next]_vars

\* The threads are scheduled and time passes; nothing obliges a Tx thread to
\* ask, the channel to become free, or the operator to stop the program.
Fairness ==
  /\ WF_vars(LbtThread) /\ WF_vars(Expire) /\ WF_vars(Shutdown)
  /\ \A p \in Phys : WF_vars(TxProceeds(p)) /\ WF_vars(TxLeave(p))

FairSpec == Spec /\ Fairness

---------------------------------------------------------------------------
(* Properties.                                                             *)

TypeOK ==
  /\ evt \in Events /\ toSet \in Events
  /\ drop \in BOOLEAN /\ free \in BOOLEAN /\ expired \in BOOLEAN
  /\ st \in LbtStates
  /\ backoff \in 0..MaxBackoff
  /\ lpc \in LbtPcs /\ after \in {"top", "timeout"}
  /\ tpc \in [Phys -> TxPcs]
  /\ asked \in [Phys -> 0..MaxRequests]
  /\ verdict \in {"none", "free", "timeout"}
  /\ alone \subseteq Phys
  /\ runMon \in BOOLEAN /\ runTx \in [Phys -> BOOLEAN]
  /\ mpc \in MainPcs /\ stopPhy \in Phys

Returns(p) == tpc[p] = "answer" /\ tpc'[p] = "work"

\* "When it returns true it means packet can be sent, otherwise, when it
\* returns false packet must be dropped" (lbt.c:361): as long as the LBT thread
\* runs, a burst is sent only when the procedure started for it found the
\* medium free, and dropped only when that procedure timed out, unless its START
\* met an event that was not idle, or another START came before the verdict was
\* read from the flag (278, 371): nothing else mixes the procedures of two PHYs.
AnswerJustified ==
  [][\A p \in alone : Returns(p) /\ runMon =>
       verdict = IF drop THEN "timeout" ELSE "free"]_vars

\* The same of every answer (lbt.c:361), whatever its START met.
EveryAnswerJustified ==
  [][\A p \in Phys : Returns(p) /\ runMon =>
       verdict = IF drop THEN "timeout" ELSE "free"]_vars

Waiting(p) == tpc[p] \in {"signal", "check", "wait", "woken"}

\* "Wait until LBT event is equal to DONE or IDLE, meaning the LBT procedure has
\* finished up running" (lbt.c:344): when all Tx threads wait for the medium, one
\* of them gets its answer, or the program stops.  More cannot be said of several
\* PHYs: they share one condition variable, and pthread_cond_signal wakes one.
RequestsAnswered ==
  (\A p \in Phys : Waiting(p)) ~> (\E p \in Phys : ~Waiting(p)) \/ ~runMon

\* The same of each Tx thread (lbt.c:344), when there are several.
EachRequestAnswered == \A p \in Phys : Waiting(p) ~> ~Waiting(p) \/ ~runMon

\* "We don not need to wait anymore as thread has been stopped" (lbt.c:352):
\* stopping the sensing thread lets every Tx thread go, so the shutdown ends.
ShutdownEnds == ~runMon ~> mpc = "done"
=============================================================================

---------------------------- MODULE Communicator ----------------------------
(***************************************************************************)
(* The message path of one node: the communicator (LayerCommunicator,      *)
(* CommManager, SafeQueue, communicator_wrapper) and the message loop of   *)
(* trx.c that drains it.  A receiver thread per peer sorts what comes from *)
(* its socket into two queues; the main thread alternates between them; a  *)
(* sending thread takes the reports of the PHY threads to the MAC.  On     *)
(* exit the main thread takes the communicator down before the PHY         *)
(* threads.                                                                *)
(*                                                                         *)
(* A message is its kind and the number of its sender.  ZeroMQ delivers    *)
(* what it took, in order, and refuses when its pipe is full.  The         *)
(* contents of environment.json are a version number.  A peer tagged       *)
(* RF_MON, whose messages all go to the low queue, is not among the        *)
(* targets trx.c connects.                                                 *)
(***************************************************************************)
EXTENDS Integers, Sequences, FiniteSetsExt

CONSTANTS
  Targets,   \* sequence of the peers, in the order of m_threads
  Mac, Env,  \* the one that sends controls, and the one that updates the file
  Hwm,       \* messages the pipe to a peer takes
  Trials,    \* attempts of CommManager::send
  Quotas     \* bound of the model: numbers of messages of the MAC, of new
             \* versions of environment.json and of reports of the PHY threads,
             \* and the kinds of messages the MAC sends besides controls

\* A basic control the parser takes or refuses, an announcement of a new version
\* of the file or of none, another kind filter knows, a kind it does not know
\* (externalAImessage), and a message without payload.
Kinds == {"control", "refused", "set", "noUpdate", "other", "unknown", "unset"}

ASSUME CommAssumption ==
  /\ Targets \in {<<Mac>>, <<Mac, Env>>} /\ Mac # Env
  /\ Hwm \in Nat \ {0} /\ Trials \in Nat \ {0}
  /\ Quotas \subseteq [mac : Nat, env : Nat, out : Nat,
                      noise : SUBSET (Kinds \ {"control", "set"})]

Ids == 1 .. Max({q.mac : q \in Quotas} \cup {q.out : q \in Quotas})
Peers == {Targets[i] : i \in DOMAIN Targets}
Message == [kind : Kinds, id : Nat]
Nothing == [kind |-> "nothing", id |-> 0]

\* environment_t: the flag environment_updated and what was read from the file.
Broken == 0
NoUpdate == [updated |-> FALSE, version |-> Broken]
Garbage == [updated |-> TRUE, version |-> -1]
Updates == [updated : BOOLEAN, version : Int]

VARIABLES
  quota,     \* the member of Quotas in force
  wire,      \* messages on the way from each peer
  sent,      \* messages the MAC has sent
  asked,     \* history: those that are controls
  file,      \* version in environment.json, Broken while it is written
  version,   \* the last version written
  rx,        \* where each receiver thread is
  mgr,       \* CommManager of each peer: "up", "stopped" or "deleted"
  low, high, \* m_low_receive and m_high_receive
  main,      \* where the main thread is
  update,    \* env_update of main, not initialized at first
  control,   \* the message main is about to relay, 0 when there is none
  holds,     \* the message last written to basic_ctrl, 0 before the first
  handled,   \* history of the messages for which basic_ctrl was relayed
  told,      \* history of its contents: whose they were, by message
  applied,   \* the environment the PHYs were told
  goExit,    \* go_exit
  running,   \* m_running
  next,      \* the peer terminate_communicator has come to
  sendQ,     \* m_send
  tx,        \* where the sending thread is
  report,    \* the report it is sending
  trial,     \* trial_cnt
  pipe,      \* messages on the way to the MAC
  got,       \* history of the reports the MAC received
  pushed,    \* reports pushed so far
  dropped,   \* history of the reports given up
  freed,     \* the communicator was deleted
  waits      \* history: how many controls may still be popped before each
             \* version that waits in the high queue

inVars   == <<quota, wire, sent, asked, file, version>>
mainVars == <<main, update, control, holds, handled, told, applied>>
stopVars == <<goExit, running, next, freed>>
outVars  == <<sendQ, tx, report, trial, pipe, got, pushed, dropped>>
vars == <<inVars, rx, mgr, low, high, mainVars, stopVars, outVars, waits>>

\* communicator_initialization and the start of the PHYs are over; the PHYs
\* got the version of the file that was there.
Init ==
  /\ quota \in Quotas
  /\ wire = [p \in Peers |-> <<>>] /\ sent = 0 /\ asked = {}
  /\ file = 1 /\ version = 1
  /\ rx = [p \in Peers |-> "check"] /\ mgr = [p \in Peers |-> "up"]
  /\ low = <<>> /\ high = <<>>
  /\ main = "high" /\ update \in {NoUpdate, Garbage} /\ control = 0
  /\ holds = 0 /\ handled = <<>> /\ told = {} /\ applied = 1
  /\ goExit = FALSE /\ running = TRUE /\ next = 1 /\ freed = FALSE
  /\ sendQ = <<>> /\ tx = "check" /\ report = 0 /\ trial = 0
  /\ pipe = <<>> /\ got = <<>> /\ pushed = 0 /\ dropped = {}
  /\ waits = [v \in 2 .. quota.env + 1 |-> 0]

-----------------------------------------------------------------------------
(* The peers.                                                              *)

MacSends ==
  /\ sent < quota.mac /\ sent' = sent + 1
  /\ \E k \in quota.noise \cup {"control"} :
       /\ wire' = [wire EXCEPT ![Mac] = Append(@, [kind |-> k, id |-> sent + 1])]
       /\ asked' = IF k = "control" THEN asked \cup {sent + 1} ELSE asked
  /\ UNCHANGED <<quota, file, version, rx, mgr, low, high, mainVars, stopVars,
                 outVars, waits>>

\* A new version is written, then announced.
EnvWrites ==
  /\ Env \in Peers /\ file # Broken /\ version <= quota.env
  /\ file' = Broken /\ version' = version + 1
  /\ UNCHANGED <<quota, wire, sent, asked, rx, mgr, low, high, mainVars, stopVars, outVars,
                 waits>>

EnvAnnounces ==
  /\ file = Broken
  /\ file' = version
  /\ wire' = [wire EXCEPT ![Env] = Append(@, [kind |-> "set", id |-> version])]
  /\ UNCHANGED <<quota, sent, asked, version, rx, mgr, low, high, mainVars, stopVars, outVars,
                 waits>>

MacReceives ==
  /\ pipe # <<>>
  /\ got' = Append(got, Head(pipe)) /\ pipe' = Tail(pipe)
  /\ UNCHANGED <<inVars, rx, mgr, low, high, mainVars, stopVars, sendQ, tx,
                 report, trial, pushed, dropped, waits>>

-----------------------------------------------------------------------------
(* The receiver threads.                                                   *)

\* Mutant of ReceiverChecks: m_running is not looked at.
ReceiverChecksForever(p) ==
  /\ rx[p] = "check"
  /\ rx' = [rx EXCEPT ![p] = "poll"]
  /\ UNCHANGED <<inVars, mgr, low, high, mainVars, stopVars, outVars, waits>>

ReceiverChecks(p) ==
  /\ rx[p] = "check"
  /\ rx' = [rx EXCEPT ![p] = IF running THEN "poll" ELSE "left"]
  /\ UNCHANGED <<inVars, mgr, low, high, mainVars, stopVars, outVars, waits>>

\* Mutant of Filter: kSet falls to the default.
FilterSetLow(m) ==
  CASE m.kind = "unset" -> "none"
    [] m.kind \in {"noUpdate", "other"} -> "high"
    [] m.kind \in {"set", "control", "refused", "unknown"} -> "low"

\* filter, for the peers trx.c connects; its default is the low queue.
Filter(m) ==
  CASE m.kind = "unset" -> "none"
    [] m.kind \in {"set", "noUpdate", "other"} -> "high"
    [] m.kind \in {"control", "refused", "unknown"} -> "low"

\* CommManager::receive with its time limit, filter and push.
Receive(p) ==
  /\ rx[p] = "poll"
  /\ rx' = [rx EXCEPT ![p] = "check"]
  /\ IF wire[p] = <<>>
     THEN UNCHANGED <<wire, low, high, waits>>
     ELSE LET m == Head(wire[p]) IN
          /\ wire' = [wire EXCEPT ![p] = Tail(@)]
          /\ low' = IF Filter(m) = "low" THEN Append(low, m) ELSE low
          /\ high' = IF Filter(m) = "high" THEN Append(high, m) ELSE high
          /\ waits' = IF m.kind = "set"
                      THEN [waits EXCEPT ![m.id] = Len(high) + 1]
                      ELSE waits
  /\ UNCHANGED <<quota, sent, asked, file, version, mgr, mainVars, stopVars, outVars>>

-----------------------------------------------------------------------------
(* The main thread: the loop of trx.c.                                     *)

Signal ==
  /\ ~goExit /\ goExit' = TRUE
  /\ UNCHANGED <<inVars, rx, mgr, low, high, mainVars, running, next, freed,
                 outVars, waits>>

\* parse_received_message on a message of the high queue: any but kSet leaves
\* env_update as it is, and succeeds.
Parsed(m) ==
  CASE m.kind = "set" /\ file # Broken -> [updated |-> TRUE, version |-> file]
    [] m.kind = "set" /\ file = Broken -> [update EXCEPT !.updated = FALSE]
    [] m.kind = "noUpdate" -> [update EXCEPT !.updated = FALSE]
    [] m.kind = "other" -> update

\* Mutant of PopHigh: the high queue is served when the low queue is empty.
PopHighLast ==
  /\ main = "high" /\ ~goExit
  /\ IF high = <<>> \/ low # <<>>
     THEN main' = "low" /\ UNCHANGED <<high, update>>
     ELSE high' = Tail(high) /\ update' = Parsed(Head(high)) /\ main' = "apply"
  /\ UNCHANGED <<inVars, rx, mgr, low, control, holds, handled, told, applied, stopVars,
                 outVars, waits>>

PopHigh ==
  /\ main = "high" /\ ~goExit
  /\ IF high = <<>>
     THEN main' = "low" /\ UNCHANGED <<high, update>>
     ELSE high' = Tail(high) /\ update' = Parsed(Head(high)) /\ main' = "apply"
  /\ UNCHANGED <<inVars, rx, mgr, low, control, holds, handled, told, applied, stopVars,
                 outVars, waits>>

\* trx_handle_update_env_messages, unless SIGINT came meanwhile.
Apply ==
  /\ main = "apply" /\ main' = "low"
  /\ applied' = IF ~goExit /\ update.updated THEN update.version ELSE applied
  /\ UNCHANGED <<inVars, rx, mgr, low, high, update, control, holds, handled, told, stopVars,
                 outVars, waits>>

\* Mutant of PopLow: the last message of the queue is left.
PopLowLeavesOne ==
  /\ main = "low"
  /\ IF Len(low) <= 1
     THEN main' = "high" /\ UNCHANGED <<low, control, holds, waits>>
     ELSE /\ low' = Tail(low)
          /\ holds' = IF Head(low).kind = "unknown" THEN holds ELSE Head(low).id
          /\ IF Head(low).kind = "refused"
             THEN main' = "high" /\ UNCHANGED control
             ELSE main' = "relay" /\ control' = Head(low).id
          /\ waits' = [v \in DOMAIN waits |->
                         IF [kind |-> "set", id |-> v] \in Range(high)
                         THEN waits[v] - 1 ELSE waits[v]]
  /\ UNCHANGED <<inVars, rx, mgr, high, update, handled, told, applied, stopVars,
                 outVars>>

\* Mutant of PopLow: what parse_received_message returns is not looked at.
PopLowIgnoresResult ==
  /\ main = "low"
  /\ IF low = <<>>
     THEN main' = "high" /\ UNCHANGED <<low, control, holds, waits>>
     ELSE /\ low' = Tail(low)
          /\ holds' = IF Head(low).kind = "unknown" THEN holds ELSE Head(low).id
          /\ main' = "relay" /\ control' = Head(low).id
          /\ waits' = [v \in DOMAIN waits |->
                         IF [kind |-> "set", id |-> v] \in Range(high)
                         THEN waits[v] - 1 ELSE waits[v]]
  /\ UNCHANGED <<inVars, rx, mgr, high, update, handled, told, applied, stopVars,
                 outVars>>

\* communicator_get_low_queue_wait_for: a message that is there when the wait
\* ends is popped and parsed into basic_ctrl.  One the parser refuses is not
\* handled, but was written in part; one of a kind it does not know succeeds
\* and leaves basic_ctrl as it was.
PopLow ==
  /\ main = "low"
  /\ IF low = <<>>
     THEN main' = "high" /\ UNCHANGED <<low, control, holds, waits>>
     ELSE /\ low' = Tail(low)
          /\ holds' = IF Head(low).kind = "unknown" THEN holds ELSE Head(low).id
          /\ IF Head(low).kind = "refused"
             THEN main' = "high" /\ UNCHANGED control
             ELSE main' = "relay" /\ control' = Head(low).id
          /\ waits' = [v \in DOMAIN waits |->
                         IF [kind |-> "set", id |-> v] \in Range(high)
                         THEN waits[v] - 1 ELSE waits[v]]
  /\ UNCHANGED <<inVars, rx, mgr, high, update, handled, told, applied, stopVars,
                 outVars>>

\* trx_handle_mac_messages with basic_ctrl, unless SIGINT came meanwhile.
Relay ==
  /\ main = "relay" /\ main' = "high"
  /\ IF goExit
     THEN UNCHANGED <<handled, told>>
     ELSE /\ handled' = Append(handled, control)
          /\ told' = told \cup {[by |-> control, of |-> holds]}
  /\ control' = 0
  /\ UNCHANGED <<inVars, rx, mgr, low, high, update, holds, applied, stopVars, outVars,
                 waits>>

-----------------------------------------------------------------------------
(* The main thread: terminate_communicator, then the PHYs.                 *)

\* The loop condition of main.
StopRunning ==
  /\ main = "high" /\ goExit
  /\ running' = FALSE /\ main' = "joinReceiver"
  /\ UNCHANGED <<inVars, rx, mgr, low, high, update, control, holds, handled, told, applied,
                 goExit, next, freed, outVars, waits>>

JoinReceiver ==
  /\ main = "joinReceiver" /\ rx[Targets[next]] = "left"
  /\ mgr' = [mgr EXCEPT ![Targets[next]] = "stopped"]
  /\ main' = "deleteManager"
  /\ UNCHANGED <<inVars, rx, low, high, update, control, holds, handled, told, applied,
                 stopVars, outVars, waits>>

\* The destructor of CommManager: with a linger of 0, what the pipe still
\* holds is lost.
DeleteManager ==
  /\ main = "deleteManager"
  /\ mgr' = [mgr EXCEPT ![Targets[next]] = "deleted"]
  /\ pipe' = IF Targets[next] = Mac THEN <<>> ELSE pipe
  /\ IF next < Len(Targets)
     THEN next' = next + 1 /\ main' = "joinReceiver"
     ELSE UNCHANGED next /\ main' = "joinSender"
  /\ UNCHANGED <<inVars, rx, low, high, update, control, holds, handled, told, applied,
                 goExit, running, freed, sendQ, tx, report, trial, got, pushed,
                 dropped, waits>>

\* The end of ~LayerCommunicator and of communicator_free.
JoinSender ==
  /\ main = "joinSender" /\ tx = "left"
  /\ freed' = TRUE /\ main' = "stopPhys"
  /\ sendQ' = <<>> /\ low' = <<>> /\ high' = <<>>
  /\ UNCHANGED <<inVars, rx, mgr, update, control, holds, handled, told, applied, goExit,
                 running, next, tx, report, trial, pipe, got, pushed, dropped,
                 waits>>

StopPhys ==
  /\ main = "stopPhys" /\ main' = "ended"
  /\ UNCHANGED <<inVars, rx, mgr, low, high, update, control, holds, handled, told, applied,
                 stopVars, outVars, waits>>

-----------------------------------------------------------------------------
(* Reports: the PHY threads and the sending thread.                        *)

PhysRun == main \notin {"ended", "crashed"}

\* communicator_send_phy_stat_message to the first target.
Report ==
  /\ PhysRun /\ ~freed /\ pushed < quota.out
  /\ pushed' = pushed + 1 /\ sendQ' = Append(sendQ, pushed + 1)
  /\ UNCHANGED <<inVars, rx, mgr, low, high, mainVars, stopVars, tx, report,
                 trial, pipe, got, dropped, waits>>

SenderChecks ==
  /\ tx = "check"
  /\ tx' = IF running THEN "wait" ELSE "left"
  /\ UNCHANGED <<inVars, rx, mgr, low, high, mainVars, stopVars, sendQ, report,
                 trial, pipe, got, pushed, dropped, waits>>

\* pop_wait_for with its time limit.
SenderPops ==
  /\ tx = "wait"
  /\ IF sendQ = <<>>
     THEN tx' = "check" /\ UNCHANGED <<sendQ, report, trial>>
     ELSE tx' = "send" /\ report' = Head(sendQ) /\ sendQ' = Tail(sendQ)
          /\ trial' = 0
  /\ UNCHANGED <<inVars, rx, mgr, low, high, mainVars, stopVars, pipe, got,
                 pushed, dropped, waits>>

\* Mutant of SendOnce: the pipe takes one message too many.
SendOneMore ==
  /\ tx = "send" /\ mgr[Mac] # "deleted"
  /\ IF Len(pipe) <= Hwm
     THEN /\ pipe' = Append(pipe, report) /\ tx' = "check" /\ report' = 0
          /\ UNCHANGED <<trial, dropped>>
     ELSE /\ trial' = trial + 1
          /\ IF mgr[Mac] = "up" /\ trial + 1 < Trials
             THEN UNCHANGED <<tx, report, dropped>>
             ELSE tx' = "check" /\ report' = 0
                  /\ dropped' = dropped \cup {report}
          /\ UNCHANGED pipe
  /\ UNCHANGED <<inVars, rx, mgr, low, high, mainVars, stopVars, sendQ, got,
                 pushed, waits>>

\* One round of CommManager::send.
SendOnce ==
  /\ tx = "send" /\ mgr[Mac] # "deleted"
  /\ IF Len(pipe) < Hwm
     THEN /\ pipe' = Append(pipe, report) /\ tx' = "check" /\ report' = 0
          /\ UNCHANGED <<trial, dropped>>
     ELSE /\ trial' = trial + 1
          /\ IF mgr[Mac] = "up" /\ trial + 1 < Trials
             THEN UNCHANGED <<tx, report, dropped>>
             ELSE tx' = "check" /\ report' = 0
                  /\ dropped' = dropped \cup {report}
          /\ UNCHANGED pipe
  /\ UNCHANGED <<inVars, rx, mgr, low, high, mainVars, stopVars, sendQ, got,
                 pushed, waits>>

\* What is deleted is used: the program crashes, or the call has no effect.
UseAfterFree == main' \in {main, "crashed"}

SendDeleted ==
  /\ tx = "send" /\ mgr[Mac] = "deleted" /\ UseAfterFree
  /\ tx' = "check" /\ report' = 0 /\ dropped' = dropped \cup {report}
  /\ UNCHANGED <<inVars, rx, mgr, low, high, update, control, holds, handled, told, applied,
                 stopVars, sendQ, trial, pipe, got, pushed, waits>>

ReportFreed ==
  /\ PhysRun /\ freed /\ pushed < quota.out /\ UseAfterFree
  /\ pushed' = pushed + 1 /\ dropped' = dropped \cup {pushed + 1}
  /\ UNCHANGED <<inVars, rx, mgr, low, high, update, control, holds, handled, told, applied,
                 stopVars, sendQ, tx, report, trial, pipe, got, waits>>

-----------------------------------------------------------------------------
Alive == main # "crashed"

Receiver(p) == Alive /\ (ReceiverChecks(p) \/ Receive(p))
Main == PopHigh \/ Apply \/ PopLow \/ Relay \/ StopRunning
          \/ JoinReceiver \/ DeleteManager \/ JoinSender \/ StopPhys
Sender == Alive /\ (SenderChecks \/ SenderPops \/ SendOnce \/ SendDeleted)

Next ==
  \/ MacSends \/ EnvWrites \/ EnvAnnounces \/ MacReceives
  \/ \E p \in Peers : Receiver(p)
  \/ Signal \/ Main \/ Report \/ ReportFreed \/ Sender

Spec == Init /\ [][Next]_vars

\* The threads of the node are scheduled, and every wait of theirs is timed.
\* Nothing obliges a peer, not even to receive.
FairSpec ==
  /\ Spec
  /\ \A p \in Peers : WF_vars(Receiver(p))
  /\ WF_vars(Main) /\ WF_vars(Sender)

-----------------------------------------------------------------------------
InOK ==
  /\ quota \in Quotas /\ wire \in [Peers -> Seq(Message)]
  /\ sent \in 0 .. quota.mac /\ asked \subseteq 1 .. sent
  /\ version \in 1 .. quota.env + 1 /\ file \in {Broken, version}

MainOK ==
  /\ main \in {"high", "apply", "low", "relay", "joinReceiver",
               "deleteManager", "joinSender", "stopPhys", "ended", "crashed"}
  /\ update \in Updates /\ {control, holds} \subseteq 0 .. sent
  /\ handled \in Seq(1 .. sent) /\ told \subseteq [by : 1 .. sent, of : 0 .. sent]
  /\ applied \in -1 .. version

NodeOK ==
  /\ rx \in [Peers -> {"check", "poll", "left"}]
  /\ mgr \in [Peers -> {"up", "stopped", "deleted"}]
  /\ low \in Seq(Message) /\ high \in Seq(Message)
  /\ {goExit, running, freed} \subseteq BOOLEAN /\ next \in DOMAIN Targets
  /\ waits \in [2 .. quota.env + 1 -> Int]

OutOK ==
  /\ tx \in {"check", "wait", "send", "left"}
  /\ report \in 0 .. pushed /\ trial \in 0 .. Trials
  /\ sendQ \in Seq(1 .. pushed) /\ got \in Seq(1 .. pushed)
  /\ pipe \in Seq(1 .. pushed) /\ Len(pipe) <= Hwm
  /\ pushed \in 0 .. quota.out /\ dropped \subseteq 1 .. pushed

TypeOK == InOK /\ MainOK /\ NodeOK /\ OutOK

OneOf(x) == IF x = 0 THEN <<>> ELSE <<x>>
Rising(s) == \A i, j \in DOMAIN s : i < j => s[i] < s[j]
Announced(ms) == \E i \in DOMAIN ms : ms[i].kind = "set"
Numbers(ms) == [i \in DOMAIN ms |-> ms[i].id]
IdsOf(ms, kind) == {ms[i].id : i \in {j \in DOMAIN ms : ms[j].kind = kind}}

(* The messages of the MAC are relayed in the order they were sent, each   *)
(* at most once, across socket, receiver thread, queue and main loop, and  *)
(* until SIGINT no control is missing: each is handled, in hand, queued or *)
(* on the way.                                                             *)
ControlsInOrder ==
  LET done == handled \o OneOf(control)
      way  == low \o wire[Mac]
  IN /\ Rising(done \o Numbers(way))
     /\ ~goExit => asked \subseteq Range(done) \cup IdsOf(way, "control")

(* basic_ctrl is one variable for all of them, and not cleared in between: *)
(* a control is relayed with its own contents, whatever was parsed or      *)
(* refused before it; only a message of an unknown kind relays what an     *)
(* earlier message left there, and never what an earlier control left when *)
(* a later one was parsed.                                                 *)
ControlsOwnContents ==
  \A r \in told :
    IF r.by \in asked
    THEN r.of = r.by
    ELSE r.of < r.by /\ \A c \in asked : c < r.by => c <= r.of

(* Reports reach the MAC once and in the order the PHY threads made them;  *)
(* while its CommManager is there, one is missing only if it was given up. *)
ReportsInOrder ==
  LET way == got \o pipe \o OneOf(report) \o sendQ
  IN /\ Rising(way) /\ Range(way) \cap dropped = {}
     /\ mgr[Mac] # "deleted" => Range(way) \cup dropped = 1 .. pushed

(* No message overtakes another of its kind or is lost unnoticed, in       *)
(* either direction, and the PHYs are told a control again only by a later *)
(* message of a kind the parser does not know.                             *)
MessagesInOrder == ControlsInOrder /\ ControlsOwnContents /\ ReportsInOrder

(* A burst of controls does not hold up an environment update: behind k    *)
(* messages in the high queue it waits for at most k + 1 messages of the   *)
(* low queue.                                                              *)
EnvPrompt == \A v \in DOMAIN waits : waits[v] >= 0

(* When every announced version was handled, the PHYs have the one in the  *)
(* file, although a message may be parsed while the file is being written  *)
(* or after it was written again, and other messages repeat env_update.    *)
EnvCurrent ==
  ~goExit /\ main # "apply" /\ file # Broken /\ version > 1
    /\ (\A p \in Peers : ~Announced(wire[p])) /\ ~Announced(high)
  => applied = file

(* Every control the MAC asks for is handled, unless the node is stopped:  *)
(* no message is left in a queue by a lost wake-up.                        *)
ControlsHandled ==
  \A i \in Ids : i \in asked ~> i \in Range(handled) \/ goExit

(* A report does not stay in the node: it is sent or given up, even when   *)
(* the MAC does not receive.                                               *)
ReportsLeave ==
  \A i \in Ids :
    i \in Range(sendQ) ~> i \in Range(pipe \o got) \cup dropped \/ goExit

(* No message stays in a queue of the node for good.                       *)
MessagesLeave == ControlsHandled /\ ReportsLeave

(* After SIGINT the program comes to its end.                              *)
ShutdownEnds == goExit ~> main \in {"ended", "crashed"}

-----------------------------------------------------------------------------
(* What comments say and the code does not keep.                           *)

(* "After use, communicator handle MUST be freed": nobody uses it after.   *)
FreedAfterUse ==
  /\ tx = "send" => mgr[Mac] # "deleted"
  /\ freed => ~PhysRun

(* "If message is properly retrieved and parsed, then relay it" (trx.c     *)
(* 592): what is relayed is the message that was popped.                   *)
RelaysParsed == \A r \in told : r.of = r.by

(* "Check if environment has really changed": the PHYs are only told what  *)
(* was read from the file.                                                 *)
EnvReal == applied # Garbage.version
=============================================================================

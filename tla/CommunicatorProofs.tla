------------------------- MODULE CommunicatorProofs -------------------------
(***************************************************************************)
(* Proofs about Communicator for one or both peers, any capacity of the    *)
(* pipe, any number of trials and of messages.                             *)
(***************************************************************************)
EXTENDS Communicator, SequenceTheorems, TLAPS

---------------------------------------------------------------------------
(* The inductive invariants.                                               *)

\* What a peer may have sent, and which messages each queue takes.
PeerMsgs(p, k) ==
  {m \in Message : IF p = Mac THEN m.kind # "set" /\ m.id \in 1 .. k ELSE m.kind = "set"}
LowMsgs(k) ==
  {m \in Message : m.kind \in {"control", "refused", "unknown"} /\ m.id \in 1 .. k}
HighMsgs == {m \in Message : m.kind \in {"set", "noUpdate", "other"}}

QueuesInv ==
  /\ \A p \in Peers : wire[p] \in Seq(PeerMsgs(p, sent))
  /\ low \in Seq(LowMsgs(sent)) /\ high \in Seq(HighMsgs)

\* What each thread holds, and how far terminate_communicator has come.
PhaseInv ==
  /\ main = "relay" => control # 0
  /\ control # 0 => main \in {"relay", "crashed"}
  /\ update.version \in -1 .. version
  /\ file = Broken => Env \in Peers
  /\ tx = "send" <=> report # 0
  /\ tx = "send" => trial < Trials
  /\ main \notin {"high", "apply", "low", "relay", "crashed"} => goExit
  /\ main \in {"high", "apply", "low", "relay"} => next = 1 /\ mgr[Mac] = "up"
  /\ main = "joinReceiver" =>
       \/ next = 1 /\ mgr[Mac] = "up"
       \/ next # 1 /\ mgr[Mac] = "deleted"
  /\ main = "deleteManager" =>
       \/ next = 1 /\ mgr[Mac] = "stopped"
       \/ next # 1 /\ mgr[Mac] = "deleted"
  /\ main = "joinSender" \/ freed => mgr[Mac] = "deleted"
  /\ freed => main \in {"stopPhys", "ended", "crashed"}

TypeInv == TypeOK /\ QueuesInv /\ PhaseInv

Under(A, B) == \A a \in A, b \in B : a < b

\* The messages of the MAC, from those handled to those on the way.
ControlInv ==
  LET hand == {control} \ {0}
      lows == Range(Numbers(low))
      way  == Range(Numbers(wire[Mac]))
  IN /\ Rising(handled) /\ Rising(Numbers(low)) /\ Rising(Numbers(wire[Mac]))
     /\ Under(Range(handled), hand) /\ Under(Range(handled), lows)
     /\ Under(Range(handled), way) /\ Under(hand, lows) /\ Under(hand, way)
     /\ Under(lows, way)
     /\ ~goExit => asked \subseteq Range(handled) \cup hand \cup IdsOf(low, "control")
                                     \cup IdsOf(wire[Mac], "control")

\* What basic_ctrl holds: the last control popped or what was refused after it,
\* until the messages in the low queue and on the way are parsed.
Looping == main \in {"high", "apply", "low", "relay"}

HoldsInv ==
  /\ IdsOf(low, "control") = Range(Numbers(low)) \cap asked
  /\ IdsOf(wire[Mac], "control") = Range(Numbers(wire[Mac])) \cap asked
  /\ Under({holds}, Range(Numbers(low))) /\ Under({holds}, Range(Numbers(wire[Mac])))
  /\ Looping => \A c \in asked : \/ c <= holds
                                 \/ c \in IdsOf(low, "control") \cup IdsOf(wire[Mac], "control")
  /\ control # 0 => IF control \in asked
                    THEN holds = control
                    ELSE holds < control /\ \A c \in asked : c < control => c <= holds
  /\ ControlsOwnContents

\* The reports, from those received to those that wait.
ReportInv ==
  LET hand == {report} \ {0}
      all  == Range(got) \cup Range(pipe) \cup hand \cup Range(sendQ)
  IN /\ Rising(got) /\ Rising(pipe) /\ Rising(sendQ)
     /\ Under(Range(got), Range(pipe)) /\ Under(Range(got), hand)
     /\ Under(Range(got), Range(sendQ)) /\ Under(Range(pipe), hand)
     /\ Under(Range(pipe), Range(sendQ)) /\ Under(hand, Range(sendQ))
     /\ all \cap dropped = {}
     /\ mgr[Mac] # "deleted" => all \cup dropped = 1 .. pushed

\* A version that is i-th in the high queue may wait for i messages of the low
\* queue, or i - 1 when the high queue is looked at next.
PromptInv ==
  /\ \A v \in DOMAIN waits : waits[v] >= 0
  /\ \A v \in DOMAIN waits, i \in DOMAIN high :
       high[i] = [kind |-> "set", id |-> v] =>
         waits[v] >= IF main \in {"apply", "low"} THEN i ELSE i - 1

\* When no version is announced and unhandled, env_update is of the file.
CurrentInv ==
  ~goExit /\ file # Broken /\ version > 1
    /\ (\A p \in Peers : ~Announced(wire[p])) /\ ~Announced(high)
  => /\ update.updated => update.version = file
     /\ main # "apply" \/ ~update.updated => applied = file

---------------------------------------------------------------------------
(* Queues.                                                                 *)

\* A sequence of numbers is one of the larger set; so is what a queue takes.
LEMMA SeqGrows ==
  ASSUME NEW a \in Int, NEW b \in Int, a <= b
  PROVE  /\ \A s \in Seq(1 .. a) : s \in Seq(1 .. b)
         /\ \A s \in Seq(LowMsgs(a)) : s \in Seq(LowMsgs(b))
         /\ \A p \in Peers : \A s \in Seq(PeerMsgs(p, a)) : s \in Seq(PeerMsgs(p, b))
<1>1. 1 .. a \subseteq 1 .. b
  OBVIOUS
<1>2. LowMsgs(a) \subseteq LowMsgs(b) /\ \A p \in Peers : PeerMsgs(p, a) \subseteq PeerMsgs(p, b)
  BY <1>1 DEF LowMsgs, PeerMsgs
<1> QED BY <1>1, <1>2, SeqMonotonic

\* One peer or two, the MAC first.
LEMMA PeersValue ==
  /\ Mac \in Peers /\ Mac # Env /\ Targets[1] = Mac
  /\ Len(Targets) \in {1, 2} /\ DOMAIN Targets = 1 .. Len(Targets)
  /\ \A i \in DOMAIN Targets : Targets[i] = IF i = 1 THEN Mac ELSE Env
  /\ \A i \in DOMAIN Targets : Targets[i] \in Peers
BY CommAssumption DEF Peers

\* The bounds of an instance are numbers.
LEMMA QuotaType ==
  ASSUME TypeOK
  PROVE  /\ quota.mac \in Nat /\ quota.env \in Nat /\ quota.out \in Nat
         /\ \A k \in quota.noise \cup {"control"} : k \in Kinds /\ k # "set"
         /\ sent \in Nat /\ version \in Nat \ {0} /\ pushed \in Nat
<1>1. /\ quota.mac \in Nat /\ quota.env \in Nat /\ quota.out \in Nat
      /\ quota.noise \subseteq Kinds \ {"control", "set"}
  BY CommAssumption DEF TypeOK, InOK
<1>2. "control" \in Kinds /\ "control" # "set"
  BY DEF Kinds
<1> QED BY <1>1, <1>2 DEF TypeOK, InOK, MainOK, NodeOK, OutOK

\* What a receiver thread takes from its socket.
LEMMA HeadOfWire ==
  ASSUME QueuesInv, NEW p \in Peers, wire[p] # <<>>
  PROVE  LET m == Head(wire[p])
         IN /\ m \in PeerMsgs(p, sent) /\ Tail(wire[p]) \in Seq(PeerMsgs(p, sent))
            /\ Filter(m) = "low" => m \in LowMsgs(sent) /\ p = Mac
            /\ Filter(m) = "high" => m \in HighMsgs
            /\ m.kind = "control" => Filter(m) = "low"
            /\ m.kind = "set" => Filter(m) = "high"
<1> DEFINE m == Head(wire[p])
<1>1. m \in PeerMsgs(p, sent) /\ Tail(wire[p]) \in Seq(PeerMsgs(p, sent))
  BY HeadTailProperties DEF QueuesInv
<1>2. m \in Message /\ m.kind \in Kinds
  BY <1>1 DEF PeerMsgs, Message
<1>3. Filter(m) = "low" <=> m.kind \in {"control", "refused", "unknown"}
  BY <1>2 DEF Filter, Kinds
<1>4. Filter(m) = "high" <=> m.kind \in {"set", "noUpdate", "other"}
  BY <1>2 DEF Filter, Kinds
<1>5. Filter(m) = "low" => m \in LowMsgs(sent) /\ p = Mac
  BY <1>1, <1>3 DEF PeerMsgs, LowMsgs
<1>6. Filter(m) = "high" => m \in HighMsgs
  BY <1>2, <1>4 DEF HighMsgs
<1> QED BY <1>1, <1>3, <1>4, <1>5, <1>6

\* Every queue keeps taking only the messages its receiver puts there.
LEMMA NextQueues ==
  ASSUME TypeOK, QueuesInv, PhaseInv, [Next]_vars
  PROVE  QueuesInv'
<1>1. CASE UNCHANGED <<wire, sent, low, high>>
  BY <1>1 DEF QueuesInv
<1>2. CASE MacSends
  <2>1. PICK k \in quota.noise \cup {"control"} :
          wire' = [wire EXCEPT ![Mac] = Append(@, [kind |-> k, id |-> sent + 1])]
    BY <1>2 DEF MacSends
  <2>2. sent \in Nat /\ sent' = sent + 1 /\ UNCHANGED <<low, high>>
    BY <1>2, QuotaType DEF MacSends
  <2>3. [kind |-> k, id |-> sent + 1] \in PeerMsgs(Mac, sent')
    BY <2>2, QuotaType DEF PeerMsgs, Message
  <2>4. \A p \in Peers : wire[p] \in Seq(PeerMsgs(p, sent'))
    BY <2>2, SeqGrows DEF QueuesInv
  <2>5. DOMAIN wire = Peers
    BY DEF TypeOK, InOK
  <2>6. \A p \in Peers : wire'[p] \in Seq(PeerMsgs(p, sent'))
    <3> DEFINE e == [kind |-> k, id |-> sent + 1]
    <3>1. /\ wire'[Mac] = Append(wire[Mac], e)
          /\ \A p \in Peers : p # Mac => wire'[p] = wire[p]
      BY <2>1, <2>5, PeersValue
    <3>2. e \in PeerMsgs(Mac, sent')
      BY <2>3
    <3> HIDE DEF e
    <3>3. wire[Mac] \in Seq(PeerMsgs(Mac, sent'))
      BY <2>4, PeersValue
    <3>4. Append(wire[Mac], e) \in Seq(PeerMsgs(Mac, sent'))
      BY <3>2, <3>3, AppendProperties
    <3> QED BY <2>4, <3>1, <3>4
  <2>7. low \in Seq(LowMsgs(sent'))
    BY <2>2, SeqGrows DEF QueuesInv
  <2> QED BY <2>2, <2>6, <2>7 DEF QueuesInv
<1>3. CASE EnvAnnounces
  <2>1. /\ wire' = [wire EXCEPT ![Env] = Append(@, [kind |-> "set", id |-> version])]
        /\ UNCHANGED <<sent, low, high>> /\ DOMAIN wire = Peers
    BY <1>3 DEF EnvAnnounces, TypeOK, InOK
  <2>2. [kind |-> "set", id |-> version] \in PeerMsgs(Env, sent)
    BY QuotaType, PeersValue DEF PeerMsgs, Message, Kinds
  <2>3. \A p \in Peers : wire'[p] \in Seq(PeerMsgs(p, sent))
    BY <2>1, <2>2, AppendProperties DEF QueuesInv
  <2> QED BY <2>1, <2>3 DEF QueuesInv
<1>4. ASSUME NEW p \in Peers, Receive(p), wire[p] # <<>>
      PROVE  QueuesInv'
  <2> DEFINE m == Head(wire[p])
  <2>1. /\ wire' = [wire EXCEPT ![p] = Tail(@)]
        /\ low' = IF Filter(m) = "low" THEN Append(low, m) ELSE low
        /\ high' = IF Filter(m) = "high" THEN Append(high, m) ELSE high
        /\ UNCHANGED sent /\ DOMAIN wire = Peers
    BY <1>4 DEF Receive, TypeOK, InOK
  <2>2. /\ Tail(wire[p]) \in Seq(PeerMsgs(p, sent))
        /\ Filter(m) = "low" => m \in LowMsgs(sent)
        /\ Filter(m) = "high" => m \in HighMsgs
    BY <1>4, HeadOfWire
  <2> HIDE DEF m
  <2>3. low' \in Seq(LowMsgs(sent)) /\ high' \in Seq(HighMsgs)
    BY <2>1, <2>2, AppendProperties DEF QueuesInv
  <2>4. \A q \in Peers : wire'[q] \in Seq(PeerMsgs(q, sent))
    BY <2>1, <2>2 DEF QueuesInv
  <2> QED BY <2>1, <2>3, <2>4 DEF QueuesInv
<1>5. ASSUME NEW p \in Peers, Receive(p), wire[p] = <<>>
      PROVE  QueuesInv'
  BY <1>1, <1>5 DEF Receive
<1>6. CASE PopHigh \/ PopLow \/ JoinSender
  <2>1. /\ UNCHANGED <<wire, sent>>
        /\ low' \in {low, <<>>} \/ (low # <<>> /\ low' = Tail(low))
        /\ high' \in {high, <<>>} \/ (high # <<>> /\ high' = Tail(high))
    BY <1>6 DEF PopHigh, PopLow, JoinSender, inVars
  <2>2. low' \in Seq(LowMsgs(sent)) /\ high' \in Seq(HighMsgs)
    BY <2>1, HeadTailProperties, EmptySeq DEF QueuesInv
  <2> QED BY <2>1, <2>2 DEF QueuesInv
<1>7. CASE EnvWrites \/ MacReceives \/ Signal \/ Apply \/ Relay \/ StopRunning
             \/ JoinReceiver \/ DeleteManager \/ StopPhys
  BY <1>1, <1>7 DEF EnvWrites, MacReceives, Signal, Apply, Relay, StopRunning,
     JoinReceiver, DeleteManager, StopPhys, inVars
<1>8. CASE Report \/ ReportFreed \/ Sender
  BY <1>1, <1>8 DEF Report, ReportFreed, Sender, SenderChecks, SenderPops, SendOnce,
     SendDeleted, inVars
<1>9. ASSUME NEW p \in Peers, ReceiverChecks(p)
      PROVE  QueuesInv'
  BY <1>1, <1>9 DEF ReceiverChecks, inVars
<1>10. CASE UNCHANGED vars
  BY <1>1, <1>10 DEF vars, inVars
<1> QED BY <1>2, <1>3, <1>4, <1>5, <1>6, <1>7, <1>8, <1>9, <1>10 DEF Next, Main, Receiver

---------------------------------------------------------------------------
(* Where the threads are.                                                  *)

\* What the parser makes of a message of the high queue.
LEMMA ParsedType ==
  ASSUME TypeOK, PhaseInv, NEW m \in HighMsgs
  PROVE  /\ Parsed(m) \in Updates /\ Parsed(m).version \in -1 .. version
         /\ m.kind # "set" => Parsed(m).version = update.version
         /\ m.kind # "set" /\ Parsed(m).updated => update.updated
         /\ m.kind = "set" /\ file # Broken => Parsed(m).version = file /\ Parsed(m).updated
<1>1. /\ update \in Updates /\ file \in {Broken, version} /\ update.version \in -1 .. version
      /\ version \in Nat \ {0}
  BY QuotaType DEF TypeOK, InOK, MainOK, PhaseInv
<1>2. CASE m.kind = "set" /\ file # Broken
  BY <1>1, <1>2 DEF Parsed, Updates, Broken
<1>3. CASE m.kind = "noUpdate" \/ (m.kind = "set" /\ file = Broken)
  <2>1. Parsed(m) = [update EXCEPT !.updated = FALSE]
    BY <1>3 DEF Parsed
  <2>2. Parsed(m) = [updated |-> FALSE, version |-> update.version]
    BY <1>1, <2>1 DEF Updates
  <2> QED BY <1>1, <1>3, <2>2 DEF Updates
<1>4. CASE m.kind = "other"
  BY <1>1, <1>4 DEF Parsed
<1> QED BY <1>2, <1>3, <1>4 DEF HighMsgs

\* The main thread goes through terminate_communicator in order, and what it
\* deleted stays deleted.
LEMMA NextPhase ==
  ASSUME TypeOK, QueuesInv, PhaseInv, [Next]_vars
  PROVE  PhaseInv'
<1>1. CASE UNCHANGED <<main, control, update, version, file, tx, report, trial, goExit, next,
                       mgr, freed>>
  BY <1>1 DEF PhaseInv
<1>2. CASE EnvWrites
  <2>1. /\ version' = version + 1 /\ Env \in Peers
        /\ UNCHANGED <<main, control, update, tx, report, trial, goExit, next, mgr, freed>>
    BY <1>2 DEF EnvWrites, mainVars, stopVars, outVars
  <2>2. update.version \in -1 .. version'
    BY <2>1, QuotaType DEF PhaseInv
  <2> QED BY <2>1, <2>2 DEF PhaseInv
<1>3. CASE EnvAnnounces
  BY <1>3 DEF EnvAnnounces, mainVars, stopVars, outVars, PhaseInv
<1>4. CASE Signal
  BY <1>4 DEF Signal, inVars, mainVars, outVars, PhaseInv
<1>5. CASE PopHigh
  <2>1. update' \in {update, Parsed(Head(high))} /\ (high = <<>> => update' = update)
    BY <1>5 DEF PopHigh
  <2>2. update'.version \in -1 .. version
    BY <2>1, ParsedType, HeadTailProperties DEF QueuesInv, PhaseInv
  <2>3. /\ main = "high" /\ main' \in {"low", "apply"}
        /\ UNCHANGED <<version, file, control, tx, report, trial, goExit, next, mgr, freed>>
    BY <1>5 DEF PopHigh, inVars, stopVars, outVars
  <2> QED BY <2>2, <2>3 DEF PhaseInv
<1>6. CASE PopLow
  <2>1. low # <<>> => Head(low).id # 0
    BY HeadTailProperties, QuotaType DEF QueuesInv, LowMsgs
  <2>2. /\ main = "low"
        /\ \/ main' = "relay" /\ control' # 0
           \/ main' = "high" /\ control' = control
        /\ UNCHANGED <<version, file, update, tx, report, trial, goExit, next, mgr, freed>>
    BY <1>6, <2>1 DEF PopLow, inVars, stopVars, outVars
  <2> QED BY <2>2 DEF PhaseInv
<1>7. CASE Apply \/ Relay
  BY <1>7 DEF Apply, Relay, inVars, stopVars, outVars, PhaseInv
<1>8. CASE StopRunning
  BY <1>8 DEF StopRunning, inVars, outVars, PhaseInv
<1>9. CASE JoinReceiver
  <2>1. Targets[next] = (IF next = 1 THEN Mac ELSE Env) /\ mgr \in [Peers -> {"up", "stopped", "deleted"}]
    BY PeersValue DEF TypeOK, NodeOK
  <2>2. /\ main' = "deleteManager" /\ main = "joinReceiver"
        /\ mgr' = [mgr EXCEPT ![Targets[next]] = "stopped"]
        /\ UNCHANGED <<version, file, update, control, tx, report, trial, goExit, next, freed>>
    BY <1>9 DEF JoinReceiver, inVars, stopVars, outVars
  <2> QED BY <2>1, <2>2, PeersValue DEF PhaseInv
<1>10. CASE DeleteManager
  <2>1. Targets[next] = (IF next = 1 THEN Mac ELSE Env) /\ mgr \in [Peers -> {"up", "stopped", "deleted"}]
    BY PeersValue DEF TypeOK, NodeOK
  <2>2. /\ main' \in {"joinReceiver", "joinSender"} /\ main = "deleteManager"
        /\ mgr' = [mgr EXCEPT ![Targets[next]] = "deleted"]
        /\ UNCHANGED <<version, file, update, control, tx, report, trial, goExit, freed>>
    BY <1>10 DEF DeleteManager, inVars
  <2>3. mgr'[Mac] = "deleted"
    BY <2>1, <2>2, PeersValue DEF PhaseInv
  <2>4. main' = "joinReceiver" => next' # 1
    <3>1. next \in 1 .. Len(Targets)
      BY PeersValue DEF TypeOK, NodeOK
    <3>2. main' = "joinReceiver" => next' = next + 1
      BY <1>10 DEF DeleteManager
    <3> QED BY <3>1, <3>2, PeersValue
  <2> QED BY <2>2, <2>3, <2>4 DEF PhaseInv
<1>11. CASE JoinSender \/ StopPhys
  BY <1>11 DEF JoinSender, StopPhys, inVars, stopVars, outVars, PhaseInv
<1>12. CASE SenderPops
  <2>1. sendQ # <<>> => Head(sendQ) # 0
    <3>1. sendQ \in Seq(1 .. pushed)
      BY DEF TypeOK, OutOK
    <3> QED BY <3>1, HeadTailProperties, QuotaType
  <2>2. 0 < Trials
    BY CommAssumption
  <2> QED BY <1>12, <2>1, <2>2 DEF SenderPops, inVars, mainVars, stopVars, PhaseInv
<1>13. CASE SenderChecks \/ SendOnce
  BY <1>13 DEF SenderChecks, SendOnce, inVars, mainVars, stopVars, PhaseInv
<1>14. CASE SendDeleted \/ ReportFreed
  BY <1>14 DEF SendDeleted, ReportFreed, UseAfterFree, inVars, stopVars, PhaseInv
<1>15. CASE MacReceives \/ Report
  BY <1>1, <1>15 DEF MacReceives, Report, inVars, mainVars, stopVars
<1>16. ASSUME NEW p \in Peers, Receiver(p)
       PROVE  PhaseInv'
  BY <1>1, <1>16 DEF Receiver, ReceiverChecks, Receive, inVars, mainVars, stopVars, outVars
<1>17. CASE MacSends
  BY <1>1, <1>17 DEF MacSends, mainVars, stopVars, outVars
<1>18. CASE UNCHANGED vars
  BY <1>1, <1>18 DEF vars, inVars, mainVars, stopVars, outVars
<1> QED
  BY <1>2, <1>3, <1>4, <1>5, <1>6, <1>7, <1>8, <1>9, <1>10, <1>11, <1>12, <1>13, <1>14,
     <1>15, <1>16, <1>17, <1>18 DEF Next, Main, Sender

---------------------------------------------------------------------------
(* Type correctness.                                                       *)

\* The parts of the type invariant: what arrives at the receivers,
LEMMA NextIn ==
  ASSUME TypeOK, [Next]_vars
  PROVE  InOK'
<1>0. InOK
  BY DEF TypeOK
<1>1. CASE UNCHANGED inVars
  BY <1>0, <1>1 DEF InOK, inVars
<1>2. CASE MacSends
  <2>1. PICK k \in quota.noise \cup {"control"} :
          /\ wire' = [wire EXCEPT ![Mac] = Append(@, [kind |-> k, id |-> sent + 1])]
          /\ asked' = IF k = "control" THEN asked \cup {sent + 1} ELSE asked
    BY <1>2 DEF MacSends
  <2>2. /\ sent' = sent + 1 /\ sent < quota.mac
        /\ UNCHANGED <<quota, file, version>>
    BY <1>2 DEF MacSends
  <2>3. sent' \in 0 .. quota.mac /\ asked' \subseteq 1 .. sent'
    BY <1>0, <2>1, <2>2, QuotaType DEF InOK
  <2>4. [kind |-> k, id |-> sent + 1] \in Message
    BY QuotaType DEF Message
  <2>5. wire' \in [Peers -> Seq(Message)]
    BY <1>0, <2>1, <2>4, AppendProperties DEF InOK
  <2> QED BY <1>0, <2>2, <2>3, <2>5 DEF InOK
<1>3. CASE EnvWrites
  <2>1. version' \in 1 .. quota.env + 1 /\ file' = Broken
    BY <1>0, <1>3, QuotaType DEF EnvWrites, InOK
  <2> QED BY <1>0, <1>3, <2>1 DEF EnvWrites, InOK
<1>4. CASE EnvAnnounces
  <2>1. [kind |-> "set", id |-> version] \in Message
    BY QuotaType DEF Message, Kinds
  <2>2. wire' \in [Peers -> Seq(Message)]
    BY <1>0, <1>4, <2>1, AppendProperties DEF InOK, EnvAnnounces
  <2> QED BY <1>0, <1>4, <2>2 DEF EnvAnnounces, InOK
<1>5. ASSUME NEW p \in Peers, Receive(p), wire[p] # <<>>
      PROVE  InOK'
  <2>1. wire' = [wire EXCEPT ![p] = Tail(@)] /\ UNCHANGED <<quota, sent, asked, file, version>>
    BY <1>5 DEF Receive
  <2>2. wire' \in [Peers -> Seq(Message)]
    BY <1>0, <1>5, <2>1, HeadTailProperties DEF InOK
  <2> QED BY <1>0, <2>1, <2>2 DEF InOK
<1>6. ASSUME NEW p \in Peers, Receiver(p), ~(Receive(p) /\ wire[p] # <<>>)
      PROVE  InOK'
  BY <1>1, <1>6 DEF Receiver, ReceiverChecks, Receive, inVars
<1>7. CASE MacReceives \/ Signal \/ Main
  BY <1>1, <1>7 DEF MacReceives, Signal, Main, PopHigh, Apply, PopLow, Relay, StopRunning,
     JoinReceiver, DeleteManager, JoinSender, StopPhys
<1>8. CASE Report \/ ReportFreed \/ Sender
  BY <1>1, <1>8 DEF Report, ReportFreed, Sender, SenderChecks, SenderPops, SendOnce,
     SendDeleted
<1>9. CASE UNCHANGED vars
  BY <1>1, <1>9 DEF vars
<1> QED BY <1>2, <1>3, <1>4, <1>5, <1>6, <1>7, <1>8, <1>9 DEF Next, Receiver

\* the main thread,
LEMMA NextMain ==
  ASSUME TypeOK, QueuesInv, PhaseInv, [Next]_vars
  PROVE  MainOK'
<1>0. MainOK
  BY DEF TypeOK
<1>1. CASE UNCHANGED mainVars /\ sent' \in {sent, sent + 1} /\ version' \in {version, version + 1}
  <2>1. sent <= sent' /\ sent' \in Nat /\ version <= version' /\ version' \in Nat
    BY <1>1, QuotaType
  <2>2. /\ handled \in Seq(1 .. sent') /\ {control, holds} \subseteq 0 .. sent'
        /\ told \subseteq [by : 1 .. sent', of : 0 .. sent'] /\ applied \in -1 .. version'
    <3>1. 1 .. sent \subseteq 1 .. sent' /\ 0 .. sent \subseteq 0 .. sent'
      BY <2>1, QuotaType
    <3>2. [by : 1 .. sent, of : 0 .. sent] \subseteq [by : 1 .. sent', of : 0 .. sent']
      BY <3>1
    <3> QED BY <1>0, <2>1, <3>1, <3>2, SeqGrows, QuotaType DEF MainOK
  <2> QED BY <1>0, <1>1, <2>2 DEF MainOK, mainVars
<1>2. CASE MacSends \/ EnvWrites \/ EnvAnnounces \/ MacReceives \/ Signal
  BY <1>1, <1>2 DEF MacSends, EnvWrites, EnvAnnounces, MacReceives, Signal, inVars
<1>3. ASSUME NEW p \in Peers, Receiver(p)
      PROVE  MainOK'
  BY <1>1, <1>3 DEF Receiver, ReceiverChecks, Receive, inVars
<1>4. CASE PopHigh
  <2>1. high # <<>> => Parsed(Head(high)) \in Updates
    BY HeadTailProperties, ParsedType DEF QueuesInv
  <2> QED BY <1>0, <1>4, <2>1 DEF PopHigh, inVars, MainOK
<1>5. CASE Apply
  <2>1. applied' \in -1 .. version
    BY <1>0, <1>5 DEF Apply, MainOK, PhaseInv
  <2> QED BY <1>0, <1>5, <2>1 DEF Apply, inVars, MainOK
<1>6. CASE PopLow
  <2>1. low # <<>> => Head(low).id \in 0 .. sent
    BY HeadTailProperties, QuotaType DEF QueuesInv, LowMsgs
  <2>2. main' \in {"relay", "high"} /\ {control', holds'} \subseteq 0 .. sent
    BY <1>0, <1>6, <2>1 DEF PopLow, MainOK
  <2> QED BY <1>0, <1>6, <2>2 DEF PopLow, inVars, MainOK
<1>7. CASE Relay
  <2>1. control \in 1 .. sent
    BY <1>0, <1>7, QuotaType DEF Relay, PhaseInv, MainOK
  <2>2. handled' \in Seq(1 .. sent)
    <3> DEFINE S == 1 .. sent
    <3>1. handled' \in {handled, Append(handled, control)}
      BY <1>7 DEF Relay
    <3>2. handled \in Seq(S) /\ control \in S
      BY <1>0, <2>1 DEF MainOK
    <3> HIDE DEF S
    <3>3. Append(handled, control) \in Seq(S)
      BY <3>2, AppendProperties
    <3>4. handled' \in Seq(S)
      BY <3>1, <3>2, <3>3
    <3> QED BY <3>4 DEF S
  <2>3. {control', holds'} \subseteq 0 .. sent
    BY <1>0, <1>7, QuotaType DEF Relay, MainOK
  <2>4. told' \subseteq [by : 1 .. sent, of : 0 .. sent]
    <3>1. told' \subseteq told \cup {[by |-> control, of |-> holds]}
      BY <1>7 DEF Relay
    <3>2. [by |-> control, of |-> holds] \in [by : 1 .. sent, of : 0 .. sent]
      BY <1>0, <2>1 DEF MainOK
    <3> QED BY <1>0, <3>1, <3>2 DEF MainOK
  <2> QED BY <1>0, <1>7, <2>2, <2>3, <2>4 DEF Relay, inVars, MainOK
<1>8. CASE StopRunning \/ JoinReceiver \/ DeleteManager \/ JoinSender \/ StopPhys
  BY <1>0, <1>8 DEF StopRunning, JoinReceiver, DeleteManager, JoinSender, StopPhys, inVars, MainOK
<1>9. CASE Report \/ SenderChecks \/ SenderPops \/ SendOnce
  BY <1>1, <1>9 DEF Report, SenderChecks, SenderPops, SendOnce, inVars
<1>10. CASE SendDeleted \/ ReportFreed
  BY <1>0, <1>10 DEF SendDeleted, ReportFreed, UseAfterFree, inVars, MainOK
<1>11. CASE UNCHANGED vars
  BY <1>1, <1>11 DEF vars, inVars
<1> QED BY <1>2, <1>3, <1>4, <1>5, <1>6, <1>7, <1>8, <1>9, <1>10, <1>11 DEF Next, Main, Sender

\* the data of the node (environment.json, env_update, the counters),
LEMMA NextNode ==
  ASSUME TypeOK, QueuesInv, QueuesInv', [Next]_vars
  PROVE  NodeOK'
<1>0. /\ NodeOK /\ quota.env \in Nat
      /\ \A k \in Int : LowMsgs(k) \subseteq Message
      /\ HighMsgs \subseteq Message
  BY QuotaType DEF TypeOK, LowMsgs, HighMsgs
<1>1. low' \in Seq(Message) /\ high' \in Seq(Message)
  <2>1. LowMsgs(sent') \subseteq Message
    BY DEF LowMsgs
  <2> QED BY <1>0, <2>1, SeqMonotonic DEF QueuesInv
<1>2. {goExit', running', freed'} \subseteq BOOLEAN
  <2>1. /\ goExit' = goExit \/ goExit' = TRUE
        /\ running' = running \/ running' = FALSE
        /\ freed' = freed \/ freed' = TRUE
    BY Zenon DEF Next, MacSends, EnvWrites, EnvAnnounces, MacReceives, Receiver, ReceiverChecks,
       Receive, Signal, Main, PopHigh, Apply, PopLow, Relay, StopRunning, JoinReceiver,
       DeleteManager, JoinSender, StopPhys, Report, ReportFreed, Sender, SenderChecks,
       SenderPops, SendOnce, SendDeleted, vars, stopVars
  <2> QED BY <1>0, <2>1, Zenon DEF NodeOK
<1>3. CASE UNCHANGED <<rx, mgr, next, quota>> /\ waits' \in [2 .. quota.env + 1 -> Int]
  BY <1>0, <1>1, <1>2, <1>3 DEF NodeOK
<1>4. CASE UNCHANGED <<rx, mgr, next, quota, waits>>
  BY <1>0, <1>3, <1>4 DEF NodeOK
<1>5. CASE MacSends \/ EnvWrites \/ EnvAnnounces \/ MacReceives \/ Signal
  BY <1>4, <1>5 DEF MacSends, EnvWrites, EnvAnnounces, MacReceives, Signal, inVars, stopVars
<1>6. ASSUME NEW p \in Peers, Receiver(p)
      PROVE  NodeOK'
  <2>1. rx' \in [Peers -> {"check", "poll", "left"}]
    BY <1>0, <1>6 DEF Receiver, ReceiverChecks, Receive, NodeOK
  <2>2. Len(high) + 1 \in Int
    BY <1>0 DEF NodeOK
  <2>3. waits' = waits \/ \E v : waits' = [waits EXCEPT ![v] = Len(high) + 1]
    BY <1>6 DEF Receiver, ReceiverChecks, Receive
  <2>4. waits' \in [2 .. quota.env + 1 -> Int]
    BY <1>0, <2>2, <2>3 DEF NodeOK
  <2>5. UNCHANGED <<mgr, next, quota>>
    BY <1>6 DEF Receiver, ReceiverChecks, Receive, inVars, stopVars
  <2> QED BY <1>0, <1>1, <1>2, <2>1, <2>4, <2>5 DEF NodeOK
<1>7. CASE PopLow
  <2>1. waits' = waits \/
        waits' = [v \in DOMAIN waits |-> IF [kind |-> "set", id |-> v] \in Range(high)
                                         THEN waits[v] - 1 ELSE waits[v]]
    BY <1>7 DEF PopLow
  <2>2. waits' \in [2 .. quota.env + 1 -> Int]
    <3> DEFINE w(v) == IF [kind |-> "set", id |-> v] \in Range(high)
                       THEN waits[v] - 1 ELSE waits[v]
    <3>1. waits \in [2 .. quota.env + 1 -> Int]
      BY <1>0 DEF NodeOK
    <3>2. \A v \in 2 .. quota.env + 1 : w(v) \in Int
      BY <3>1
    <3>3. waits' \in {waits, [v \in 2 .. quota.env + 1 |-> w(v)]}
      BY <2>1, <3>1
    <3> HIDE DEF w
    <3> QED BY <3>1, <3>2, <3>3
  <2> QED BY <1>3, <1>7, <2>2 DEF PopLow, inVars, stopVars
<1>8. CASE JoinReceiver \/ DeleteManager
  <2>1. next' \in DOMAIN Targets /\ mgr' \in [Peers -> {"up", "stopped", "deleted"}]
    <3>1. /\ next \in DOMAIN Targets /\ mgr \in [Peers -> {"up", "stopped", "deleted"}]
          /\ DOMAIN Targets = 1 .. Len(Targets) /\ Len(Targets) \in {1, 2}
      BY <1>0, PeersValue DEF NodeOK
    <3>2. \/ next' = next
          \/ next < Len(Targets) /\ next' = next + 1
      BY <1>8 DEF JoinReceiver, DeleteManager, stopVars
    <3>3. \E s \in {"stopped", "deleted"} : mgr' = [mgr EXCEPT ![Targets[next]] = s]
      BY <1>8 DEF JoinReceiver, DeleteManager
    <3>4. next' \in DOMAIN Targets
      BY <3>1, <3>2
    <3> QED BY <3>1, <3>3, <3>4
  <2>2. UNCHANGED <<rx, quota, waits>>
    BY <1>8 DEF JoinReceiver, DeleteManager, inVars
  <2> QED BY <1>0, <1>1, <1>2, <2>1, <2>2 DEF NodeOK
<1>9. CASE PopHigh \/ Apply \/ Relay \/ StopRunning \/ JoinSender \/ StopPhys
  BY <1>4, <1>9 DEF PopHigh, Apply, Relay, StopRunning, JoinSender, StopPhys, inVars, stopVars
<1>10. CASE Report \/ ReportFreed \/ Sender
  BY <1>4, <1>10 DEF Report, ReportFreed, Sender, SenderChecks, SenderPops, SendOnce,
     SendDeleted, inVars, stopVars
<1>11. CASE UNCHANGED vars
  BY <1>4, <1>11 DEF vars, inVars, stopVars
<1> QED BY <1>5, <1>6, <1>7, <1>8, <1>9, <1>10, <1>11 DEF Next, Main

\* and the reports on their way to the MAC.
LEMMA NextOut ==
  ASSUME TypeOK, PhaseInv, [Next]_vars
  PROVE  OutOK'
<1>0. OutOK /\ pushed \in Nat /\ quota.out \in Nat /\ Trials \in Nat \ {0} /\ Hwm \in Nat
  BY QuotaType, CommAssumption DEF TypeOK
<1>1. CASE UNCHANGED <<outVars, quota>>
  BY <1>0, <1>1 DEF OutOK, outVars
<1>2. CASE MacSends \/ EnvWrites \/ EnvAnnounces \/ Signal
  BY <1>1, <1>2 DEF MacSends, EnvWrites, EnvAnnounces, Signal, inVars
<1>3. ASSUME NEW p \in Peers, Receiver(p)
      PROVE  OutOK'
  BY <1>1, <1>3 DEF Receiver, ReceiverChecks, Receive, inVars
<1>4. CASE MacReceives
  <2>1. got' \in Seq(1 .. pushed) /\ pipe' \in Seq(1 .. pushed) /\ Len(pipe') <= Hwm
    BY <1>0, <1>4, HeadTailProperties, AppendProperties DEF MacReceives, OutOK
  <2> QED BY <1>0, <1>4, <2>1 DEF MacReceives, inVars, OutOK
<1>5. CASE DeleteManager
  <2>1. pipe' \in Seq(1 .. pushed) /\ Len(pipe') <= Hwm
    <3>1. pipe' = pipe \/ pipe' = <<>>
      BY <1>5 DEF DeleteManager
    <3>2. pipe \in Seq(1 .. pushed) /\ Len(pipe) <= Hwm
      BY <1>0 DEF OutOK
    <3>3. <<>> \in Seq(1 .. pushed) /\ Len(<<>>) = 0
      OBVIOUS
    <3>4. Len(pipe') <= Hwm
      BY <1>0, <3>1, <3>2, <3>3
    <3>5. pipe' \in Seq(1 .. pushed)
      BY <3>1, <3>2, <3>3
    <3> QED BY <3>4, <3>5
  <2> QED BY <1>0, <1>5, <2>1 DEF DeleteManager, inVars, OutOK
<1>6. CASE JoinSender
  BY <1>0, <1>6 DEF JoinSender, inVars, OutOK
<1>7. CASE PopHigh \/ Apply \/ PopLow \/ Relay \/ StopRunning \/ JoinReceiver \/ StopPhys
  BY <1>1, <1>7 DEF PopHigh, Apply, PopLow, Relay, StopRunning, JoinReceiver, StopPhys, inVars
<1>8. CASE Report \/ ReportFreed
  <2>1. /\ pushed' = pushed + 1 /\ pushed < quota.out /\ quota' = quota
        /\ sendQ' \in {sendQ, Append(sendQ, pushed + 1)}
        /\ dropped' \in {dropped, dropped \cup {pushed + 1}}
        /\ UNCHANGED <<tx, report, trial, pipe, got>>
    BY <1>8 DEF Report, ReportFreed, inVars
  <2>2. /\ got \in Seq(1 .. pushed') /\ pipe \in Seq(1 .. pushed') /\ sendQ \in Seq(1 .. pushed')
        /\ report \in 0 .. pushed' /\ pushed' \in 0 .. quota.out
    BY <1>0, <2>1, SeqGrows DEF OutOK
  <2>3. sendQ' \in Seq(1 .. pushed') /\ dropped' \subseteq 1 .. pushed'
    <3>1. sendQ' \in Seq(1 .. pushed')
      <4> DEFINE S == 1 .. pushed'
      <4>1. pushed + 1 \in S /\ sendQ \in Seq(S)
        BY <1>0, <2>1, <2>2
      <4> HIDE DEF S
      <4>2. Append(sendQ, pushed + 1) \in Seq(S)
        BY <4>1, AppendProperties
      <4>3. sendQ' \in Seq(S)
        BY <2>1, <4>1, <4>2
      <4> QED BY <4>3 DEF S
    <3>2. dropped' \subseteq 1 .. pushed'
      BY <1>0, <2>1 DEF OutOK
    <3> QED BY <3>1, <3>2
  <2> QED BY <1>0, <2>1, <2>2, <2>3 DEF OutOK
<1>9. CASE SenderChecks
  BY <1>0, <1>9 DEF SenderChecks, inVars, OutOK
<1>10. CASE SenderPops
  <2>1. sendQ # <<>> => Head(sendQ) \in 0 .. pushed /\ Tail(sendQ) \in Seq(1 .. pushed)
    <3>1. sendQ \in Seq(1 .. pushed)
      BY <1>0 DEF OutOK
    <3>2. sendQ # <<>> => Head(sendQ) \in 1 .. pushed /\ Tail(sendQ) \in Seq(1 .. pushed)
      BY <3>1, HeadTailProperties
    <3> QED BY <1>0, <3>2
  <2>2. /\ tx' \in {"check", "send"} /\ trial' \in {trial, 0}
        /\ \/ UNCHANGED <<report, sendQ>>
           \/ sendQ # <<>> /\ report' = Head(sendQ) /\ sendQ' = Tail(sendQ)
        /\ UNCHANGED <<quota, pipe, got, pushed, dropped>>
    BY <1>10 DEF SenderPops, inVars
  <2>3. report' \in 0 .. pushed /\ sendQ' \in Seq(1 .. pushed) /\ trial' \in 0 .. Trials
    <3>1. report \in 0 .. pushed /\ sendQ \in Seq(1 .. pushed) /\ trial \in 0 .. Trials
      BY <1>0 DEF OutOK
    <3>2. 0 \in 0 .. Trials
      BY <1>0
    <3>3. trial' \in 0 .. Trials
      BY <2>2, <3>1, <3>2
    <3>4. report' \in 0 .. pushed /\ sendQ' \in Seq(1 .. pushed)
      BY <2>1, <2>2, <3>1
    <3> QED BY <3>3, <3>4
  <2> QED BY <1>0, <2>2, <2>3 DEF OutOK
<1>11. CASE SendOnce
  <2>1. report \in 1 .. pushed /\ trial < Trials /\ tx = "send" /\ quota' = quota
    BY <1>0, <1>11 DEF SendOnce, PhaseInv, OutOK, inVars
  <2>2. pipe' \in Seq(1 .. pushed) /\ Len(pipe') <= Hwm
    <3>1. \/ pipe' = pipe
          \/ pipe' = Append(pipe, report) /\ Len(pipe) < Hwm
      BY <1>11 DEF SendOnce
    <3>2. pipe \in Seq(1 .. pushed) /\ Len(pipe) <= Hwm /\ Len(pipe) \in Nat
      BY <1>0 DEF OutOK
    <3>3. Append(pipe, report) \in Seq(1 .. pushed) /\ Len(Append(pipe, report)) = Len(pipe) + 1
      BY <2>1, <3>2, AppendProperties
    <3>4. Len(pipe) < Hwm => Len(pipe) + 1 <= Hwm
      BY <1>0, <3>2
    <3> QED BY <3>1, <3>2, <3>3, <3>4
  <2>3. trial' \in 0 .. Trials /\ report' \in 0 .. pushed /\ dropped' \subseteq 1 .. pushed
    <3>1. /\ trial' \in {trial, trial + 1} /\ report' \in {report, 0}
          /\ dropped' \in {dropped, dropped \cup {report}}
      BY <1>11 DEF SendOnce
    <3> QED BY <1>0, <2>1, <3>1 DEF OutOK
  <2> QED BY <1>0, <1>11, <2>1, <2>2, <2>3 DEF SendOnce, OutOK
<1>12. CASE SendDeleted
  <2>1. report \in 1 .. pushed
    BY <1>0, <1>12 DEF SendDeleted, PhaseInv, OutOK
  <2> QED BY <1>0, <1>12, <2>1 DEF SendDeleted, inVars, OutOK
<1>13. CASE UNCHANGED vars
  BY <1>1, <1>13 DEF vars, inVars
<1> QED BY <1>2, <1>3, <1>4, <1>5, <1>6, <1>7, <1>8, <1>9, <1>10, <1>11, <1>12, <1>13
        DEF Next, Main, Sender

\* The threads and queues as main starts them.
LEMMA InitType == Init => TypeInv
<1> SUFFICES ASSUME Init
             PROVE  TypeInv
  OBVIOUS
<1>1. /\ quota \in Quotas /\ quota.mac \in Nat /\ quota.env \in Nat /\ quota.out \in Nat
      /\ 1 \in DOMAIN Targets /\ Trials > 0 /\ Trials \in Nat /\ Hwm \in Nat
  BY CommAssumption, PeersValue DEF Init
<1>2. update \in Updates /\ update.version \in {0, -1}
  <2>1. NoUpdate \in Updates /\ Garbage \in Updates
    BY DEF NoUpdate, Garbage, Updates, Broken
  <2>2. NoUpdate.version = 0 /\ Garbage.version = -1
    BY DEF NoUpdate, Garbage, Broken
  <2>3. update \in {NoUpdate, Garbage}
    BY DEF Init
  <2> QED BY <2>1, <2>2, <2>3
<1>3. InOK
  BY <1>1 DEF Init, InOK
<1>4. MainOK
  BY <1>2 DEF Init, MainOK
<1>5. NodeOK
  <2>1. waits \in [2 .. quota.env + 1 -> Int]
    BY DEF Init
  <2>2. {goExit, running, freed} \subseteq BOOLEAN
    BY Zenon DEF Init
  <2> QED BY <1>1, <2>1, <2>2 DEF Init, NodeOK
<1>6. OutOK
  BY <1>1 DEF Init, OutOK
<1>7. QueuesInv
  BY DEF Init, QueuesInv
<1>8. PhaseInv
  BY <1>2, PeersValue DEF Init, PhaseInv, Broken
<1> QED BY <1>3, <1>4, <1>5, <1>6, <1>7, <1>8 DEF TypeInv, TypeOK

\* Every variable keeps its type: no control or report is handled that was not
\* sent, and the pipe to the MAC never takes more than its limit.
LEMMA TypeInvariant == Spec => []TypeInv
<1>1. TypeInv /\ [Next]_vars => TypeInv'
  <2> SUFFICES ASSUME TypeInv, [Next]_vars
               PROVE  TypeInv'
    OBVIOUS
  <2>1. QueuesInv' /\ PhaseInv'
    BY NextQueues, NextPhase DEF TypeInv
  <2> QED BY <2>1, NextIn, NextMain, NextNode, NextOut DEF TypeInv, TypeOK
<1> QED BY <1>1, InitType, PTL DEF Spec

\* Every variable keeps its type: in particular each queue holds only messages of
\* its kind, and none is numbered beyond what was sent.
THEOREM TypeCorrect == Spec => []TypeOK
BY TypeInvariant, PTL DEF TypeInv

---------------------------------------------------------------------------
(* Rising sequences and their ranges.                                      *)

\* A number above all that are there is put last.
LEMMA RisingAppend ==
  ASSUME NEW s \in Seq(Int), NEW x \in Int
  PROVE  /\ Append(s, x) \in Seq(Int)
         /\ Range(Append(s, x)) = Range(s) \cup {x}
         /\ Rising(s) /\ Under(Range(s), {x}) => Rising(Append(s, x))
<1> DEFINE t == Append(s, x)
<1>1. /\ t \in Seq(Int) /\ Len(t) = Len(s) + 1 /\ Len(s) \in Nat
      /\ \A i \in 1 .. Len(s) : t[i] = s[i]
      /\ t[Len(s) + 1] = x
  BY AppendProperties
<1>2. DOMAIN t = 1 .. Len(s) + 1 /\ DOMAIN s = 1 .. Len(s)
  BY <1>1
<1> HIDE DEF t
<1>3. Range(t) = Range(s) \cup {x}
  BY <1>1, <1>2 DEF Range
<1>4. ASSUME Rising(s), Under(Range(s), {x})
      PROVE  Rising(t)
  <2> SUFFICES ASSUME NEW i \in DOMAIN t, NEW j \in DOMAIN t, i < j
               PROVE  t[i] < t[j]
    BY DEF Rising
  <2>1. i \in DOMAIN s /\ t[i] = s[i]
    BY <1>1, <1>2
  <2>2. CASE j \in DOMAIN s
    BY <1>1, <1>2, <1>4, <2>1, <2>2 DEF Rising
  <2>3. CASE j \notin DOMAIN s
    <3>1. t[j] = x
      BY <1>1, <1>2, <2>3
    <3> QED BY <1>4, <2>1, <3>1 DEF Under, Range
  <2> QED BY <2>2, <2>3
<1> QED BY <1>1, <1>3, <1>4 DEF t

\* The first is below the rest.
LEMMA RisingTail ==
  ASSUME NEW s \in Seq(Int), s # <<>>
  PROVE  /\ Head(s) \in Int /\ Tail(s) \in Seq(Int)
         /\ Range(s) = {Head(s)} \cup Range(Tail(s))
         /\ Rising(s) => Rising(Tail(s)) /\ Under({Head(s)}, Range(Tail(s)))
<1> DEFINE t == Tail(s)
           n == Len(s)
<1>1. /\ n \in Nat \ {0} /\ s \in [1 .. n -> Int] /\ Head(s) = s[1]
      /\ Head(s) \in Int /\ t \in Seq(Int)
      /\ Len(t) = n - 1 /\ \A i \in 1 .. n - 1 : t[i] = s[i + 1]
  BY HeadTailProperties, EmptySeq, LenProperties
<1>2. DOMAIN t = 1 .. n - 1 /\ DOMAIN s = 1 .. n
  BY <1>1
<1> HIDE DEF t, n
<1>3. Range(s) = {Head(s)} \cup Range(t)
  <2>1. \A i \in 1 .. n : i = 1 \/ (i - 1 \in 1 .. n - 1 /\ s[i] = t[i - 1])
    BY <1>1
  <2>2. \A i \in 1 .. n - 1 : i + 1 \in 1 .. n
    BY <1>1
  <2>3. 1 \in 1 .. n
    BY <1>1
  <2>4. /\ \A x : x \in Range(s) <=> \E i \in 1 .. n : x = s[i]
        /\ \A x : x \in Range(t) <=> \E i \in 1 .. n - 1 : x = t[i]
    BY <1>2 DEF Range
  <2>5. Range(s) \subseteq {Head(s)} \cup Range(t)
    <3> SUFFICES ASSUME NEW x \in Range(s)
                 PROVE  x = Head(s) \/ x \in Range(t)
      OBVIOUS
    <3>1. PICK i \in 1 .. n : x = s[i]
      BY <2>4
    <3> QED BY <1>1, <2>1, <2>4, <3>1
  <2>6. Head(s) \in Range(s)
    BY <1>1, <2>3, <2>4
  <2>7. Range(t) \subseteq Range(s)
    BY <1>1, <2>2, <2>4
  <2> QED BY <2>5, <2>6, <2>7
<1>4. ASSUME Rising(s)
      PROVE  Rising(t) /\ Under({Head(s)}, Range(t))
  <2>1. \A i \in 1 .. n - 1 : i + 1 \in 1 .. n /\ t[i] = s[i + 1] /\ 1 < i + 1 /\ 1 \in 1 .. n
    BY <1>1
  <2>2. \A i \in 1 .. n - 1 : s[1] < t[i]
    BY <1>2, <1>4, <2>1 DEF Rising
  <2>3. \A i, j \in 1 .. n - 1 : i < j => t[i] < t[j]
    <3> SUFFICES ASSUME NEW i \in 1 .. n - 1, NEW j \in 1 .. n - 1, i < j
                 PROVE  t[i] < t[j]
      OBVIOUS
    <3>1. i + 1 < j + 1
      OBVIOUS
    <3> QED BY <1>2, <1>4, <2>1, <3>1 DEF Rising
  <2> QED BY <1>1, <1>2, <2>2, <2>3 DEF Rising, Under, Range
<1> QED BY <1>1, <1>3, <1>4 DEF t

\* One sequence after the other.
LEMMA RisingConcat ==
  ASSUME NEW s \in Seq(Int), NEW t \in Seq(Int)
  PROVE  /\ s \o t \in Seq(Int)
         /\ Range(s \o t) = Range(s) \cup Range(t)
         /\ Rising(s) /\ Rising(t) /\ Under(Range(s), Range(t)) => Rising(s \o t)
<1> DEFINE u == s \o t
           n == Len(s)
           m == Len(t)
<1>1. /\ u \in Seq(Int) /\ Len(u) = n + m /\ n \in Nat /\ m \in Nat
      /\ \A i \in 1 .. n + m : u[i] = IF i <= n THEN s[i] ELSE t[i - n]
      /\ DOMAIN s = 1 .. n /\ DOMAIN t = 1 .. m
  BY ConcatProperties
<1>2. DOMAIN u = 1 .. n + m
  BY <1>1
<1>3. Range(u) = Range(s) \cup Range(t)
  BY RangeConcatenation
<1> HIDE DEF u, n, m
<1>4. ASSUME Rising(s), Rising(t), Under(Range(s), Range(t))
      PROVE  Rising(u)
  <2> SUFFICES ASSUME NEW i \in 1 .. n + m, NEW j \in 1 .. n + m, i < j
               PROVE  u[i] < u[j]
    BY <1>2 DEF Rising
  <2>1. CASE j <= n
    <3>1. i \in DOMAIN s /\ j \in DOMAIN s /\ u[i] = s[i] /\ u[j] = s[j]
      BY <1>1, <2>1
    <3> QED BY <1>4, <3>1 DEF Rising
  <2>2. CASE i <= n /\ ~(j <= n)
    <3>1. i \in DOMAIN s /\ j - n \in DOMAIN t /\ u[i] = s[i] /\ u[j] = t[j - n]
      BY <1>1, <2>2
    <3> QED BY <1>4, <3>1 DEF Under, Range
  <2>3. CASE ~(i <= n) /\ ~(j <= n)
    <3>1. i - n \in 1 .. m /\ j - n \in 1 .. m
      BY <1>1, <2>3
    <3>3. i - n \in DOMAIN t /\ j - n \in DOMAIN t /\ u[i] = t[i - n] /\ u[j] = t[j - n]
      BY <1>1, <2>3, <3>1
    <3>2. i - n < j - n
      BY <1>1
    <3> QED BY <1>4, <3>2, <3>3 DEF Rising
  <2> QED BY <1>1, <2>1, <2>2, <2>3
<1> QED BY <1>1, <1>3, <1>4 DEF u

\* The numbers of a queue, and those of one kind.
LEMMA NumbersType ==
  ASSUME NEW ms \in Seq(Message)
  PROVE  /\ Numbers(ms) \in Seq(Int) /\ Len(Numbers(ms)) = Len(ms)
         /\ \A i \in 1 .. Len(ms) : ms[i] \in Message /\ Numbers(ms)[i] = ms[i].id
         /\ \A k, x : x \in IdsOf(ms, k)
                        <=> \E i \in 1 .. Len(ms) : ms[i].kind = k /\ x = ms[i].id
<1>1. DOMAIN ms = 1 .. Len(ms) /\ Len(ms) \in Nat /\ \A i \in 1 .. Len(ms) : ms[i] \in Message
  BY LenProperties, ElementOfSeq
<1>2. \A i \in 1 .. Len(ms) : ms[i].id \in Int
  BY <1>1 DEF Message
<1>3. Numbers(ms) = [i \in 1 .. Len(ms) |-> ms[i].id]
  BY <1>1 DEF Numbers
<1>4. Numbers(ms) \in Seq(Int) /\ Len(Numbers(ms)) = Len(ms)
  BY <1>1, <1>2, <1>3, IsASeq
<1> QED BY <1>1, <1>3, <1>4 DEF IdsOf

\* A queue that takes a message.
LEMMA NumbersAppend ==
  ASSUME NEW ms \in Seq(Message), NEW m \in Message, NEW k
  PROVE  /\ Numbers(Append(ms, m)) = Append(Numbers(ms), m.id) /\ m.id \in Int
         /\ IdsOf(Append(ms, m), k) = IdsOf(ms, k) \cup (IF m.kind = k THEN {m.id} ELSE {})
<1> DEFINE t == Append(ms, m)
           n == Len(ms)
<1>1. /\ t \in Seq(Message) /\ Len(t) = n + 1 /\ n \in Nat
      /\ \A i \in 1 .. n : t[i] = ms[i]
      /\ t[n + 1] = m
  BY AppendProperties
<1>2. m.id \in Int
  BY DEF Message
<1>3. /\ Append(Numbers(ms), m.id) \in Seq(Int) /\ Len(Append(Numbers(ms), m.id)) = n + 1
      /\ \A i \in 1 .. n : Append(Numbers(ms), m.id)[i] = ms[i].id
      /\ Append(Numbers(ms), m.id)[n + 1] = m.id
  BY <1>2, NumbersType, AppendProperties
<1> HIDE DEF t, n
<1>4. \A i \in 1 .. n + 1 : i \in 1 .. n \/ i = n + 1
  BY <1>1
<1>5. Numbers(t) = Append(Numbers(ms), m.id)
  <2>1. Numbers(t) \in Seq(Int) /\ Len(Numbers(t)) = n + 1 /\ \A i \in 1 .. n + 1 : Numbers(t)[i] = t[i].id
    BY <1>1, NumbersType
  <2>2. \A i \in 1 .. n + 1 : Numbers(t)[i] = Append(Numbers(ms), m.id)[i]
    BY <1>1, <1>3, <1>4, <2>1
  <2> QED BY <1>3, <2>1, <2>2, SeqEqual
<1>6. \A x : x \in IdsOf(t, k) <=> x \in IdsOf(ms, k) \cup (IF m.kind = k THEN {m.id} ELSE {})
  <2>1. n + 1 \in 1 .. n + 1 /\ \A i \in 1 .. n : i \in 1 .. n + 1
    BY <1>1
  <2>2. \A x : x \in IdsOf(t, k) <=> \E i \in 1 .. n + 1 : t[i].kind = k /\ x = t[i].id
    <3>1. DOMAIN t = 1 .. n + 1
      BY <1>1, LenProperties
    <3> QED BY <3>1 DEF IdsOf
  <2>3. \A x : x \in IdsOf(ms, k) <=> \E i \in 1 .. n : ms[i].kind = k /\ x = ms[i].id
    BY NumbersType DEF n
  <2> QED BY <1>1, <1>4, <2>1, <2>2, <2>3
<1> QED BY <1>2, <1>5, <1>6 DEF t

\* A queue that gives up its first message.
LEMMA NumbersTail ==
  ASSUME NEW ms \in Seq(Message), ms # <<>>, NEW k
  PROVE  /\ Numbers(ms) # <<>> /\ Head(Numbers(ms)) = Head(ms).id
         /\ Numbers(Tail(ms)) = Tail(Numbers(ms))
         /\ IdsOf(ms, k) = IdsOf(Tail(ms), k)
                             \cup (IF Head(ms).kind = k THEN {Head(ms).id} ELSE {})
<1> DEFINE t == Tail(ms)
           n == Len(ms)
<1>1. /\ n \in Nat \ {0} /\ Head(ms) = ms[1] /\ t \in Seq(Message)
      /\ Len(t) = n - 1 /\ \A i \in 1 .. n - 1 : t[i] = ms[i + 1]
  BY HeadTailProperties, EmptySeq
<1>2. /\ Numbers(ms) \in Seq(Int) /\ Len(Numbers(ms)) = n
      /\ \A i \in 1 .. n : Numbers(ms)[i] = ms[i].id
  BY NumbersType
<1> HIDE DEF t, n
<1>3. Numbers(ms) # <<>>
  BY <1>1, <1>2
<1>4. /\ Head(Numbers(ms)) = ms[1].id
      /\ Tail(Numbers(ms)) \in Seq(Int) /\ Len(Tail(Numbers(ms))) = n - 1
      /\ \A i \in 1 .. n - 1 : Tail(Numbers(ms))[i] = ms[i + 1].id
  <2> DEFINE q == Numbers(ms)
  <2>1. \A i \in 1 .. n - 1 : i + 1 \in 1 .. n
    BY <1>1
  <2>2. q \in Seq(Int) /\ q # <<>> /\ Len(q) = n /\ \A i \in 1 .. n : q[i] = ms[i].id
    BY <1>2, <1>3
  <2> HIDE DEF q
  <2>3. /\ Head(q) = q[1] /\ Tail(q) \in Seq(Int) /\ Len(Tail(q)) = n - 1
        /\ \A i \in 1 .. n - 1 : Tail(q)[i] = q[i + 1]
    BY <2>2, HeadTailProperties
  <2>4. 1 \in 1 .. n
    BY <1>1
  <2> QED BY <2>1, <2>2, <2>3, <2>4 DEF q
<1>5. Numbers(t) = Tail(Numbers(ms))
  <2>1. Numbers(t) \in Seq(Int) /\ Len(Numbers(t)) = n - 1 /\ \A i \in 1 .. n - 1 : Numbers(t)[i] = t[i].id
    BY <1>1, NumbersType
  <2>2. \A i \in 1 .. n - 1 : Numbers(t)[i] = Tail(Numbers(ms))[i]
    BY <1>1, <1>4, <2>1
  <2> QED BY <1>4, <2>1, <2>2, SeqEqual
<1>6. \A x : x \in IdsOf(ms, k) <=> x \in IdsOf(t, k) \cup (IF ms[1].kind = k THEN {ms[1].id} ELSE {})
  <2>1. \A i \in 1 .. n : i = 1 \/ (i - 1 \in 1 .. n - 1 /\ ms[i] = t[i - 1])
    BY <1>1
  <2>2. 1 \in 1 .. n /\ \A i \in 1 .. n - 1 : i + 1 \in 1 .. n /\ t[i] = ms[i + 1]
    BY <1>1
  <2>3. \A x : x \in IdsOf(t, k) <=> \E i \in 1 .. n - 1 : t[i].kind = k /\ x = t[i].id
    <3>1. DOMAIN t = 1 .. n - 1
      BY <1>1, LenProperties
    <3> QED BY <3>1 DEF IdsOf
  <2>4. \A x : x \in IdsOf(ms, k) <=> \E i \in 1 .. n : ms[i].kind = k /\ x = ms[i].id
    BY NumbersType DEF n
  <2> QED BY <2>1, <2>2, <2>3, <2>4
<1> QED BY <1>1, <1>3, <1>4, <1>5, <1>6 DEF t

\* Two queues, one after the other.
LEMMA NumbersConcat ==
  ASSUME NEW a \in Seq(Message), NEW b \in Seq(Message), NEW k
  PROVE  /\ Numbers(a \o b) = Numbers(a) \o Numbers(b)
         /\ IdsOf(a \o b, k) = IdsOf(a, k) \cup IdsOf(b, k)
<1> DEFINE u == a \o b
           n == Len(a)
           m == Len(b)
           c == Numbers(a) \o Numbers(b)
<1>1. /\ u \in Seq(Message) /\ Len(u) = n + m /\ n \in Nat /\ m \in Nat
      /\ \A i \in 1 .. n + m : u[i] = IF i <= n THEN a[i] ELSE b[i - n]
  BY ConcatProperties
<1>2. /\ Numbers(a) \in Seq(Int) /\ Len(Numbers(a)) = n /\ \A i \in 1 .. n : Numbers(a)[i] = a[i].id
      /\ Numbers(b) \in Seq(Int) /\ Len(Numbers(b)) = m /\ \A i \in 1 .. m : Numbers(b)[i] = b[i].id
  BY NumbersType
<1> HIDE DEF u, n, m
<1>3. /\ c \in Seq(Int) /\ Len(c) = n + m
      /\ \A i \in 1 .. n + m : c[i] = IF i <= n THEN Numbers(a)[i] ELSE Numbers(b)[i - n]
  <2>1. Numbers(a) \in Seq(Int) /\ Numbers(b) \in Seq(Int)
    BY <1>2
  <2>2. /\ c \in Seq(Int) /\ Len(c) = Len(Numbers(a)) + Len(Numbers(b))
        /\ \A i \in 1 .. Len(Numbers(a)) + Len(Numbers(b)) : c[i] =
             IF i <= Len(Numbers(a)) THEN Numbers(a)[i] ELSE Numbers(b)[i - Len(Numbers(a))]
    BY <2>1, ConcatProperties
  <2> QED BY <1>2, <2>2
<1> HIDE DEF c
<1>4. \A i \in 1 .. n + m : (i <= n /\ i \in 1 .. n) \/ (~(i <= n) /\ i - n \in 1 .. m)
  BY <1>1
<1>5. Numbers(u) = c
  <2>1. Numbers(u) \in Seq(Int) /\ Len(Numbers(u)) = n + m /\ \A i \in 1 .. n + m : Numbers(u)[i] = u[i].id
    BY <1>1, NumbersType
  <2>2. \A i \in 1 .. n + m : c[i] = u[i].id
    <3> SUFFICES ASSUME NEW i \in 1 .. n + m
                 PROVE  c[i] = u[i].id
      OBVIOUS
    <3>1. CASE i <= n /\ i \in 1 .. n
      BY <1>1, <1>2, <1>3, <3>1
    <3>2. CASE ~(i <= n) /\ i - n \in 1 .. m
      BY <1>1, <1>2, <1>3, <3>2
    <3> QED BY <1>4, <3>1, <3>2
  <2> QED BY <1>3, <2>1, <2>2, SeqEqual
<1>6. \A x : x \in IdsOf(u, k) <=> x \in IdsOf(a, k) \cup IdsOf(b, k)
  <2>1. \A i \in 1 .. n : i \in 1 .. n + m /\ u[i] = a[i]
    BY <1>1
  <2>2. \A i \in 1 .. m : i + n \in 1 .. n + m /\ u[i + n] = b[i]
    BY <1>1
  <2>3. \A i \in 1 .. n + m : (i \in 1 .. n /\ u[i] = a[i]) \/ (i - n \in 1 .. m /\ u[i] = b[i - n])
    BY <1>1, <1>4
  <2>4. \A x : x \in IdsOf(u, k) <=> \E i \in 1 .. n + m : u[i].kind = k /\ x = u[i].id
    <3>1. DOMAIN u = 1 .. n + m
      BY <1>1, LenProperties
    <3> QED BY <3>1 DEF IdsOf
  <2>5. \A x : /\ x \in IdsOf(a, k) <=> \E i \in 1 .. n : a[i].kind = k /\ x = a[i].id
               /\ x \in IdsOf(b, k) <=> \E i \in 1 .. m : b[i].kind = k /\ x = b[i].id
    BY NumbersType DEF n, m
  <2> QED BY <2>1, <2>2, <2>3, <2>4, <2>5
<1> QED BY <1>5, <1>6 DEF u, c

---------------------------------------------------------------------------
(* The order of the controls.                                              *)

\* Where the numbers of the controls are taken from.
LEMMA ControlBounds ==
  ASSUME TypeInv
  PROVE  /\ handled \in Seq(Int) /\ Range(handled) \subseteq 1 .. sent
         /\ low \in Seq(Message) /\ Numbers(low) \in Seq(Int)
         /\ Range(Numbers(low)) \subseteq 1 .. sent
         /\ wire[Mac] \in Seq(Message) /\ Numbers(wire[Mac]) \in Seq(Int)
         /\ Range(Numbers(wire[Mac])) \subseteq 1 .. sent
         /\ sent \in Nat /\ control \in 0 .. sent /\ asked \subseteq 1 .. sent
<1>1. /\ sent \in Nat /\ control \in 0 .. sent /\ asked \subseteq 1 .. sent
      /\ handled \in Seq(1 .. sent)
  BY QuotaType DEF TypeInv, TypeOK, InOK, MainOK
<1>2. handled \in Seq(Int) /\ Range(handled) \subseteq 1 .. sent
  BY <1>1, SeqMonotonic, LenProperties DEF Range
<1>3. /\ low \in Seq(LowMsgs(sent)) /\ low \in Seq(Message)
      /\ wire[Mac] \in Seq(PeerMsgs(Mac, sent)) /\ wire[Mac] \in Seq(Message)
  BY PeersValue DEF TypeInv, TypeOK, InOK, NodeOK, QueuesInv
<1>4. /\ \A i \in 1 .. Len(low) : low[i].id \in 1 .. sent
      /\ \A i \in 1 .. Len(wire[Mac]) : wire[Mac][i].id \in 1 .. sent
  <2>1. /\ \A i \in 1 .. Len(low) : low[i] \in LowMsgs(sent)
        /\ \A i \in 1 .. Len(wire[Mac]) : wire[Mac][i] \in PeerMsgs(Mac, sent)
    BY <1>3, ElementOfSeq
  <2> QED BY <2>1 DEF LowMsgs, PeerMsgs
<1>5. ASSUME NEW ms \in Seq(Message), \A i \in 1 .. Len(ms) : ms[i].id \in 1 .. sent
      PROVE  Numbers(ms) \in Seq(Int) /\ Range(Numbers(ms)) \subseteq 1 .. sent
  <2>1. Numbers(ms) \in Seq(Int) /\ DOMAIN Numbers(ms) = 1 .. Len(ms)
    BY NumbersType, LenProperties
  <2>2. \A i \in 1 .. Len(ms) : Numbers(ms)[i] \in 1 .. sent
    BY <1>5, NumbersType
  <2> QED BY <2>1, <2>2 DEF Range
<1> QED BY <1>1, <1>2, <1>3, <1>4, <1>5

\* No step lets a control overtake another on the way from the socket through the
\* low queue to the PHY.
LEMMA NextControl ==
  ASSUME TypeInv, ControlInv, [Next]_vars
  PROVE  ControlInv'
<1> DEFINE H == Range(handled)
           C == {control} \ {0}
           L == Range(Numbers(low))
           W == Range(Numbers(wire[Mac]))
<1>0. /\ handled \in Seq(Int) /\ H \subseteq 1 .. sent
      /\ low \in Seq(Message) /\ Numbers(low) \in Seq(Int) /\ L \subseteq 1 .. sent
      /\ wire[Mac] \in Seq(Message) /\ Numbers(wire[Mac]) \in Seq(Int) /\ W \subseteq 1 .. sent
      /\ sent \in Nat /\ control \in 0 .. sent /\ asked \subseteq 1 .. sent
  BY ControlBounds
<1>a. /\ Rising(handled) /\ Rising(Numbers(low)) /\ Rising(Numbers(wire[Mac]))
      /\ Under(H, C) /\ Under(H, L) /\ Under(H, W) /\ Under(C, L) /\ Under(C, W) /\ Under(L, W)
      /\ ~goExit => asked \subseteq H \cup C \cup IdsOf(low, "control")
                                      \cup IdsOf(wire[Mac], "control")
  BY DEF ControlInv
<1>b. TypeOK /\ QueuesInv /\ PhaseInv
  BY DEF TypeInv
<1>1. CASE /\ UNCHANGED <<handled, control, low, asked>> /\ wire'[Mac] = wire[Mac]
           /\ goExit => goExit'
  BY <1>1 DEF ControlInv
<1>2. CASE MacSends
  <2>1. PICK k \in quota.noise \cup {"control"} :
          /\ wire' = [wire EXCEPT ![Mac] = Append(@, [kind |-> k, id |-> sent + 1])]
          /\ asked' = IF k = "control" THEN asked \cup {sent + 1} ELSE asked
    BY <1>2 DEF MacSends
  <2> DEFINE e == [kind |-> k, id |-> sent + 1]
  <2>2. e \in Message /\ e.id = sent + 1 /\ e.kind = k
    BY <1>0, <1>b, QuotaType DEF Message
  <2>3. wire'[Mac] = Append(wire[Mac], e)
    BY <1>b, <2>1, PeersValue DEF TypeOK, InOK
  <2> HIDE DEF e
  <2>4. /\ Numbers(wire'[Mac]) = Append(Numbers(wire[Mac]), sent + 1)
        /\ IdsOf(wire'[Mac], "control") = IdsOf(wire[Mac], "control")
             \cup (IF k = "control" THEN {sent + 1} ELSE {})
    BY <1>0, <2>2, <2>3, NumbersAppend
  <2>5. Under(W, {sent + 1}) /\ sent + 1 \in Int
    BY <1>0 DEF Under
  <2>6. Range(Numbers(wire'[Mac])) = W \cup {sent + 1} /\ Rising(Numbers(wire'[Mac]))
    BY <1>0, <1>a, <2>4, <2>5, RisingAppend
  <2>7. /\ Under(H, Range(Numbers(wire'[Mac]))) /\ Under(C, Range(Numbers(wire'[Mac])))
        /\ Under(L, Range(Numbers(wire'[Mac])))
    BY <1>0, <1>a, <2>6 DEF Under
  <2>8. UNCHANGED <<handled, control, low, goExit>>
    BY <1>2 DEF MacSends, mainVars, stopVars
  <2>9. ~goExit => asked' \subseteq H \cup C \cup IdsOf(low, "control")
                                      \cup IdsOf(wire'[Mac], "control")
    BY <1>a, <2>1, <2>4
  <2> HIDE DEF H, C, L, W
  <2> QED BY <1>a, <2>6, <2>7, <2>8, <2>9 DEF ControlInv, H, C, L, W
<1>3. ASSUME Receive(Mac), wire[Mac] # <<>>
      PROVE  ControlInv'
  <2> DEFINE m == Head(wire[Mac])
             t == Tail(wire[Mac])
  <2>1. /\ wire' = [wire EXCEPT ![Mac] = Tail(@)]
        /\ low' = IF Filter(m) = "low" THEN Append(low, m) ELSE low
        /\ UNCHANGED <<handled, control, asked, goExit>>
    BY <1>3 DEF Receive, mainVars, stopVars
  <2>2. wire'[Mac] = t
    BY <1>b, <2>1, PeersValue DEF TypeOK, InOK
  <2>3. m \in Message /\ t \in Seq(Message)
    BY <1>0, <1>3, HeadTailProperties
  <2>4. m.kind = "control" => Filter(m) = "low"
    BY <1>b, <1>3, PeersValue, HeadOfWire
  <2>5. /\ Numbers(wire[Mac]) # <<>> /\ Head(Numbers(wire[Mac])) = m.id
        /\ Numbers(t) = Tail(Numbers(wire[Mac]))
        /\ IdsOf(wire[Mac], "control") = IdsOf(t, "control")
             \cup (IF m.kind = "control" THEN {m.id} ELSE {})
    BY <1>0, <1>3, NumbersTail
  <2>6. /\ m.id \in Int /\ W = {m.id} \cup Range(Numbers(t))
        /\ Rising(Numbers(t)) /\ Under({m.id}, Range(Numbers(t)))
    BY <1>0, <1>a, <2>5, RisingTail
  <2> HIDE DEF m, t
  <2>7. CASE Filter(m) = "low"
    <3>1. low' = Append(low, m)
      BY <2>1, <2>7
    <3>2. /\ Numbers(low') = Append(Numbers(low), m.id)
          /\ IdsOf(low', "control") = IdsOf(low, "control")
               \cup (IF m.kind = "control" THEN {m.id} ELSE {})
      BY <1>0, <2>3, <3>1, NumbersAppend
    <3>3. Under(L, {m.id})
      BY <1>a, <2>6 DEF Under
    <3>4. Range(Numbers(low')) = L \cup {m.id} /\ Rising(Numbers(low'))
      BY <1>0, <1>a, <2>6, <3>2, <3>3, RisingAppend
    <3>5. ~goExit => asked \subseteq H \cup C \cup IdsOf(low', "control")
                                       \cup IdsOf(t, "control")
      BY <1>a, <2>5, <3>2
    <3> HIDE DEF H, C, L, W
    <3>6. /\ Under(H, Range(Numbers(low'))) /\ Under(C, Range(Numbers(low')))
          /\ Under(H, Range(Numbers(t))) /\ Under(C, Range(Numbers(t)))
          /\ Under(Range(Numbers(low')), Range(Numbers(t)))
      BY <1>a, <2>6, <3>4 DEF Under
    <3> QED BY <1>a, <2>1, <2>2, <2>6, <3>4, <3>5, <3>6 DEF ControlInv, H, C
  <2>8. CASE Filter(m) # "low"
    <3>1. low' = low
      BY <2>1, <2>8
    <3>2. ~goExit => asked \subseteq H \cup C \cup IdsOf(low, "control")
                                       \cup IdsOf(t, "control")
      BY <1>a, <2>4, <2>5, <2>8
    <3> HIDE DEF H, C, L, W
    <3>3. Under(H, Range(Numbers(t))) /\ Under(C, Range(Numbers(t))) /\ Under(L, Range(Numbers(t)))
      BY <1>a, <2>6 DEF Under
    <3> QED BY <1>a, <2>1, <2>2, <2>6, <3>1, <3>2, <3>3 DEF ControlInv, H, C, L
  <2> QED BY <2>7, <2>8
<1>4. ASSUME NEW p \in Peers, Receive(p), p # Mac \/ wire[p] = <<>>
      PROVE  ControlInv'
  <2>1. UNCHANGED <<handled, control, asked, goExit>>
    BY <1>4 DEF Receive, mainVars, stopVars
  <2>2. CASE wire[p] = <<>>
    <3>1. UNCHANGED <<wire, low>>
      BY <1>4, <2>2 DEF Receive
    <3> QED BY <1>1, <2>1, <3>1
  <2>3. CASE wire[p] # <<>>
    <3>1. Filter(Head(wire[p])) # "low"
      BY <1>b, <1>4, <2>3, HeadOfWire
    <3>2. low' = low /\ wire' = [wire EXCEPT ![p] = Tail(@)]
      BY <1>4, <2>3, <3>1 DEF Receive
    <3>3. wire'[Mac] = wire[Mac]
      BY <1>4, <2>3, <3>2
    <3> QED BY <1>1, <2>1, <3>2, <3>3
  <2> QED BY <2>2, <2>3
<1>5. ASSUME PopLow, low # <<>>
      PROVE  ControlInv'
  <2> DEFINE m == Head(low)
             t == Tail(low)
  <2>1. /\ low' = t /\ UNCHANGED <<handled, wire, asked, goExit>>
        /\ control' = IF m.kind = "refused" THEN control ELSE m.id
    BY <1>5 DEF PopLow, inVars, stopVars
  <2>2. control = 0
    BY <1>5 DEF TypeInv, PhaseInv, PopLow
  <2>3. /\ Numbers(low) # <<>> /\ Head(Numbers(low)) = m.id
        /\ Numbers(t) = Tail(Numbers(low))
        /\ IdsOf(low, "control") = IdsOf(t, "control")
             \cup (IF m.kind = "control" THEN {m.id} ELSE {})
    BY <1>0, <1>5, NumbersTail
  <2>4. /\ m.id \in Int /\ L = {m.id} \cup Range(Numbers(t))
        /\ Rising(Numbers(t)) /\ Under({m.id}, Range(Numbers(t)))
    BY <1>0, <1>a, <2>3, RisingTail
  <2> HIDE DEF m, t
  <2>5. {control'} \ {0} = IF m.kind = "refused" THEN {} ELSE {m.id}
    <3>1. m.id # 0
      BY <1>0, <2>4
    <3> QED BY <2>1, <2>2, <3>1
  <2>6. ~goExit => asked \subseteq H \cup ({control'} \ {0}) \cup IdsOf(t, "control")
                                     \cup IdsOf(wire[Mac], "control")
    BY <1>a, <2>2, <2>3, <2>5
  <2> HIDE DEF H, L, W
  <2>7. /\ Under(H, {control'} \ {0}) /\ Under(H, Range(Numbers(t)))
        /\ Under({control'} \ {0}, Range(Numbers(t))) /\ Under({control'} \ {0}, W)
        /\ Under(Range(Numbers(t)), W)
    BY <1>a, <2>4, <2>5 DEF Under
  <2> QED BY <1>a, <2>1, <2>4, <2>6, <2>7 DEF ControlInv, H, W
<1>6. CASE Relay
  <2>1. /\ handled' = IF goExit THEN handled ELSE Append(handled, control)
        /\ control' = 0 /\ UNCHANGED <<low, wire, asked, goExit>>
    BY <1>6 DEF Relay, inVars, stopVars
  <2>2. control # 0
    BY <1>6 DEF TypeInv, PhaseInv, Relay
  <2>3. /\ Rising(handled')
        /\ goExit => handled' = handled
        /\ ~goExit => Range(handled') = H \cup {control}
    <3>1. Under(H, {control})
      BY <1>a, <2>2 DEF Under
    <3> QED BY <1>0, <1>a, <2>1, <3>1, RisingAppend
  <2>4. {control'} \ {0} = {} /\ C = {control}
    BY <2>1, <2>2
  <2>5. ~goExit => asked \subseteq Range(handled') \cup ({control'} \ {0})
                                     \cup IdsOf(low, "control") \cup IdsOf(wire[Mac], "control")
    BY <1>a, <2>3, <2>4
  <2> HIDE DEF H, L, W, C
  <2>6. Range(handled') \subseteq H \cup C
    BY <2>3, <2>4 DEF H
  <2>7. /\ Under(Range(handled'), L) /\ Under(Range(handled'), W)
        /\ \A A : Under(A, {control'} \ {0}) /\ Under({control'} \ {0}, A)
    BY <1>a, <2>4, <2>6 DEF Under
  <2> QED BY <1>a, <2>1, <2>3, <2>5, <2>7 DEF ControlInv, L, W
<1>7. CASE JoinSender
  <2>1. low' = <<>> /\ UNCHANGED <<handled, control, wire, asked, goExit>>
    BY <1>7 DEF JoinSender, inVars
  <2>2. goExit
    BY <1>7 DEF TypeInv, PhaseInv, JoinSender
  <2>3. Numbers(<<>>) = <<>>
    BY DEF Numbers
  <2>4. Rising(Numbers(<<>>)) /\ Range(Numbers(<<>>)) = {}
    BY <2>3 DEF Rising, Range
  <2>5. \A A : Under(A, {}) /\ Under({}, A)
    BY DEF Under
  <2> QED BY <1>a, <2>1, <2>2, <2>4, <2>5 DEF ControlInv
<1>8. CASE EnvAnnounces
  <2>1. wire'[Mac] = wire[Mac]
    BY <1>8, PeersValue DEF EnvAnnounces
  <2> QED BY <1>1, <1>8, <2>1 DEF EnvAnnounces, mainVars, stopVars
<1>9. CASE EnvWrites \/ MacReceives \/ Signal \/ PopHigh \/ Apply \/ StopRunning \/ JoinReceiver
             \/ DeleteManager \/ StopPhys \/ (PopLow /\ low = <<>>)
  BY <1>1, <1>9 DEF EnvWrites, MacReceives, Signal, PopHigh, Apply, StopRunning, JoinReceiver,
     DeleteManager, StopPhys, PopLow, inVars, mainVars, stopVars
<1>10. CASE Report \/ ReportFreed \/ Sender
  BY <1>1, <1>10 DEF Report, ReportFreed, Sender, SenderChecks, SenderPops, SendOnce,
     SendDeleted, inVars, mainVars, stopVars
<1>11. ASSUME NEW p \in Peers, ReceiverChecks(p)
      PROVE  ControlInv'
  BY <1>1, <1>11 DEF ReceiverChecks, inVars, mainVars, stopVars
<1>12. CASE UNCHANGED vars
  BY <1>1, <1>12 DEF vars, inVars, mainVars, stopVars
<1> QED BY <1>2, <1>3, <1>4, <1>5, <1>6, <1>7, <1>8, <1>9, <1>10, <1>11, <1>12
        DEF Next, Main, Receiver

---------------------------------------------------------------------------
(* The contents of the controls.                                           *)

\* The message that leaves a queue of rising numbers, when those of its controls
\* are the ones that were asked.
LEMMA HeadOfQueue ==
  ASSUME NEW ms \in Seq(Message), ms # <<>>, Rising(Numbers(ms)),
         IdsOf(ms, "control") = Range(Numbers(ms)) \cap asked
  PROVE  LET m == Head(ms)
             t == Tail(ms)
         IN /\ m \in Message /\ t \in Seq(Message) /\ m.id \in Int
            /\ Range(Numbers(ms)) = {m.id} \cup Range(Numbers(t))
            /\ Under({m.id}, Range(Numbers(t)))
            /\ m.id \in asked <=> m.kind = "control"
            /\ IdsOf(t, "control") = Range(Numbers(t)) \cap asked
            /\ IdsOf(ms, "control") = IdsOf(t, "control")
                 \cup (IF m.kind = "control" THEN {m.id} ELSE {})
<1> DEFINE m == Head(ms)
           t == Tail(ms)
           T == Range(Numbers(t))
<1>1. m \in Message /\ t \in Seq(Message) /\ Numbers(ms) \in Seq(Int) /\ Numbers(t) \in Seq(Int)
  BY HeadTailProperties, NumbersType
<1>2. /\ Numbers(ms) # <<>> /\ Head(Numbers(ms)) = m.id /\ Numbers(t) = Tail(Numbers(ms))
      /\ IdsOf(ms, "control") = IdsOf(t, "control")
           \cup (IF m.kind = "control" THEN {m.id} ELSE {})
  BY NumbersTail
<1>3. m.id \in Int /\ Range(Numbers(ms)) = {m.id} \cup T /\ Under({m.id}, T)
  BY <1>1, <1>2, RisingTail
<1>4. IdsOf(t, "control") \subseteq T /\ T \subseteq Int
  <2>1. DOMAIN t = 1 .. Len(t) /\ DOMAIN Numbers(t) = 1 .. Len(t)
    BY <1>1, LenProperties DEF Numbers
  <2>2. T \subseteq Int
    BY <1>1, <2>1, ElementOfSeq, NumbersType DEF Range
  <2>3. \A i \in 1 .. Len(t) : Numbers(t)[i] = t[i].id
    BY <1>1, NumbersType
  <2>4. \A i \in 1 .. Len(t) : t[i].id \in T
    BY <2>1, <2>3 DEF Range
  <2>5. \A x \in IdsOf(t, "control") : \E i \in 1 .. Len(t) : x = t[i].id
    BY <2>1 DEF IdsOf
  <2> HIDE DEF T, t
  <2> QED BY <2>2, <2>4, <2>5
<1>5. m.id \notin T
  BY <1>3, <1>4 DEF Under
<1> HIDE DEF m, t, T
<1>6. (m.id \in asked <=> m.kind = "control") /\ IdsOf(t, "control") = T \cap asked
  BY <1>2, <1>3, <1>4, <1>5
<1> QED BY <1>1, <1>2, <1>3, <1>6 DEF m, t, T

\* Each control is relayed with what it brought: it was the last to be parsed.
LEMMA NextHolds ==
  ASSUME TypeInv, ControlInv, HoldsInv, [Next]_vars
  PROVE  HoldsInv'
<1> DEFINE L == Range(Numbers(low))
           W == Range(Numbers(wire[Mac]))
           LC == IdsOf(low, "control")
           WC == IdsOf(wire[Mac], "control")
<1>0. /\ low \in Seq(Message) /\ Numbers(low) \in Seq(Int) /\ L \subseteq 1 .. sent
      /\ wire[Mac] \in Seq(Message) /\ Numbers(wire[Mac]) \in Seq(Int) /\ W \subseteq 1 .. sent
      /\ sent \in Nat /\ control \in 0 .. sent /\ holds \in 0 .. sent /\ asked \subseteq 1 .. sent
      /\ told \subseteq [by : 1 .. sent, of : 0 .. sent]
  BY ControlBounds DEF TypeInv, TypeOK, MainOK
<1>a. /\ LC = L \cap asked /\ WC = W \cap asked
      /\ Under({holds}, L) /\ Under({holds}, W)
      /\ Looping => \A c \in asked : c <= holds \/ c \in LC \cup WC
      /\ control # 0 => IF control \in asked
                        THEN holds = control
                        ELSE holds < control /\ \A c \in asked : c < control => c <= holds
      /\ ControlsOwnContents
  BY DEF HoldsInv
<1>b. /\ Rising(Numbers(low)) /\ Rising(Numbers(wire[Mac])) /\ Under(L, W)
      /\ TypeOK /\ QueuesInv /\ PhaseInv
  BY DEF ControlInv, TypeInv
<1>1. CASE /\ UNCHANGED <<low, asked, holds, control, told>> /\ wire'[Mac] = wire[Mac]
           /\ Looping' => Looping
  BY <1>1, <1>a DEF HoldsInv, ControlsOwnContents
<1>2. CASE MacSends
  <2>1. PICK k \in quota.noise \cup {"control"} :
          /\ wire' = [wire EXCEPT ![Mac] = Append(@, [kind |-> k, id |-> sent + 1])]
          /\ asked' = IF k = "control" THEN asked \cup {sent + 1} ELSE asked
    BY <1>2 DEF MacSends
  <2> DEFINE e == [kind |-> k, id |-> sent + 1]
  <2>2. e \in Message /\ e.id = sent + 1 /\ e.kind = k
    BY <1>0, <1>b, QuotaType DEF Message
  <2>3. wire'[Mac] = Append(wire[Mac], e)
    BY <1>b, <2>1, PeersValue DEF TypeOK, InOK
  <2> HIDE DEF e
  <2>4. /\ Numbers(wire'[Mac]) = Append(Numbers(wire[Mac]), sent + 1)
        /\ IdsOf(wire'[Mac], "control") = WC \cup (IF k = "control" THEN {sent + 1} ELSE {})
    BY <1>0, <2>2, <2>3, NumbersAppend
  <2>5. Range(Numbers(wire'[Mac])) = W \cup {sent + 1}
    <3>1. sent + 1 \in Int
      BY <1>0
    <3> QED BY <1>0, <2>4, <3>1, RisingAppend
  <2>6. UNCHANGED <<low, holds, control, told>> /\ (Looping' => Looping)
    BY <1>2 DEF MacSends, mainVars, Looping
  <2> HIDE DEF L, W, LC, WC
  <2>7. /\ sent + 1 \notin L \cup W \cup asked /\ control < sent + 1 /\ holds < sent + 1
        /\ \A r \in told : r.by \in Int /\ r.by < sent + 1 /\ r.by # sent + 1
    BY <1>0
  <2>8. /\ LC = L \cap asked'
        /\ IdsOf(wire'[Mac], "control") = Range(Numbers(wire'[Mac])) \cap asked'
    BY <1>a, <2>1, <2>4, <2>5, <2>7
  <2>9. Under({holds}, Range(Numbers(wire'[Mac])))
    BY <1>a, <2>5, <2>7 DEF Under
  <2>10. Looping => \A c \in asked' : c <= holds \/ c \in LC \cup IdsOf(wire'[Mac], "control")
    BY <1>a, <2>1, <2>4
  <2>11. \A x \in Int : x < sent + 1 =>
           /\ x \in asked' <=> x \in asked
           /\ \A c \in asked' : c < x => c \in asked
    BY <1>0, <2>1
  <2>12. control # 0 => IF control \in asked'
                        THEN holds = control
                        ELSE holds < control /\ \A c \in asked' : c < control => c <= holds
    <3>1. control \in Int
      BY <1>0
    <3>2. /\ control \in asked' <=> control \in asked
          /\ \A c \in asked' : c < control => c \in asked
      BY <2>7, <2>11, <3>1
    <3>3. CASE control \in asked
      BY <1>a, <3>2, <3>3
    <3>4. CASE control \notin asked
      BY <1>a, <3>2, <3>4
    <3> QED BY <3>3, <3>4
  <2>13. \A r \in told :
           IF r.by \in asked'
           THEN r.of = r.by
           ELSE r.of < r.by /\ \A c \in asked' : c < r.by => c <= r.of
    BY <1>a, <2>7, <2>11 DEF ControlsOwnContents
  <2> QED BY <1>a, <2>6, <2>8, <2>9, <2>10, <2>12, <2>13
          DEF HoldsInv, ControlsOwnContents, L, W, LC, WC
<1>3. ASSUME Receive(Mac), wire[Mac] # <<>>
      PROVE  HoldsInv'
  <2> DEFINE m == Head(wire[Mac])
             t == Tail(wire[Mac])
             T == Range(Numbers(t))
  <2>1. /\ wire' = [wire EXCEPT ![Mac] = Tail(@)]
        /\ low' = IF Filter(m) = "low" THEN Append(low, m) ELSE low
        /\ UNCHANGED <<asked, holds, control, told, main>>
    BY <1>3 DEF Receive, mainVars
  <2>2. wire'[Mac] = t
    BY <1>b, <2>1, PeersValue DEF TypeOK, InOK
  <2>3. m.kind = "control" => Filter(m) = "low"
    BY <1>b, <1>3, PeersValue, HeadOfWire
  <2>4. /\ m \in Message /\ m.id \in Int /\ W = {m.id} \cup T
        /\ m.id \in asked <=> m.kind = "control"
        /\ IdsOf(t, "control") = T \cap asked
        /\ WC = IdsOf(t, "control") \cup (IF m.kind = "control" THEN {m.id} ELSE {})
    BY <1>0, <1>3, <1>a, <1>b, HeadOfQueue
  <2> HIDE DEF m, t
  <2>5. CASE Filter(m) = "low"
    <3>1. low' = Append(low, m)
      BY <2>1, <2>5
    <3>2. /\ Numbers(low') = Append(Numbers(low), m.id)
          /\ IdsOf(low', "control") = LC \cup (IF m.kind = "control" THEN {m.id} ELSE {})
      BY <1>0, <2>4, <3>1, NumbersAppend
    <3>3. Range(Numbers(low')) = L \cup {m.id}
      BY <1>0, <2>4, <3>2, RisingAppend
    <3> HIDE DEF L, W, LC, WC, T
    <3>4. IdsOf(low', "control") = Range(Numbers(low')) \cap asked
      BY <1>a, <2>4, <3>2, <3>3
    <3>5. Under({holds}, Range(Numbers(low'))) /\ Under({holds}, T)
      BY <1>a, <2>4, <3>3 DEF Under
    <3>6. LC \cup WC = IdsOf(low', "control") \cup IdsOf(t, "control")
      BY <2>4, <3>2
    <3> QED BY <1>a, <2>1, <2>2, <2>4, <3>4, <3>5, <3>6
            DEF HoldsInv, ControlsOwnContents, Looping, T
  <2>6. CASE Filter(m) # "low"
    <3>1. low' = low /\ WC = IdsOf(t, "control")
      BY <2>1, <2>3, <2>4, <2>6
    <3> HIDE DEF L, W, LC, WC, T
    <3>2. Under({holds}, T)
      BY <1>a, <2>4 DEF Under
    <3> QED BY <1>a, <2>1, <2>2, <2>4, <3>1, <3>2
            DEF HoldsInv, ControlsOwnContents, Looping, T, L, LC
  <2> QED BY <2>5, <2>6
<1>4. ASSUME NEW p \in Peers, Receive(p), p # Mac \/ wire[p] = <<>>
      PROVE  HoldsInv'
  <2>1. UNCHANGED <<asked, holds, control, told, main>>
    BY <1>4 DEF Receive, mainVars
  <2>2. CASE wire[p] = <<>>
    <3>1. UNCHANGED <<wire, low>>
      BY <1>4, <2>2 DEF Receive
    <3> QED BY <1>1, <2>1, <3>1 DEF Looping
  <2>3. CASE wire[p] # <<>>
    <3>1. Filter(Head(wire[p])) # "low"
      BY <1>b, <1>4, <2>3, HeadOfWire
    <3>2. low' = low /\ wire' = [wire EXCEPT ![p] = Tail(@)]
      BY <1>4, <2>3, <3>1 DEF Receive
    <3>3. wire'[Mac] = wire[Mac]
      BY <1>4, <2>3, <3>2
    <3> QED BY <1>1, <2>1, <3>2, <3>3 DEF Looping
  <2> QED BY <2>2, <2>3
<1>5. ASSUME PopLow, low # <<>>
      PROVE  HoldsInv'
  <2> DEFINE m == Head(low)
             t == Tail(low)
             T == Range(Numbers(t))
  <2>1. /\ low' = t /\ UNCHANGED <<wire, asked, told>>
        /\ holds' = IF m.kind = "unknown" THEN holds ELSE m.id
        /\ control' = IF m.kind = "refused" THEN control ELSE m.id
    BY <1>5 DEF PopLow, inVars
  <2>2. control = 0 /\ Looping
    BY <1>b, <1>5 DEF PhaseInv, PopLow, Looping
  <2>3. /\ m.id \in Int /\ L = {m.id} \cup T /\ Under({m.id}, T)
        /\ m.id \in asked <=> m.kind = "control"
        /\ IdsOf(t, "control") = T \cap asked
        /\ LC = IdsOf(t, "control") \cup (IF m.kind = "control" THEN {m.id} ELSE {})
    BY <1>0, <1>5, <1>a, <1>b, HeadOfQueue
  <2>7. m.kind \in {"control", "refused", "unknown"}
    BY <1>b, <1>5, HeadTailProperties DEF QueuesInv, LowMsgs
  <2> HIDE DEF L, W, LC, WC, m, t, T
  <2>4. /\ holds < m.id /\ holds \in Int /\ holds' \in {holds, m.id}
        /\ \A x \in L : x \in Int /\ m.id <= x
        /\ \A x \in W : x \in Int /\ m.id < x
    <3>1. m.id \in L
      BY <2>3
    <3> QED BY <1>0, <1>a, <1>b, <2>1, <2>3, <3>1 DEF Under
  <2>5. Under({holds'}, T) /\ Under({holds'}, W)
    BY <1>a, <2>3, <2>4 DEF Under
  <2>6. \A c \in asked : c <= holds' \/ c \in IdsOf(t, "control") \cup WC
    <3> SUFFICES ASSUME NEW c \in asked
                 PROVE  c <= holds' \/ c \in IdsOf(t, "control") \cup WC
      OBVIOUS
    <3>1. CASE c <= holds
      BY <1>0, <2>4, <3>1
    <3>2. CASE c \in LC \cup WC
      <4>1. m.kind = "control" => holds' = m.id
        BY <2>1
      <4> QED BY <2>3, <2>4, <3>2, <4>1
    <3> QED BY <1>a, <2>2, <3>1, <3>2
  <2>8. control' # 0 => IF control' \in asked
                        THEN holds' = control'
                        ELSE holds' < control' /\ \A c \in asked : c < control' => c <= holds'
    <3>1. CASE m.kind = "refused"
      BY <2>1, <2>2, <3>1
    <3>2. CASE m.kind = "control"
      BY <2>1, <2>3, <3>2
    <3>3. CASE m.kind = "unknown"
      <4>1. control' = m.id /\ holds' = holds /\ m.id \notin asked
        BY <2>1, <2>3, <3>3
      <4>2. ASSUME NEW c \in asked, c < m.id
            PROVE  c <= holds
        <5>1. c \notin L /\ c \notin W
          BY <1>0, <2>3, <2>4, <4>2
        <5> QED BY <1>a, <2>2, <5>1
      <4> QED BY <2>4, <4>1, <4>2
    <3> QED BY <2>7, <3>1, <3>2, <3>3
  <2> QED BY <1>a, <2>1, <2>3, <2>5, <2>6, <2>8
          DEF HoldsInv, ControlsOwnContents, W, WC, T
<1>6. CASE Relay
  <2>1. /\ told' \in {told, told \cup {[by |-> control, of |-> holds]}}
        /\ control' = 0 /\ UNCHANGED <<low, wire, asked, holds>>
    BY <1>6 DEF Relay, inVars
  <2>2. control # 0 /\ Looping
    BY <1>b, <1>6 DEF PhaseInv, Relay, Looping
  <2>3. ControlsOwnContents'
    BY <1>a, <2>1, <2>2 DEF ControlsOwnContents
  <2> QED BY <1>a, <2>1, <2>2, <2>3 DEF HoldsInv
<1>7. CASE JoinSender
  <2>1. low' = <<>> /\ UNCHANGED <<wire, asked, holds, control, told>> /\ ~Looping'
    BY <1>7 DEF JoinSender, inVars, Looping
  <2>2. Numbers(<<>>) = <<>> /\ IdsOf(<<>>, "control") = {} /\ Range(<<>>) = {}
    BY DEF Numbers, IdsOf, Range
  <2>3. Under({holds}, {})
    BY DEF Under
  <2> QED BY <1>a, <2>1, <2>2, <2>3 DEF HoldsInv, ControlsOwnContents
<1>8. CASE EnvAnnounces
  <2>1. wire'[Mac] = wire[Mac]
    BY <1>8, PeersValue DEF EnvAnnounces
  <2> QED BY <1>1, <1>8, <2>1 DEF EnvAnnounces, mainVars, Looping
<1>9. CASE EnvWrites \/ MacReceives \/ Signal \/ PopHigh \/ Apply \/ StopRunning \/ JoinReceiver
             \/ DeleteManager \/ StopPhys \/ (PopLow /\ low = <<>>)
  BY <1>1, <1>9 DEF EnvWrites, MacReceives, Signal, PopHigh, Apply, StopRunning, JoinReceiver,
     DeleteManager, StopPhys, PopLow, inVars, mainVars, Looping
<1>10. CASE Report \/ ReportFreed \/ Sender
  BY <1>1, <1>10 DEF Report, ReportFreed, Sender, SenderChecks, SenderPops, SendOnce,
     SendDeleted, UseAfterFree, inVars, mainVars, Looping
<1>11. ASSUME NEW p \in Peers, ReceiverChecks(p)
      PROVE  HoldsInv'
  BY <1>1, <1>11 DEF ReceiverChecks, inVars, mainVars, Looping
<1>12. CASE UNCHANGED vars
  BY <1>1, <1>12 DEF vars, inVars, mainVars, Looping
<1> QED BY <1>2, <1>3, <1>4, <1>5, <1>6, <1>7, <1>8, <1>9, <1>10, <1>11, <1>12
        DEF Next, Main, Receiver

---------------------------------------------------------------------------
(* The order of the reports.                                               *)

\* Where the numbers of the reports are taken from.
LEMMA ReportBounds ==
  ASSUME TypeOK
  PROVE  /\ got \in Seq(Int) /\ Range(got) \subseteq 1 .. pushed
         /\ pipe \in Seq(Int) /\ Range(pipe) \subseteq 1 .. pushed
         /\ sendQ \in Seq(Int) /\ Range(sendQ) \subseteq 1 .. pushed
         /\ pushed \in Nat /\ report \in 0 .. pushed /\ dropped \subseteq 1 .. pushed
<1>1. /\ got \in Seq(1 .. pushed) /\ pipe \in Seq(1 .. pushed) /\ sendQ \in Seq(1 .. pushed)
      /\ pushed \in Nat /\ report \in 0 .. pushed /\ dropped \subseteq 1 .. pushed
  BY QuotaType DEF TypeOK, OutOK
<1>2. \A s \in Seq(1 .. pushed) : s \in Seq(Int) /\ Range(s) \subseteq 1 .. pushed
  BY <1>1, SeqMonotonic, LenProperties DEF Range
<1> QED BY <1>1, <1>2

\* No step lets a report overtake another; a report is with the sending thread, in
\* its queue, received, or dropped after two attempts.
LEMMA NextReport ==
  ASSUME TypeInv, ReportInv, [Next]_vars
  PROVE  ReportInv'
<1> DEFINE G == Range(got)
           P == Range(pipe)
           R == {report} \ {0}
           Q == Range(sendQ)
<1>0. /\ got \in Seq(Int) /\ G \subseteq 1 .. pushed
      /\ pipe \in Seq(Int) /\ P \subseteq 1 .. pushed
      /\ sendQ \in Seq(Int) /\ Q \subseteq 1 .. pushed
      /\ pushed \in Nat /\ report \in 0 .. pushed /\ dropped \subseteq 1 .. pushed
  BY ReportBounds DEF TypeInv
<1>a. /\ Rising(got) /\ Rising(pipe) /\ Rising(sendQ)
      /\ Under(G, P) /\ Under(G, R) /\ Under(G, Q) /\ Under(P, R) /\ Under(P, Q) /\ Under(R, Q)
      /\ (G \cup P \cup R \cup Q) \cap dropped = {}
      /\ mgr[Mac] # "deleted" => G \cup P \cup R \cup Q \cup dropped = 1 .. pushed
  BY DEF ReportInv
<1>b. TypeOK /\ PhaseInv
  BY DEF TypeInv
<1>c. Rising(<<>>) /\ Range(<<>>) = {} /\ \A A : Under(A, {}) /\ Under({}, A)
  BY DEF Rising, Range, Under
<1>1. CASE /\ UNCHANGED <<got, pipe, report, sendQ, dropped, pushed>>
           /\ mgr'[Mac] = mgr[Mac] \/ mgr[Mac] # "deleted"
  BY <1>1 DEF ReportInv
<1>2. CASE MacReceives
  <2>1. /\ pipe # <<>> /\ got' = Append(got, Head(pipe)) /\ pipe' = Tail(pipe)
        /\ UNCHANGED <<mgr, report, sendQ, dropped, pushed>>
    BY <1>2 DEF MacReceives
  <2> DEFINE x == Head(pipe)
             T == Range(Tail(pipe))
  <2>2. x \in Int /\ P = {x} \cup T /\ Rising(pipe') /\ Under({x}, T)
    BY <1>0, <1>a, <2>1, RisingTail
  <2> HIDE DEF x
  <2>3. Under(G, {x})
    BY <1>a, <2>2 DEF Under
  <2>4. Range(got') = G \cup {x} /\ Rising(got')
    BY <1>0, <1>a, <2>1, <2>2, <2>3, RisingAppend DEF x
  <2>5. T = Range(pipe')
    BY <2>1
  <2> HIDE DEF G, P, R, Q, T
  <2>6. /\ Under(G \cup {x}, T) /\ Under(G \cup {x}, R) /\ Under(G \cup {x}, Q)
        /\ Under(T, R) /\ Under(T, Q)
    BY <1>a, <2>2 DEF Under
  <2>7. G \cup P \cup R \cup Q = (G \cup {x}) \cup T \cup R \cup Q
    BY <2>2
  <2> QED BY <1>a, <2>1, <2>2, <2>4, <2>5, <2>6, <2>7 DEF ReportInv, R, Q
<1>3. CASE Report
  <2>1. /\ sendQ' = Append(sendQ, pushed + 1) /\ pushed' = pushed + 1
        /\ UNCHANGED <<mgr, got, pipe, report, dropped>>
    BY <1>3 DEF Report
  <2>2. Under(Q, {pushed + 1})
    BY <1>0 DEF Under
  <2>3. Range(sendQ') = Q \cup {pushed + 1} /\ Rising(sendQ')
    BY <1>0, <1>a, <2>1, <2>2, RisingAppend
  <2>4. 1 .. pushed' = 1 .. pushed \cup {pushed + 1} /\ pushed + 1 \notin dropped
    BY <1>0, <2>1
  <2>5. /\ Under(G, Q \cup {pushed + 1}) /\ Under(P, Q \cup {pushed + 1})
        /\ Under(R, Q \cup {pushed + 1})
    BY <1>0, <1>a DEF Under
  <2> HIDE DEF G, P, R, Q
  <2>6. (G \cup P \cup R \cup Range(sendQ')) \cap dropped = {}
    BY <1>a, <2>3, <2>4
  <2>7. mgr[Mac] # "deleted" =>
          G \cup P \cup R \cup Range(sendQ') \cup dropped = 1 .. pushed'
    BY <1>a, <2>3, <2>4
  <2> QED BY <1>a, <2>1, <2>3, <2>5, <2>6, <2>7 DEF ReportInv, G, P, R
<1>4. CASE ReportFreed
  <2>1. /\ dropped' = dropped \cup {pushed + 1}
        /\ UNCHANGED <<mgr, got, pipe, report, sendQ>> /\ mgr[Mac] = "deleted"
    BY <1>4, <1>b DEF ReportFreed, PhaseInv
  <2>2. pushed + 1 \notin G \cup P \cup R \cup Q
    BY <1>0
  <2> QED BY <1>a, <2>1, <2>2 DEF ReportInv
<1>5. CASE SenderPops /\ sendQ # <<>>
  <2>1. /\ report' = Head(sendQ) /\ sendQ' = Tail(sendQ) /\ tx = "wait"
        /\ UNCHANGED <<mgr, got, pipe, dropped, pushed>>
    BY <1>5 DEF SenderPops
  <2>2. R = {}
    BY <1>b, <2>1 DEF PhaseInv
  <2> DEFINE x == Head(sendQ)
             T == Range(Tail(sendQ))
  <2>3. x \in Int /\ Q = {x} \cup T /\ Rising(sendQ') /\ Under({x}, T)
    BY <1>0, <1>5, <1>a, <2>1, RisingTail
  <2>4. {report'} \ {0} = {x}
    BY <1>0, <2>1, <2>3
  <2>5. T = Range(sendQ')
    BY <2>1
  <2> HIDE DEF x, G, P, R, Q, T
  <2>6. Under(G, {x}) /\ Under(P, {x}) /\ Under(G, T) /\ Under(P, T)
    BY <1>a, <2>3 DEF Under
  <2>7. G \cup P \cup R \cup Q = G \cup P \cup {x} \cup T
    BY <2>2, <2>3
  <2> QED BY <1>a, <2>1, <2>3, <2>4, <2>5, <2>6, <2>7 DEF ReportInv, G, P
<1>6. CASE SendOnce
  <2>1. report # 0 /\ UNCHANGED <<mgr, got, sendQ, pushed>>
    BY <1>b, <1>6 DEF SendOnce, PhaseInv
  <2>2. R = {report} /\ report \in Int
    BY <1>0, <2>1
  <2>7. Under(G, {report}) /\ Under(P, {report}) /\ Under({report}, Q)
    BY <1>a, <2>2
  <2>3. \/ pipe' = Append(pipe, report) /\ report' = 0 /\ dropped' = dropped
        \/ UNCHANGED <<pipe, report, dropped>>
        \/ pipe' = pipe /\ report' = 0 /\ dropped' = dropped \cup {report}
    BY <1>6 DEF SendOnce
  <2>4. CASE pipe' = Append(pipe, report) /\ report' = 0 /\ dropped' = dropped
    <3>1. Range(pipe') = P \cup {report} /\ Rising(pipe')
      BY <1>0, <1>a, <2>2, <2>4, <2>7, RisingAppend
    <3>2. {report'} \ {0} = {}
      BY <2>4
    <3> HIDE DEF G, P, R, Q
    <3>3. Under(G, P \cup {report}) /\ Under(P \cup {report}, Q)
      BY <1>a, <2>7 DEF Under
    <3>4. (G \cup Range(pipe') \cup ({report'} \ {0}) \cup Q) \cap dropped = {}
      BY <1>a, <2>2, <3>1, <3>2
    <3>5. mgr[Mac] # "deleted" =>
            G \cup Range(pipe') \cup ({report'} \ {0}) \cup Q \cup dropped = 1 .. pushed
      BY <1>a, <2>2, <3>1, <3>2
    <3>6. \A A : Under(A, {report'} \ {0}) /\ Under({report'} \ {0}, A)
      BY <1>c, <3>2
    <3> QED BY <1>a, <2>1, <2>4, <3>1, <3>3, <3>4, <3>5, <3>6 DEF ReportInv, G, Q
  <2>5. CASE UNCHANGED <<pipe, report, dropped>>
    BY <1>1, <2>1, <2>5
  <2>6. CASE pipe' = pipe /\ report' = 0 /\ dropped' = dropped \cup {report}
    <3>1. {report'} \ {0} = {}
      BY <2>6
    <3> HIDE DEF G, P, R, Q
    <3>2. report \notin G \cup P \cup Q
      BY <2>2, <2>7 DEF Under
    <3>3. (G \cup P \cup ({report'} \ {0}) \cup Q) \cap dropped' = {}
      BY <1>a, <2>6, <3>1, <3>2
    <3>4. mgr[Mac] # "deleted" =>
            G \cup P \cup ({report'} \ {0}) \cup Q \cup dropped' = 1 .. pushed
      BY <1>a, <2>2, <2>6, <3>1
    <3>5. \A A : Under(A, {report'} \ {0}) /\ Under({report'} \ {0}, A)
      BY <1>c, <3>1
    <3> QED BY <1>a, <2>1, <2>6, <3>3, <3>4, <3>5 DEF ReportInv, G, P, Q
  <2> QED BY <2>3, <2>4, <2>5, <2>6
<1>7. CASE SendDeleted
  <2>1. /\ report # 0 /\ report' = 0 /\ dropped' = dropped \cup {report}
        /\ UNCHANGED <<mgr, got, pipe, sendQ, pushed>> /\ mgr[Mac] = "deleted"
    BY <1>b, <1>7 DEF SendDeleted, PhaseInv
  <2>2. R = {report} /\ {report'} \ {0} = {}
    BY <2>1
  <2> HIDE DEF G, P, R, Q
  <2>3. report \notin G \cup P \cup Q
    BY <1>0, <1>a, <2>2 DEF Under
  <2> QED BY <1>a, <1>c, <2>1, <2>2, <2>3 DEF ReportInv, G, P, Q
<1>8. CASE JoinReceiver
  <2>1. /\ main = "joinReceiver" /\ mgr' = [mgr EXCEPT ![Targets[next]] = "stopped"]
        /\ UNCHANGED <<got, pipe, report, sendQ, dropped, pushed>>
    BY <1>8 DEF JoinReceiver, outVars
  <2>2. /\ Targets[next] = (IF next = 1 THEN Mac ELSE Env)
        /\ mgr \in [Peers -> {"up", "stopped", "deleted"}]
    BY <1>b, PeersValue DEF TypeOK, NodeOK
  <2>3. mgr'[Mac] = mgr[Mac] \/ mgr[Mac] # "deleted"
    BY <1>b, <2>1, <2>2, PeersValue DEF PhaseInv
  <2> QED BY <1>1, <2>1, <2>3
<1>9. CASE DeleteManager
  <2>1. /\ main = "deleteManager" /\ mgr' = [mgr EXCEPT ![Targets[next]] = "deleted"]
        /\ UNCHANGED <<got, report, sendQ, dropped, pushed>> /\ pipe' \in {pipe, <<>>}
    BY <1>9 DEF DeleteManager
  <2>2. /\ Targets[next] = (IF next = 1 THEN Mac ELSE Env)
        /\ mgr \in [Peers -> {"up", "stopped", "deleted"}]
    BY <1>b, PeersValue DEF TypeOK, NodeOK
  <2>3. mgr'[Mac] = "deleted"
    BY <1>b, <2>1, <2>2, PeersValue DEF PhaseInv
  <2>4. Rising(pipe') /\ Range(pipe') \subseteq P
    BY <1>a, <1>c, <2>1
  <2> HIDE DEF G, P, R, Q
  <2>5. Under(G, Range(pipe')) /\ Under(Range(pipe'), R) /\ Under(Range(pipe'), Q)
    BY <1>a, <2>4 DEF Under
  <2>6. (G \cup Range(pipe') \cup R \cup Q) \cap dropped = {}
    BY <1>a, <2>4
  <2> QED BY <1>a, <2>1, <2>3, <2>4, <2>5, <2>6 DEF ReportInv, G, R, Q
<1>10. CASE JoinSender
  <2>1. /\ sendQ' = <<>> /\ mgr[Mac] = "deleted"
        /\ UNCHANGED <<mgr, got, pipe, report, dropped, pushed>>
    BY <1>b, <1>10 DEF JoinSender, PhaseInv
  <2>2. (G \cup P \cup R) \cap dropped = {}
    BY <1>a
  <2> QED BY <1>a, <1>c, <2>1, <2>2 DEF ReportInv
<1>11. CASE MacSends \/ EnvWrites \/ EnvAnnounces \/ Signal \/ PopHigh \/ Apply \/ PopLow \/ Relay
              \/ StopRunning \/ StopPhys
  BY <1>1, <1>11 DEF MacSends, EnvWrites, EnvAnnounces, Signal, PopHigh, Apply, PopLow, Relay,
     StopRunning, StopPhys, outVars
<1>12. ASSUME NEW p \in Peers, Receiver(p)
       PROVE  ReportInv'
  BY <1>1, <1>12 DEF Receiver, ReceiverChecks, Receive, outVars
<1>13. CASE SenderChecks \/ (SenderPops /\ sendQ = <<>>)
  BY <1>1, <1>13 DEF SenderChecks, SenderPops
<1>14. CASE UNCHANGED vars
  BY <1>1, <1>14 DEF vars, outVars
<1> QED BY <1>2, <1>3, <1>4, <1>5, <1>6, <1>7, <1>8, <1>9, <1>10, <1>11, <1>12, <1>13, <1>14
        DEF Next, Main, Sender

---------------------------------------------------------------------------
(* MessagesInOrder.                                                        *)

\* A sequence of one number or none.
LEMMA OneOfType ==
  ASSUME NEW x \in Int
  PROVE  /\ OneOf(x) \in Seq(Int) /\ Rising(OneOf(x)) /\ Range(OneOf(x)) = {x} \ {0}
<1>1. CASE x = 0
  BY <1>1 DEF OneOf, Rising, Range
<1>2. CASE x # 0
  <2>1. OneOf(x) = <<x>> /\ <<x>> \in Seq(Int) /\ DOMAIN <<x>> = {1} /\ <<x>>[1] = x
    BY <1>2 DEF OneOf
  <2> QED BY <1>2, <2>1 DEF Rising, Range
<1> QED BY <1>1, <1>2

\* So the controls are handled in the order they were sent,
LEMMA ControlsFollow ==
  ASSUME TypeInv, ControlInv
  PROVE  ControlsInOrder
<1> DEFINE H == Range(handled)
           C == {control} \ {0}
           L == Range(Numbers(low))
           W == Range(Numbers(wire[Mac]))
           done == handled \o OneOf(control)
           w == wire[Mac]
           way == low \o w
<1>1. /\ handled \in Seq(Int) /\ OneOf(control) \in Seq(Int) /\ Rising(OneOf(control))
      /\ Range(OneOf(control)) = C /\ Numbers(low) \in Seq(Int) /\ Numbers(wire[Mac]) \in Seq(Int)
      /\ low \in Seq(Message) /\ w \in Seq(Message)
  <2>1. control \in Int
    BY ControlBounds
  <2> QED BY <2>1, ControlBounds, OneOfType
<1>2. /\ Rising(handled) /\ Rising(Numbers(low)) /\ Rising(Numbers(wire[Mac]))
      /\ Under(H, C) /\ Under(H, L) /\ Under(H, W) /\ Under(C, L) /\ Under(C, W) /\ Under(L, W)
      /\ ~goExit => asked \subseteq H \cup C \cup IdsOf(low, "control")
                                      \cup IdsOf(wire[Mac], "control")
  BY DEF ControlInv
<1>3. done \in Seq(Int) /\ Range(done) = H \cup C /\ Rising(done)
  <2>1. Under(Range(handled), Range(OneOf(control)))
    BY <1>1, <1>2
  <2>2. done \in Seq(Int) /\ Range(done) = Range(handled) \cup Range(OneOf(control)) /\ Rising(done)
    <3> HIDE DEF H, C, L, W
    <3> QED BY <1>1, <1>2, <2>1, RisingConcat
  <2> QED BY <1>1, <2>2
<1>4. /\ Numbers(way) = Numbers(low) \o Numbers(wire[Mac])
      /\ IdsOf(way, "control") = IdsOf(low, "control") \cup IdsOf(wire[Mac], "control")
  <2> HIDE DEF H, C, L, W, w
  <2> QED BY <1>1, NumbersConcat DEF w
<1>5. Numbers(way) \in Seq(Int) /\ Range(Numbers(way)) = L \cup W /\ Rising(Numbers(way))
  BY <1>1, <1>2, <1>4, RisingConcat
<1> HIDE DEF H, C, L, W, done, way
<1>6. Under(Range(done), Range(Numbers(way)))
  BY <1>2, <1>3, <1>5 DEF Under
<1>7. Rising(done \o Numbers(way))
  BY <1>3, <1>5, <1>6, RisingConcat
<1>8. ~goExit => asked \subseteq Range(done) \cup IdsOf(way, "control")
  BY <1>2, <1>3, <1>4
<1> QED BY <1>7, <1>8 DEF ControlsInOrder, done, way

\* and the reports arrive in the order the PHYs made them.
LEMMA ReportsFollow ==
  ASSUME TypeInv, ReportInv
  PROVE  ReportsInOrder
<1> DEFINE G == Range(got)
           P == Range(pipe)
           R == {report} \ {0}
           Q == Range(sendQ)
           a == got \o pipe
           b == a \o OneOf(report)
           c == b \o sendQ
<1>1. /\ got \in Seq(Int) /\ pipe \in Seq(Int) /\ sendQ \in Seq(Int)
      /\ OneOf(report) \in Seq(Int) /\ Rising(OneOf(report)) /\ Range(OneOf(report)) = R
  <2>1. report \in Int
    BY ReportBounds DEF TypeInv
  <2> QED BY <2>1, ReportBounds, OneOfType DEF TypeInv
<1>2. /\ Rising(got) /\ Rising(pipe) /\ Rising(sendQ)
      /\ Under(G, P) /\ Under(G, R) /\ Under(G, Q) /\ Under(P, R) /\ Under(P, Q) /\ Under(R, Q)
      /\ (G \cup P \cup R \cup Q) \cap dropped = {}
      /\ mgr[Mac] # "deleted" => G \cup P \cup R \cup Q \cup dropped = 1 .. pushed
  BY DEF ReportInv
<1>3. a \in Seq(Int) /\ Range(a) = G \cup P /\ Rising(a)
  BY <1>1, <1>2, RisingConcat
<1> HIDE DEF a
<1>4. b \in Seq(Int) /\ Range(b) = G \cup P \cup R /\ Rising(b)
  <2>1. Under(Range(a), Range(OneOf(report)))
    BY <1>1, <1>2, <1>3 DEF Under
  <2>2. /\ b \in Seq(Int) /\ Range(b) = Range(a) \cup Range(OneOf(report)) /\ Rising(b)
    <3> HIDE DEF G, P, R, Q
    <3> QED BY <1>1, <1>3, <2>1, RisingConcat
  <2> QED BY <1>1, <1>3, <2>2
<1> HIDE DEF b
<1>5. Range(c) = G \cup P \cup R \cup Q /\ Rising(c)
  <2>1. Under(Range(b), Q)
    BY <1>2, <1>4 DEF Under
  <2> QED BY <1>1, <1>2, <1>4, <2>1, RisingConcat
<1>6. c = got \o pipe \o OneOf(report) \o sendQ
  BY DEF a, b
<1> HIDE DEF c
<1> QED BY <1>2, <1>5, <1>6 DEF ReportsInOrder

\* No message and no report overtakes another or is lost unnoticed, and every
\* control is relayed once and with its own contents, although basic_ctrl is shared
\* and left as it was by a message of an unknown kind, which relays it again: the
\* queues of SafeQueue, the threads that fill and drain them, the parser, and the
\* order in which terminate_communicator takes them down.
THEOREM InOrder == Spec => []MessagesInOrder
<1>1. Init => ControlInv /\ HoldsInv /\ ReportInv
  <2> SUFFICES ASSUME Init
               PROVE  ControlInv /\ HoldsInv /\ ReportInv
    OBVIOUS
  <2>1. /\ handled = <<>> /\ low = <<>> /\ wire[Mac] = <<>> /\ control = 0 /\ asked = {}
        /\ told = {}
        /\ got = <<>> /\ pipe = <<>> /\ sendQ = <<>> /\ report = 0 /\ dropped = {} /\ pushed = 0
    BY PeersValue DEF Init
  <2>2. Rising(<<>>) /\ Range(<<>>) = {} /\ Numbers(<<>>) = <<>> /\ IdsOf(<<>>, "control") = {}
    BY DEF Rising, Range, Numbers, IdsOf
  <2>3. \A A : Under(A, {}) /\ Under({}, A)
    BY DEF Under
  <2>4. ControlInv
    <3>1. {control} \ {0} = {}
      BY <2>1
    <3>2. \A A : asked \subseteq A
      BY <2>1
    <3>3. /\ Range(handled) = {} /\ Range(Numbers(low)) = {} /\ Range(Numbers(wire[Mac])) = {}
          /\ Rising(handled) /\ Rising(Numbers(low)) /\ Rising(Numbers(wire[Mac]))
      BY <2>1, <2>2
    <3>4. Under({}, {})
      BY <2>3
    <3>5. asked \subseteq Range(handled) \cup ({control} \ {0}) \cup IdsOf(low, "control")
                            \cup IdsOf(wire[Mac], "control")
      BY <3>2
    <3> QED BY <3>1, <3>3, <3>4, <3>5 DEF ControlInv
  <2>6. ReportInv
    <3>1. {report} \ {0} = {}
      BY <2>1
    <3>2. /\ Range(got) = {} /\ Range(pipe) = {} /\ Range(sendQ) = {}
          /\ Rising(got) /\ Rising(pipe) /\ Rising(sendQ)
      BY <2>1, <2>2
    <3>3. Under({}, {})
      BY <2>3
    <3>4. dropped = {} /\ 1 .. pushed = {}
      BY <2>1
    <3> QED BY <3>1, <3>2, <3>3, <3>4 DEF ReportInv
  <2>5. HoldsInv
    BY <2>1, <2>2, <2>3 DEF HoldsInv, ControlsOwnContents
  <2> QED BY <2>4, <2>5, <2>6
<1>2. TypeInv /\ ControlInv /\ HoldsInv /\ ReportInv /\ [Next]_vars
        => ControlInv' /\ HoldsInv' /\ ReportInv'
  BY NextControl, NextHolds, NextReport
<1>3. TypeInv /\ ControlInv /\ HoldsInv /\ ReportInv => MessagesInOrder
  BY ControlsFollow, ReportsFollow DEF HoldsInv, MessagesInOrder
<1> QED BY <1>1, <1>2, <1>3, TypeInvariant, PTL DEF Spec

---------------------------------------------------------------------------
(* EnvPrompt.                                                              *)

\* Each turn of the main loop moves the high queue at least as fast as the low one.
LEMMA NextPrompt ==
  ASSUME TypeInv, PromptInv, [Next]_vars
  PROVE  PromptInv'
<1> DEFINE w == IF main \in {"apply", "low"} THEN 0 ELSE 1
           S(v) == [kind |-> "set", id |-> v]
<1>0. /\ waits \in [2 .. quota.env + 1 -> Int] /\ high \in Seq(Message)
      /\ Len(high) \in Nat /\ DOMAIN high = 1 .. Len(high)
  BY LenProperties DEF TypeInv, TypeOK, NodeOK
<1>a. /\ \A v \in DOMAIN waits : waits[v] >= 0
      /\ \A v \in DOMAIN waits, i \in DOMAIN high : high[i] = S(v) => waits[v] >= i - w
  <2>1. \A i \in DOMAIN high : i \in Int
    BY <1>0
  <2> QED BY <2>1 DEF PromptInv
<1>b. ASSUME DOMAIN waits' = DOMAIN waits,
             \A v \in DOMAIN waits : waits'[v] >= 0,
             \A v \in DOMAIN waits, i \in DOMAIN high' : high'[i] = S(v) =>
                waits'[v] >= IF main' \in {"apply", "low"} THEN i ELSE i - 1
      PROVE  PromptInv'
  BY <1>b DEF PromptInv
<1>1. CASE /\ UNCHANGED <<waits, high>>
           /\ main \in {"apply", "low"} \/ main' \notin {"apply", "low"}
  <2>1. \A v \in DOMAIN waits, i \in DOMAIN high : high[i] = S(v) =>
          waits[v] >= IF main' \in {"apply", "low"} THEN i ELSE i - 1
    BY <1>0, <1>1, <1>a
  <2> QED BY <1>1, <1>a, <1>b, <2>1
<1>2. ASSUME NEW p \in Peers, Receive(p), wire[p] # <<>>
      PROVE  PromptInv'
  <2> DEFINE m == Head(wire[p])
  <2>1. /\ high' = IF Filter(m) = "high" THEN Append(high, m) ELSE high
        /\ waits' = IF m.kind = "set" THEN [waits EXCEPT ![m.id] = Len(high) + 1] ELSE waits
        /\ UNCHANGED main
    BY <1>2 DEF Receive, mainVars
  <2>2. m \in Message /\ (m.kind = "set" => Filter(m) = "high")
    BY <1>2, HeadOfWire DEF TypeInv, PeerMsgs
  <2> HIDE DEF m
  <2>3. CASE m.kind = "set"
    <3>1. /\ DOMAIN waits' = DOMAIN waits
          /\ \A v \in DOMAIN waits : waits'[v] = IF v = m.id THEN Len(high) + 1 ELSE waits[v]
      BY <1>0, <2>1, <2>3
    <3>2. \A v \in DOMAIN waits : waits'[v] >= 0
      BY <1>0, <1>a, <3>1
    <3>3. /\ high' = Append(high, m) /\ DOMAIN high' = 1 .. Len(high) + 1
          /\ \A i \in 1 .. Len(high) : high'[i] = high[i]
          /\ high'[Len(high) + 1] = m
      <4>1. Append(high, m) \in Seq(Message) /\ high' = Append(high, m)
        BY <1>0, <2>1, <2>2, <2>3, AppendProperties
      <4> QED BY <1>0, <2>2, <4>1, AppendProperties, LenProperties
    <3>4. ASSUME NEW v \in DOMAIN waits, NEW i \in DOMAIN high', high'[i] = S(v)
          PROVE  waits'[v] >= IF main' \in {"apply", "low"} THEN i ELSE i - 1
      <4>1. CASE v = m.id
        BY <1>0, <3>1, <3>3, <4>1
      <4>2. CASE v # m.id
        <5>1. i # Len(high) + 1
          BY <3>3, <3>4, <4>2
        <5>2. i \in DOMAIN high /\ high[i] = S(v)
          BY <1>0, <3>3, <3>4, <5>1
        <5> QED BY <1>0, <1>a, <2>1, <3>1, <4>2, <5>2
      <4> QED BY <4>1, <4>2
    <3> QED BY <1>b, <3>1, <3>2, <3>4
  <2>4. CASE m.kind # "set" /\ Filter(m) = "high"
    <3>1. /\ high' = Append(high, m) /\ DOMAIN high' = 1 .. Len(high) + 1
          /\ \A i \in 1 .. Len(high) : high'[i] = high[i]
          /\ high'[Len(high) + 1] = m
      <4>1. Append(high, m) \in Seq(Message) /\ high' = Append(high, m)
        BY <1>0, <2>1, <2>2, <2>4, AppendProperties
      <4> QED BY <1>0, <2>2, <4>1, AppendProperties, LenProperties
    <3>2. ASSUME NEW v \in DOMAIN waits, NEW i \in DOMAIN high', high'[i] = S(v)
          PROVE  waits'[v] >= IF main' \in {"apply", "low"} THEN i ELSE i - 1
      <4>1. S(v).kind = "set"
        OBVIOUS
      <4>2. i # Len(high) + 1
        BY <2>4, <3>1, <3>2, <4>1
      <4>3. i \in DOMAIN high /\ high[i] = S(v)
        BY <1>0, <3>1, <3>2, <4>2
      <4> QED BY <1>0, <1>a, <2>1, <2>4, <4>3
    <3> QED BY <1>a, <1>b, <2>1, <2>4, <3>2
  <2>5. CASE Filter(m) # "high"
    BY <1>1, <2>1, <2>2, <2>5
  <2> QED BY <2>3, <2>4, <2>5
<1>3. CASE PopHigh
  <2>1. /\ main = "high" /\ main' \in {"low", "apply"} /\ UNCHANGED waits
        /\ \/ high = <<>> /\ high' = high
           \/ high # <<>> /\ high' = Tail(high)
    BY <1>3 DEF PopHigh
  <2>2. CASE high = <<>> /\ high' = high
    <3>1. DOMAIN high' = {}
      BY <2>2
    <3> QED BY <1>a, <1>b, <2>1, <3>1
  <2>3. CASE high # <<>> /\ high' = Tail(high)
    <3>1. /\ DOMAIN high' = 1 .. Len(high) - 1
          /\ \A i \in 1 .. Len(high) - 1 : high'[i] = high[i + 1]
      <4>1. Tail(high) \in Seq(Message)
        BY <1>0, <2>3, HeadTailProperties
      <4> QED BY <1>0, <2>3, <4>1, HeadTailProperties, LenProperties
    <3>2. ASSUME NEW v \in DOMAIN waits, NEW i \in DOMAIN high', high'[i] = S(v)
          PROVE  waits'[v] >= IF main' \in {"apply", "low"} THEN i ELSE i - 1
      <4>1. i + 1 \in DOMAIN high /\ high[i + 1] = S(v) /\ i \in Int
        BY <1>0, <3>1, <3>2
      <4>2. waits[v] >= (i + 1) - 1
        BY <1>a, <2>1, <4>1
      <4> QED BY <1>0, <2>1, <4>1, <4>2
    <3> QED BY <1>a, <1>b, <2>1, <3>2
  <2> QED BY <2>1, <2>2, <2>3
<1>4. ASSUME PopLow, low # <<>>
      PROVE  PromptInv'
  <2> DEFINE u == [v \in DOMAIN waits |-> IF S(v) \in Range(high) THEN waits[v] - 1 ELSE waits[v]]
  <2>1. /\ main = "low" /\ main' \in {"relay", "high"} /\ UNCHANGED high /\ waits' = u
    BY <1>4 DEF PopLow
  <2>2. \A v \in DOMAIN waits, i \in DOMAIN high : high[i] = S(v) => waits[v] >= i
    BY <1>0, <1>a, <2>1
  <2>3. \A v \in DOMAIN waits : u[v] >= 0
    <3> SUFFICES ASSUME NEW v \in DOMAIN waits
                 PROVE  u[v] >= 0
      OBVIOUS
    <3>1. CASE S(v) \in Range(high)
      <4>1. PICK i \in DOMAIN high : high[i] = S(v)
        BY <3>1 DEF Range
      <4>2. waits[v] >= i
        BY <2>2, <4>1
      <4> QED BY <1>0, <3>1, <4>2
    <3> QED BY <1>a, <3>1
  <2>4. ASSUME NEW v \in DOMAIN waits, NEW i \in DOMAIN high, high[i] = S(v)
        PROVE  u[v] >= i - 1
    <3>1. S(v) \in Range(high)
      BY <2>4 DEF Range
    <3>2. waits[v] >= i
      BY <2>2, <2>4
    <3> QED BY <1>0, <3>1, <3>2
  <2>5. DOMAIN u = DOMAIN waits
    OBVIOUS
  <2> HIDE DEF u
  <2> QED BY <1>b, <2>1, <2>3, <2>4, <2>5
<1>5. CASE JoinSender
  <2>1. high' = <<>> /\ UNCHANGED waits
    BY <1>5 DEF JoinSender
  <2> QED BY <1>a, <1>b, <2>1
<1>6. CASE Apply \/ Relay \/ StopRunning \/ JoinReceiver \/ DeleteManager \/ StopPhys
             \/ (PopLow /\ low = <<>>)
  BY <1>1, <1>6 DEF Apply, Relay, StopRunning, JoinReceiver, DeleteManager, StopPhys, PopLow
<1>7. CASE MacSends \/ EnvWrites \/ EnvAnnounces \/ MacReceives \/ Signal
  BY <1>1, <1>7 DEF MacSends, EnvWrites, EnvAnnounces, MacReceives, Signal, mainVars
<1>8. CASE Report \/ SenderChecks \/ SenderPops \/ SendOnce
  BY <1>1, <1>8 DEF Report, SenderChecks, SenderPops, SendOnce, mainVars
<1>9. CASE SendDeleted \/ ReportFreed
  BY <1>1, <1>9 DEF SendDeleted, ReportFreed, UseAfterFree
<1>10. ASSUME NEW p \in Peers, ReceiverChecks(p) \/ (Receive(p) /\ wire[p] = <<>>)
       PROVE  PromptInv'
  BY <1>1, <1>10 DEF ReceiverChecks, Receive, mainVars
<1>11. CASE UNCHANGED vars
  BY <1>1, <1>11 DEF vars, mainVars
<1> QED BY <1>2, <1>3, <1>4, <1>5, <1>6, <1>7, <1>8, <1>9, <1>10, <1>11
        DEF Next, Main, Receiver, Sender

\* The main loop of trx.c alternates between the queues, so that controls do
\* not hold up an environment update.
THEOREM Prompt == Spec => []EnvPrompt
<1>1. Init => PromptInv
  BY DEF Init, PromptInv
<1>2. PromptInv => EnvPrompt
  BY DEF PromptInv, EnvPrompt
<1> QED BY <1>1, <1>2, NextPrompt, TypeInvariant, PTL DEF Spec

---------------------------------------------------------------------------
(* EnvCurrent.                                                             *)

\* An announcement stays where it is until it is taken.
LEMMA AnnouncedMoves ==
  ASSUME NEW ms \in Seq(Message)
  PROVE  /\ \A m \in Message : Announced(Append(ms, m)) <=> Announced(ms) \/ m.kind = "set"
         /\ ms # <<>> => (Announced(ms) <=> Announced(Tail(ms)) \/ Head(ms).kind = "set")
<1>1. \A s \in Seq(Message) : Announced(s) <=> IdsOf(s, "set") # {}
  <2> SUFFICES ASSUME NEW s \in Seq(Message)
               PROVE  Announced(s) <=> IdsOf(s, "set") # {}
    OBVIOUS
  <2> QED BY DEF Announced, IdsOf
<1>2. ASSUME NEW m \in Message
      PROVE  Announced(Append(ms, m)) <=> Announced(ms) \/ m.kind = "set"
  <2>1. Append(ms, m) \in Seq(Message)
    BY AppendProperties
  <2>2. IdsOf(Append(ms, m), "set") = IdsOf(ms, "set") \cup (IF m.kind = "set" THEN {m.id} ELSE {})
    BY NumbersAppend
  <2> QED BY <1>1, <2>1, <2>2
<1>3. ASSUME ms # <<>>
      PROVE  Announced(ms) <=> Announced(Tail(ms)) \/ Head(ms).kind = "set"
  <2>1. Tail(ms) \in Seq(Message)
    BY <1>3, HeadTailProperties
  <2>2. IdsOf(ms, "set") = IdsOf(Tail(ms), "set")
          \cup (IF Head(ms).kind = "set" THEN {Head(ms).id} ELSE {})
    BY <1>3, NumbersTail
  <2> QED BY <1>1, <2>1, <2>2
<1> QED BY <1>2, <1>3

\* No announcement is on the way or in the queue.
Settled == (\A p \in Peers : ~Announced(wire[p])) /\ ~Announced(high)

\* Each step keeps env_update or the PHYs at what environment.json holds, or an
\* announcement is still on its way.
LEMMA NextCurrent ==
  ASSUME TypeInv, CurrentInv, [Next]_vars
  PROVE  CurrentInv'
<1>0. /\ wire \in [Peers -> Seq(Message)] /\ high \in Seq(Message)
      /\ TypeOK /\ QueuesInv /\ PhaseInv
  BY DEF TypeInv, TypeOK, InOK, NodeOK
<1>a. ASSUME ~goExit, file # Broken, version > 1, Settled
      PROVE  /\ update.updated => update.version = file
             /\ main # "apply" \/ ~update.updated => applied = file
  BY <1>a DEF CurrentInv, Settled
<1>b. ASSUME ~goExit' /\ file' # Broken /\ version' > 1 /\ Settled'
               => /\ update'.updated => update'.version = file'
                  /\ main' # "apply" \/ ~update'.updated => applied' = file'
      PROVE  CurrentInv'
  BY <1>b DEF CurrentInv, Settled
<1>1. CASE /\ UNCHANGED <<file, version, update, applied>> /\ (Settled' => Settled)
           /\ (goExit => goExit') /\ (main' = main \/ goExit' \/ (main # "apply" /\ main' # "apply"))
  BY <1>1, <1>a, <1>b
<1>2. CASE MacSends
  <2>1. PICK k \in quota.noise \cup {"control"} :
          wire' = [wire EXCEPT ![Mac] = Append(@, [kind |-> k, id |-> sent + 1])]
    BY <1>2 DEF MacSends
  <2> DEFINE e == [kind |-> k, id |-> sent + 1]
  <2>2. e \in Message
    BY QuotaType DEF Message, TypeInv
  <2>3. /\ wire'[Mac] = Append(wire[Mac], e) /\ UNCHANGED high
        /\ \A p \in Peers : p # Mac => wire'[p] = wire[p]
    BY <1>0, <1>2, <2>1, PeersValue DEF MacSends
  <2> HIDE DEF e
  <2>4. Announced(wire[Mac]) => Announced(wire'[Mac])
    BY <1>0, <2>2, <2>3, PeersValue, AnnouncedMoves
  <2>5. Settled' => Settled
    BY <2>3, <2>4, PeersValue DEF Settled
  <2> QED BY <1>1, <1>2, <2>5 DEF MacSends, mainVars, stopVars
<1>3. CASE EnvWrites
  BY <1>3, <1>b DEF EnvWrites
<1>4. CASE EnvAnnounces
  <2> DEFINE e == [kind |-> "set", id |-> version]
  <2>1. e \in Message /\ e.kind = "set" /\ Env \in Peers
    BY <1>0, <1>4, QuotaType DEF Message, Kinds, TypeInv, EnvAnnounces, PhaseInv
  <2>2. wire'[Env] = Append(wire[Env], e)
    BY <1>0, <1>4, <2>1 DEF EnvAnnounces
  <2> HIDE DEF e
  <2>3. Announced(wire'[Env])
    BY <1>0, <2>1, <2>2, AnnouncedMoves
  <2> QED BY <1>b, <2>1, <2>3 DEF Settled
<1>5. ASSUME NEW p \in Peers, Receive(p), wire[p] # <<>>
      PROVE  CurrentInv'
  <2> DEFINE m == Head(wire[p])
             t == Tail(wire[p])
  <2>1. /\ wire' = [wire EXCEPT ![p] = t]
        /\ high' = IF Filter(m) = "high" THEN Append(high, m) ELSE high
        /\ UNCHANGED <<file, version, update, applied, main, goExit>>
    BY <1>5 DEF Receive, mainVars, stopVars
  <2>2. m \in Message /\ (m.kind = "set" => Filter(m) = "high")
    BY <1>0, <1>5, HeadOfWire DEF PeerMsgs
  <2>3. Announced(wire[p]) <=> Announced(t) \/ m.kind = "set"
    BY <1>0, <1>5, AnnouncedMoves
  <2>4. wire'[p] = t /\ \A q \in Peers : q # p => wire'[q] = wire[q]
    BY <1>0, <2>1
  <2> HIDE DEF m, t
  <2>5. (Announced(high) \/ m.kind = "set") => Announced(high')
    BY <1>0, <2>1, <2>2, AnnouncedMoves
  <2>6. Settled' => Settled
    BY <2>3, <2>4, <2>5 DEF Settled
  <2> QED BY <1>1, <2>1, <2>6
<1>6. ASSUME PopHigh, high # <<>>
      PROVE  CurrentInv'
  <2> DEFINE m == Head(high)
  <2>1. /\ high' = Tail(high) /\ update' = Parsed(m) /\ main = "high" /\ main' = "apply"
        /\ UNCHANGED <<wire, file, version, applied, goExit>>
    BY <1>6 DEF PopHigh, inVars, stopVars
  <2>2. m \in HighMsgs
    BY <1>0, <1>6, HeadTailProperties DEF QueuesInv
  <2>3. /\ m.kind # "set" => Parsed(m).version = update.version
        /\ m.kind # "set" /\ Parsed(m).updated => update.updated
        /\ m.kind = "set" /\ file # Broken => Parsed(m).version = file /\ Parsed(m).updated
    BY <1>0, <2>2, ParsedType
  <2>4. Announced(high) <=> Announced(Tail(high)) \/ m.kind = "set"
    BY <1>0, <1>6, AnnouncedMoves
  <2> HIDE DEF m
  <2>5. CASE m.kind = "set"
    BY <1>b, <2>1, <2>3, <2>5
  <2>6. CASE m.kind # "set"
    <3>1. Settled' => Settled
      BY <2>1, <2>4, <2>6 DEF Settled
    <3>2. update'.version = update.version /\ (update'.updated => update.updated)
      BY <2>1, <2>3, <2>6
    <3> QED BY <1>a, <1>b, <2>1, <3>1, <3>2
  <2> QED BY <2>5, <2>6
<1>7. CASE Apply
  <2>1. /\ applied' = IF ~goExit /\ update.updated THEN update.version ELSE applied
        /\ UNCHANGED <<wire, high, file, version, update, goExit>>
    BY <1>7 DEF Apply, inVars, stopVars
  <2>2. Settled' <=> Settled
    BY <2>1 DEF Settled
  <2> QED BY <1>a, <1>b, <2>1, <2>2
<1>8. CASE JoinSender
  <2>1. goExit' /\ ~(~goExit')
    BY <1>0, <1>8 DEF JoinSender, PhaseInv
  <2> QED BY <1>b, <2>1
<1>9. CASE \/ MacReceives \/ Signal \/ (PopHigh /\ high = <<>>) \/ PopLow \/ Relay \/ StopRunning
           \/ JoinReceiver \/ DeleteManager \/ StopPhys
  <2>1. UNCHANGED <<wire, high>>
    BY <1>9 DEF MacReceives, Signal, PopHigh, PopLow, Relay, StopRunning, JoinReceiver,
       DeleteManager, StopPhys, inVars
  <2>2. Settled' => Settled
    BY <2>1 DEF Settled
  <2> QED BY <1>1, <1>9, <2>2 DEF MacReceives, Signal, PopHigh, PopLow, Relay, StopRunning,
          JoinReceiver, DeleteManager, StopPhys, inVars, mainVars, stopVars
<1>10. CASE Report \/ SenderChecks \/ SenderPops \/ SendOnce
  <2>1. UNCHANGED <<inVars, high, mainVars, stopVars>>
    BY <1>10 DEF Report, SenderChecks, SenderPops, SendOnce
  <2>2. Settled' => Settled
    BY <2>1 DEF Settled, inVars
  <2> QED BY <1>1, <2>1, <2>2 DEF inVars, mainVars, stopVars
<1>11. CASE Alive /\ (SendDeleted \/ ReportFreed)
  <2>1. mgr[Mac] = "deleted" /\ main # "crashed" /\ goExit' = goExit
    BY <1>0, <1>11 DEF SendDeleted, ReportFreed, PhaseInv, Alive, stopVars
  <2>2. goExit
    BY <1>0, <2>1 DEF PhaseInv
  <2> QED BY <1>b, <2>1, <2>2
<1>12. ASSUME NEW p \in Peers, ReceiverChecks(p) \/ (Receive(p) /\ wire[p] = <<>>)
       PROVE  CurrentInv'
  <2>1. UNCHANGED <<inVars, high, mainVars, stopVars>>
    BY <1>12 DEF ReceiverChecks, Receive, inVars
  <2>2. Settled' => Settled
    BY <2>1 DEF Settled, inVars
  <2> QED BY <1>1, <2>1, <2>2 DEF inVars, mainVars, stopVars
<1>13. CASE UNCHANGED vars
  <2>1. Settled' => Settled
    BY <1>13 DEF Settled, vars, inVars
  <2> QED BY <1>1, <1>13, <2>1 DEF vars, inVars, mainVars, stopVars
<1>14. ReportFreed => Alive
  BY DEF ReportFreed, PhysRun, Alive
<1> QED BY <1>2, <1>3, <1>4, <1>5, <1>6, <1>7, <1>8, <1>9, <1>10, <1>11, <1>12, <1>13, <1>14
        DEF Next, Main, Receiver, Sender

\* Once every announcement was handled, the PHYs have what environment.json
\* holds, whatever the moments at which it was written and parsed.
THEOREM Current == Spec => []EnvCurrent
<1>1. Init => CurrentInv
  BY DEF Init, CurrentInv
<1>2. CurrentInv => EnvCurrent
  BY DEF CurrentInv, EnvCurrent
<1> QED BY <1>1, <1>2, NextCurrent, TypeInvariant, PTL DEF Spec
=============================================================================

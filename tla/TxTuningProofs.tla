--------------------------- MODULE TxTuningProofs ---------------------------
(***************************************************************************)
(* Proofs about TxTuning for all frequencies, bandwidths, channels and     *)
(* gains.                                                                  *)
(***************************************************************************)
EXTENDS TxTuning, TLAPS

---------------------------------------------------------------------------
(* Type correctness, whatever fails.                                       *)

\* A frequency of 0 never reaches the assignment of competition_center_freq.
EnvValid == mpc = "setcf" => msg.cf # 0

TypeInv == TypeOK /\ EnvValid

\* A channel frequency computed for a control is one of the targets.
LEMMA ChannelFreqType ==
  ASSUME cf \in ValidFreqs, cbw \in CompBws, NEW b \in Controls
  PROVE  /\ ChannelFreq(b) \in Targets
         /\ ChannelFreq(b).ch = b.ch /\ ChannelFreq(b).bw = b.bw
BY DEF ValidFreqs, Controls, Targets, ChannelFreq

\* The Tx thread and the radio before the first control.
LEMMA InitType == Init => TypeInv
<1> SUFFICES ASSUME Init
             PROVE  TypeInv
  OBVIOUS
<1>1. cf \in ValidFreqs /\ cbw \in CompBws /\ bc \in Controls
  BY DEF Init
<1>2. target \in Targets
  BY <1>1, ChannelFreqType DEF Init
<1>3. /\ bc.gain \in Gains /\ bc.bw \in BwIdxs
      /\ cf \in CompFreqs /\ msg \in [cf : CompFreqs, cbw : CompBws]
  BY <1>1 DEF Init, Controls, ValidFreqs
<1> QED BY <1>1, <1>2, <1>3 DEF Init, TypeInv, TypeOK, EnvValid, MainPcs, WorkerPcs

\* The main thread leaves the control and the radio alone.
LEMMA MainType ==
  ASSUME TypeInv, ReceiveEnv \/ MainThread
  PROVE  TypeInv'
<1> USE DEF TypeInv, TypeOK, EnvValid, MainPcs, workVars, radioVars, envVars, histVars
<1>1. CASE ReceiveEnv
  BY <1>1 DEF ReceiveEnv
<1>2. CASE SetCompFreq
  BY <1>2 DEF SetCompFreq, ValidFreqs
<1>3. CASE SetCompFreqUpdated
  BY <1>3 DEF SetCompFreqUpdated
<1>4. CASE CompareBw
  BY <1>4 DEF CompareBw
<1>5. CASE SetCompBw
  BY <1>5 DEF SetCompBw
<1>6. CASE SetUpdated
  BY <1>6 DEF SetUpdated
<1> QED BY <1>1, <1>2, <1>3, <1>4, <1>5, <1>6 DEF MainThread

\* The fields of a control, and a record with one of them changed.
LEMMA ControlFields ==
  ASSUME NEW a \in Controls, NEW b \in Controls
  PROVE  /\ a.ch \in Chans /\ a.bw \in BwIdxs /\ a.gain \in Gains
         /\ [a EXCEPT !.gain = b.gain] \in Controls
         /\ [a EXCEPT !.ch = b.ch] \in Controls
         /\ [a EXCEPT !.bw = b.bw] \in Controls
BY DEF Controls

\* The Tx thread leaves the environment alone.
LEMMA WorkerType ==
  ASSUME TypeInv, PopControl \/ HandleControl
  PROVE  TypeInv'
<1> USE DEF TypeInv, TypeOK, EnvValid, WorkerPcs, workVars, radioVars, envVars, mainVars,
            histVars
<1>1. /\ bc.ch \in Chans /\ bc.bw \in BwIdxs /\ bc.gain \in Gains
      /\ [last EXCEPT !.gain = bc.gain] \in Controls
      /\ [last EXCEPT !.ch = bc.ch] \in Controls
      /\ [last EXCEPT !.bw = bc.bw] \in Controls
  BY ControlFields
<1>2. CASE PopControl
  BY <1>2 DEF PopControl
<1>3. CASE ChangeBw
  BY <1>1, <1>3 DEF ChangeBw, Drop
<1>4. CASE ReadUpdated
  BY <1>4 DEF ReadUpdated
<1>5. CASE CalculateTarget
  BY <1>5, ChannelFreqType DEF CalculateTarget
<1>6. CASE ReadCompFreqUpdated
  BY <1>6 DEF ReadCompFreqUpdated
<1>7. CASE TuneFrontEnd
  BY <1>7 DEF TuneFrontEnd, ValidFreqs
<1>8. CASE ClearCompFreqUpdated
  BY <1>8 DEF ClearCompFreqUpdated
<1>9. CASE TuneChannel
  BY <1>1, <1>9 DEF TuneChannel
<1>10. CASE TuneChannelErr
  BY <1>1, <1>10 DEF TuneChannelErr, Drop
<1>11. CASE TuneChannelOff
  BY <1>11 DEF TuneChannelOff, Drop
<1>12. CASE FinishTuning
  BY <1>1, <1>12 DEF FinishTuning
<1>13. CASE KeepGain
  BY <1>13 DEF KeepGain
<1>14. CASE SetGain
  BY <1>1, <1>14 DEF SetGain
<1>15. CASE SetGainErr
  BY <1>1, <1>15 DEF SetGainErr, Drop
<1>16. CASE ChangeAllocation
  BY <1>1, <1>16 DEF ChangeAllocation
<1>17. CASE SendBurst
  BY <1>17 DEF SendBurst
<1> QED
  BY <1>2, <1>3, <1>4, <1>5, <1>6, <1>7, <1>8, <1>9, <1>10, <1>11, <1>12, <1>13,
     <1>14, <1>15, <1>16, <1>17 DEF HandleControl

\* Every step keeps the types, whatever fails.
LEMMA NextType == TypeInv /\ [Next]_vars => TypeInv'
<1> SUFFICES ASSUME TypeInv, [Next]_vars
             PROVE  TypeInv'
  OBVIOUS
<1>1. CASE UNCHANGED vars
  BY <1>1 DEF vars, envVars, mainVars, workVars, radioVars, histVars, TypeInv, TypeOK,
              EnvValid
<1> QED BY <1>1, MainType, WorkerType DEF Next

\* Every variable keeps its type, with any failure: a competition frequency of 0
\* is never stored, and last_tx_basic_control is always a control the checks of
\* phy_transmission_change_parameters let pass.
THEOREM TypeCorrect == Spec => []TypeOK
<1>1. Spec => []TypeInv
  BY InitType, NextType, PTL DEF Spec
<1> QED BY <1>1, PTL DEF TypeInv

---------------------------------------------------------------------------
(* Without failures, a burst has the parameters of its control.            *)

\* At the start the records are true.
LEMMA InitTuning == Init => TuningInv
<1> SUFFICES ASSUME Init
             PROVE  TuningInv
  OBVIOUS
<1>1. cf \in ValidFreqs /\ cbw \in CompBws /\ bc \in Controls
  BY DEF Init
<1>2. target.ch = bc.ch /\ target.bw = bc.bw
  BY <1>1, ChannelFreqType DEF Init
<1> QED BY <1>2 DEF Init, TuningInv

\* Nothing the main thread does is looked at by TuningInv.
LEMMA MainTuning ==
  ASSUME TuningInv, ReceiveEnv \/ MainThread
  PROVE  TuningInv'
<1>1. UNCHANGED <<wpc, workVars, radioVars>>
  BY DEF ReceiveEnv, MainThread, SetCompFreq, SetCompFreqUpdated, CompareBw, SetCompBw, SetUpdated
<1> QED BY <1>1 DEF TuningInv, workVars, radioVars

\* Each step of the Tx thread, the call of the radio included, hands its part of
\* last_tx_basic_control over to the control.
LEMMA WorkerTuning ==
  ASSUME Failures = {}, TypeInv, TuningInv, PopControl \/ HandleControl
  PROVE  TuningInv'
<1> USE DEF TuningInv, workVars, radioVars
<1>1. bc \in Controls /\ last \in Controls /\ wpc \in WorkerPcs
  BY DEF TypeInv, TypeOK
<1>2. /\ [last EXCEPT !.gain = bc.gain].gain = bc.gain
      /\ [last EXCEPT !.gain = bc.gain].ch = last.ch
      /\ [last EXCEPT !.gain = bc.gain].bw = last.bw
      /\ [last EXCEPT !.ch = bc.ch].ch = bc.ch
      /\ [last EXCEPT !.ch = bc.ch].gain = last.gain
      /\ [last EXCEPT !.ch = bc.ch].bw = last.bw
      /\ [last EXCEPT !.bw = bc.bw].bw = bc.bw
      /\ [last EXCEPT !.bw = bc.bw].ch = last.ch
      /\ [last EXCEPT !.bw = bc.bw].gain = last.gain
  BY <1>1 DEF Controls
<1>3. CASE PopControl
  BY <1>3 DEF PopControl
<1>4. CASE ChangeBw
  BY <1>4 DEF ChangeBw
<1>5. CASE ReadUpdated
  BY <1>5 DEF ReadUpdated
<1>6. CASE CalculateTarget
  <2>1. target' = ChannelFreq(bc) /\ target'.ch = bc.ch /\ target'.bw = bc.bw
    BY <1>6, ChannelFreqType DEF CalculateTarget, TypeInv, TypeOK
  <2> QED BY <1>6, <2>1 DEF CalculateTarget
<1>7. CASE ReadCompFreqUpdated
  BY <1>7 DEF ReadCompFreqUpdated
<1>8. CASE TuneFrontEnd
  BY <1>8 DEF TuneFrontEnd
<1>9. CASE ClearCompFreqUpdated
  BY <1>9 DEF ClearCompFreqUpdated
<1>10. CASE TuneChannel
  BY <1>2, <1>10 DEF TuneChannel
<1>11. ~TuneChannelErr /\ ~TuneChannelOff /\ ~SetGainErr
  BY DEF TuneChannelErr, TuneChannelOff, SetGainErr
<1>12. CASE FinishTuning
  BY <1>2, <1>12 DEF FinishTuning
<1>13. CASE KeepGain
  BY <1>13 DEF KeepGain, NeedsGain
<1>14. CASE SetGain
  BY <1>2, <1>14 DEF SetGain
<1>15. CASE ChangeAllocation
  BY <1>2, <1>15 DEF ChangeAllocation
<1>16. CASE SendBurst
  BY <1>16 DEF SendBurst
<1> QED
  BY <1>3, <1>4, <1>5, <1>6, <1>7, <1>8, <1>9, <1>10, <1>11, <1>12, <1>13, <1>14,
     <1>15, <1>16 DEF HandleControl

\* As long as nothing fails, each step makes true what the next record will say.
LEMMA NextTuning ==
  ASSUME Failures = {}
  PROVE  TypeInv /\ TuningInv /\ [Next]_vars => TuningInv'
<1> SUFFICES ASSUME TypeInv, TuningInv, [Next]_vars
             PROVE  TuningInv'
  OBVIOUS
<1>1. CASE UNCHANGED vars
  BY <1>1 DEF vars, workVars, radioVars, TuningInv
<1> QED BY <1>1, MainTuning, WorkerTuning DEF Next

\* As long as nothing fails, what last_tx_basic_control says of the radio and of
\* the structures is true between two controls.
THEOREM TuningCorrect ==
  ASSUME Failures = {}
  PROVE  Spec => []TuningInv
<1>1. TypeInv /\ TuningInv /\ [Next]_vars => TuningInv'
  BY NextTuning
<1> QED BY <1>1, InitType, NextType, InitTuning, PTL DEF Spec

\* As long as nothing fails, a burst goes out on the channel, with the gain, the
\* sample rate and the structures of its own control, whatever was skipped as
\* already set and whenever environment messages arrive.
THEOREM ControlCorrect ==
  ASSUME Failures = {}
  PROVE  Spec => []BurstMatchesControl
<1>1. TuningInv => BurstMatchesControl
  BY DEF TuningInv, BurstMatchesControl
<1> QED BY <1>1, TuningCorrect, PTL

---------------------------------------------------------------------------
(* No environment is forgotten but for the four causes.                    *)

\* The main thread has changed the environment and not yet set env_update.
Pending == mpc # "idle" /\ changed

\* The channel was computed from the environment as it is.
Matches == target.cf = cf /\ target.cbw = cbw

\* The Tx thread has computed the channel frequency and not yet finished tuning.
Tuning == {"cfflag", "front", "clearcf", "tune", "post"}

\* No change of the environment since the channel was computed, for the flag the
\* Tx thread will clear.
Settled == flag /\ ~again /\ ~Pending

\* What the Tx thread, having read env_update, knows of the environment: the flag
\* stays set until it clears it, and unless it was set again the channel is the
\* right one and the front end needs no more tuning.
WorkerPart ==
  /\ wpc \in {"cfflag", "front", "clearcf"} => flag
  /\ flag /\ wpc \in {"target"} \cup Tuning /\ "env" \notin forgot => upd
  /\ Settled /\ wpc \in Tuning => Matches
  /\ Settled /\ wpc \in {"tune", "post"} => ~cfUpd
  /\ Settled /\ wpc = "post" => OnChannel
  /\ ~flag /\ ~Pending /\ wpc \in Tuning /\ "env" \notin forgot => upd \/ Matches
  /\ wpc = "clearcf" /\ mpc # "setcfupd" /\ "front" \notin forgot => front = cf

\* What the flags not forgotten tell: a competition frequency the front end is
\* not tuned to has its flag set, and what is not marked as updated is applied.
FlagsTell ==
  /\ mpc # "setcfupd" /\ "front" \notin forgot => cfUpd \/ front = cf
  /\ ~Pending /\ "env" \notin forgot => upd \/ (OnChannel /\ ~cfUpd)

EnvInv == (mpc = "setcfupd" => changed) /\ WorkerPart /\ FlagsTell

\* At the start the DUC is tuned for the stored environment.
LEMMA InitEnv == Init => EnvInv
<1> SUFFICES ASSUME Init
             PROVE  EnvInv
  OBVIOUS
<1>1. target.cf = cf /\ target.cbw = cbw
  BY DEF Init, ChannelFreq
<1> QED BY <1>1 DEF Init, EnvInv, WorkerPart, FlagsTell, OnChannel, Tuning, Settled, Pending

\* An environment message leaves its flags for the Tx thread, or what it takes
\* from them is recorded.
LEMMA MainEnv ==
  ASSUME TypeInv, EnvInv, ReceiveEnv \/ MainThread
  PROVE  EnvInv'
<1> USE DEF EnvInv, WorkerPart, FlagsTell, OnChannel, Pending, Matches, Settled, envVars,
            workVars, radioVars, histVars
<1>1. CASE ReceiveEnv
  BY <1>1 DEF ReceiveEnv
<1>2. CASE SetCompFreq
  BY <1>2 DEF SetCompFreq
<1>3. CASE SetCompFreqUpdated
  BY <1>3 DEF SetCompFreqUpdated
<1>4. CASE CompareBw
  BY <1>4 DEF CompareBw
<1>5. CASE SetCompBw
  BY <1>5 DEF SetCompBw
<1>6. CASE SetUpdated
  <2>1. mpc = "setupd" /\ mpc' = "idle" /\ upd' = changed /\ again' = (again \/ changed)
        /\ UNCHANGED <<cf, cbw, cfUpd, changed, wpc, flag, target, front, duc>>
        /\ ~Pending' /\ (Pending <=> changed)
    BY <1>6 DEF SetUpdated
  <2>2. CASE changed
    <3>1. forgot' = forgot \ {"env"}
      BY <1>6, <2>2 DEF SetUpdated
    <3> QED BY <2>1, <2>2, <3>1
  <2>3. CASE ~changed
    <3>1. "env" \notin forgot' => "env" \notin forgot /\ ~upd
      BY <1>6, <2>3 DEF SetUpdated
    <3>2. "front" \notin forgot' => "front" \notin forgot
      BY <1>6, <2>3 DEF SetUpdated
    <3> QED BY <2>1, <2>3, <3>1, <3>2
  <2> QED BY <2>2, <2>3
<1> QED BY <1>1, <1>2, <1>3, <1>4, <1>5, <1>6 DEF MainThread

\* The Tx thread clears a flag after it has tuned the radio for it, or that it
\* had not is recorded.
LEMMA WorkerEnv ==
  ASSUME TypeInv, EnvInv, PopControl \/ HandleControl
  PROVE  EnvInv'
<1> USE DEF EnvInv, WorkerPart, FlagsTell, OnChannel, Pending, Matches, Settled, Tuning,
            envVars, mainVars, workVars, radioVars, histVars, Drop
<1>1. /\ wpc \in WorkerPcs /\ upd \in BOOLEAN /\ cfUpd \in BOOLEAN /\ flag \in BOOLEAN
      /\ again \in BOOLEAN /\ changed \in BOOLEAN
  BY DEF TypeInv, TypeOK
<1>2. CASE PopControl
  BY <1>2 DEF PopControl
<1>3. CASE ChangeBw
  BY <1>3 DEF ChangeBw
<1>4. CASE ReadUpdated
  BY <1>1, <1>4 DEF ReadUpdated
<1>5. CASE CalculateTarget
  <2>1. target'.cf = cf /\ target'.cbw = cbw
    BY <1>5 DEF CalculateTarget, ChannelFreq
  <2> QED BY <1>1, <1>5, <2>1 DEF CalculateTarget
<1>6. CASE ReadCompFreqUpdated
  BY <1>1, <1>6 DEF ReadCompFreqUpdated
<1>7. CASE TuneFrontEnd
  <2>1. /\ wpc = "front" /\ wpc' = "clearcf" /\ ("env" \in forgot' <=> "env" \in forgot)
        /\ "front" \notin forgot' => front' = cf
        /\ UNCHANGED <<cf, cbw, upd, cfUpd, mpc, changed, flag, again, target, duc>>
    BY <1>7 DEF TuneFrontEnd
  <2> QED BY <1>1, <2>1
<1>8. CASE ClearCompFreqUpdated
  BY <1>1, <1>8 DEF ClearCompFreqUpdated
<1>9. CASE TuneChannel
  BY <1>1, <1>9 DEF TuneChannel
<1>10. CASE TuneChannelErr
  BY <1>1, <1>10 DEF TuneChannelErr
<1>11. CASE TuneChannelOff
  BY <1>11 DEF TuneChannelOff
<1>12. CASE FinishTuning
  BY <1>1, <1>12 DEF FinishTuning
<1>13. CASE KeepGain
  BY <1>13 DEF KeepGain
<1>14. CASE SetGain
  BY <1>14 DEF SetGain
<1>15. CASE SetGainErr
  BY <1>15 DEF SetGainErr
<1>16. CASE ChangeAllocation
  BY <1>16 DEF ChangeAllocation
<1>17. CASE SendBurst
  BY <1>17 DEF SendBurst
<1> QED
  BY <1>2, <1>3, <1>4, <1>5, <1>6, <1>7, <1>8, <1>9, <1>10, <1>11, <1>12, <1>13,
     <1>14, <1>15, <1>16, <1>17 DEF HandleControl

\* Whenever the Tx thread waits for a control, the environment is applied or still
\* flagged, for any interleaving of the two threads and whatever radio calls
\* fail, but for an update that came while the channel was tuned, one taken back
\* by a message that changed nothing, a frequency that came after the front end
\* was tuned, and a front end that did not follow.
THEOREM EnvCorrect == Spec => []EnvNotForgotten
<1>1. TypeInv /\ EnvInv /\ [Next]_vars => EnvInv'
  <2> SUFFICES ASSUME TypeInv, EnvInv, [Next]_vars
               PROVE  EnvInv'
    OBVIOUS
  <2>1. CASE UNCHANGED vars
    BY <2>1 DEF vars, envVars, mainVars, workVars, radioVars, histVars, EnvInv,
                WorkerPart, FlagsTell, OnChannel, Pending, Matches, Settled, Tuning
  <2> QED BY <2>1, MainEnv, WorkerEnv DEF Next
<1>2. EnvInv => EnvNotForgotten
  BY DEF EnvInv, FlagsTell, Pending, EnvNotForgotten
<1> QED BY <1>1, <1>2, InitType, NextType, InitEnv, PTL DEF Spec
=============================================================================

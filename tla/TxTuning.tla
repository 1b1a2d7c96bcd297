------------------------------ MODULE TxTuning ------------------------------
(***************************************************************************)
(* How the Tx thread of one PHY brings the radio and its own structures to *)
(* what a basic control asks for (phy_transmission_change_parameters),     *)
(* while the main thread changes the environment under it                  *)
(* (phy_transmission_update_environment).  Built as the repository ships   *)
(* it: ENABLE_HW_RF_MONITOR and TX_TIMED_COMMAND_ENABLED are 1.            *)
(*                                                                         *)
(* A critical section of tx_env_update_mutex is one step, and so is a call *)
(* of the radio, which holds the device mutex of the channel meanwhile.    *)
(* A channel center frequency is the record of what it is computed from.   *)
(***************************************************************************)
EXTENDS Naturals

CONSTANTS
  CompFreqs,  \* competition center frequencies, 0 being one that is refused
  CompBws,    \* competition bandwidths in MHz
  Chans,      \* channels the MAC asks for
  BwIdxs,     \* PHY bandwidth indexes it asks for
  Gains,      \* Tx gains it asks for
  Failures    \* what may fail: "err" and "off" of a radio call that sets the
              \* channel or the gain, "front" of the one that sets the
              \* competition frequency, "bw" of a bandwidth change

ASSUME TuningAssumption ==
  /\ CompFreqs \subseteq Nat /\ CompBws \subseteq Nat \ {0}
  /\ Chans \subseteq Nat /\ BwIdxs \subseteq Nat \ {0} /\ Gains \subseteq Nat
  /\ Failures \subseteq {"err", "off", "front", "bw"}

Controls == [ch : Chans, bw : BwIdxs, gain : Gains]
Targets  == [cf : CompFreqs, cbw : CompBws, ch : Chans, bw : BwIdxs]

\* No bandwidth: the structures and buffers of the PHY are not allocated.
NoBw == 0

\* A frequency nobody asked for.
OffTarget == [cf |-> 0, cbw |-> 0, ch |-> 0, bw |-> 0]

WorkerPcs == {"pop", "bw", "read", "target", "cfflag", "front", "clearcf", "tune",
              "post", "gain", "alloc", "send"}
MainPcs   == {"idle", "setcf", "setcfupd", "compare", "setbw", "setupd"}

VARIABLES
  cf,       \* competition_center_freq
  cbw,      \* competition_bw
  upd,      \* env_update
  cfUpd,    \* competition_freq_updated
  mpc,      \* where the main thread is in phy_transmission_update_environment
  msg,      \* the environment message it handles
  changed,  \* parameter_updated
  wpc,      \* where the Tx thread is
  bc,       \* the control it handles
  last,     \* last_tx_basic_control
  timed,    \* it uses timed commands for this control
  flag,     \* env_update_flag
  target,   \* tx_channel_center_freq
  base,     \* bw_idx its structures and buffers are allocated for
  front,    \* radio: competition frequency the front end is tuned to
  duc,      \* radio: channel frequency
  gain,     \* radio: Tx gain
  rate,     \* radio: bw_idx of the Tx sample rate
  held,     \* tx_rx_mutex[channel] was left locked
  again,    \* history: env_update was set again since target was computed
  forgot    \* history: flags lost since they were set last, "env" for env_update
            \* and "front" for competition_freq_updated

envVars    == <<cf, cbw>>
mainVars   == <<mpc, msg, changed>>
workVars   == <<bc, last, timed, flag, target, base>>
radioVars  == <<front, duc, gain, rate, held>>
histVars   == <<again, forgot>>
vars == <<envVars, upd, cfUpd, mainVars, wpc, workVars, radioVars, histVars>>

ValidFreqs == CompFreqs \ {0}

ChannelFreq(b) == [cf |-> cf, cbw |-> cbw, ch |-> b.ch, bw |-> b.bw]

\* After phy_transmission_init_thread_context: tuned to the initial control.
Init ==
  /\ cf \in ValidFreqs /\ cbw \in CompBws
  /\ upd = FALSE /\ cfUpd = FALSE
  /\ mpc = "idle" /\ msg = [cf |-> cf, cbw |-> cbw] /\ changed = FALSE
  /\ wpc = "pop" /\ timed = FALSE /\ flag = FALSE
  /\ bc \in Controls /\ last = bc /\ target = ChannelFreq(bc) /\ base = bc.bw
  /\ front = cf /\ duc = target /\ gain = bc.gain /\ rate = bc.bw /\ held = FALSE
  /\ again = FALSE /\ forgot = {}

---------------------------------------------------------------------------
(* The main thread: phy_transmission_update_environment.                   *)

\* Mutant of ReceiveEnv: a frequency of 0 is taken.
ReceiveEnvUnchecked ==
  /\ mpc = "idle"
  /\ msg' \in [cf : CompFreqs, cbw : CompBws]
  /\ changed' = FALSE
  /\ mpc' = IF msg'.cf # cf THEN "setcf" ELSE "compare"
  /\ UNCHANGED <<envVars, upd, cfUpd, wpc, workVars, radioVars, histVars>>

\* A message of the AI module, and the comparison of its frequency.
ReceiveEnv ==
  /\ mpc = "idle"
  /\ msg' \in [cf : CompFreqs, cbw : CompBws]
  /\ changed' = FALSE
  /\ mpc' = IF msg'.cf \notin {0, cf} THEN "setcf" ELSE "compare"
  /\ UNCHANGED <<envVars, upd, cfUpd, wpc, workVars, radioVars, histVars>>

SetCompFreq ==
  /\ mpc = "setcf"
  /\ cf' = msg.cf
  /\ changed' = TRUE
  /\ mpc' = "setcfupd"
  /\ UNCHANGED <<cbw, upd, cfUpd, msg, wpc, workVars, radioVars, histVars>>

\* The Tx thread clears the flag next if it is past tuning the front end.
SetCompFreqUpdated ==
  /\ mpc = "setcfupd"
  /\ cfUpd' = TRUE
  /\ mpc' = "compare"
  /\ forgot' = IF wpc = "clearcf" THEN forgot \cup {"front"} ELSE forgot \ {"front"}
  /\ UNCHANGED <<envVars, upd, msg, changed, wpc, workVars, radioVars, again>>

\* The comparison of its bandwidth: 10 MHz always counts as changed.
CompareBw ==
  /\ mpc = "compare"
  /\ mpc' = IF msg.cbw = 10 \/ msg.cbw # cbw THEN "setbw" ELSE "setupd"
  /\ UNCHANGED <<envVars, upd, cfUpd, msg, changed, wpc, workVars, radioVars,
                 histVars>>

SetCompBw ==
  /\ mpc = "setbw"
  /\ cbw' = msg.cbw
  /\ changed' = TRUE
  /\ mpc' = "setupd"
  /\ UNCHANGED <<cf, upd, cfUpd, msg, wpc, workVars, radioVars, histVars>>

\* A message that changed nothing takes back the flag of one that did.
SetUpdated ==
  /\ mpc = "setupd"
  /\ upd' = changed
  /\ mpc' = "idle"
  /\ again' = (again \/ changed)
  /\ forgot' = CASE changed -> forgot \ {"env"}
                [] ~changed /\ upd -> forgot \cup {"env"}
                [] OTHER -> forgot
  /\ UNCHANGED <<envVars, cfUpd, msg, changed, wpc, workVars, radioVars>>

---------------------------------------------------------------------------
(* The Tx thread.                                                          *)

\* A control that passes the sanity checks (the others are dropped without any
\* change): timed commands are used unless the bandwidth changes.
PopControl ==
  /\ wpc = "pop"
  /\ bc' \in Controls
  /\ timed' = (bc'.bw = last.bw)
  /\ wpc' = IF timed' THEN "read" ELSE "bw"
  /\ UNCHANGED <<envVars, upd, cfUpd, mainVars, last, flag, target, base,
                 radioVars, histVars>>

\* The control is dropped.
Drop == wpc' = "pop"

\* A call of the radio waits for the device mutex of its channel.
RadioFree == ~held

\* phy_transmission_change_bw: the structures are freed, the sample rate set,
\* the structures allocated again; the last two may fail.
ChangeBw ==
  /\ wpc = "bw"
  /\ RadioFree
  /\ \/ rate' = bc.bw /\ base' = bc.bw /\ wpc' = "read"
     \/ "bw" \in Failures /\ rate' \in {rate, bc.bw} /\ base' = NoBw /\ Drop
  /\ UNCHANGED <<envVars, upd, cfUpd, mainVars, bc, last, timed, flag, target,
                 front, duc, gain, held, histVars>>

\* Mutant of ReadUpdated: the flag is cleared as it is read.
ReadUpdatedClears ==
  /\ wpc = "read"
  /\ flag' = upd
  /\ upd' = FALSE
  /\ wpc' = IF last.ch # bc.ch \/ last.bw # bc.bw \/ upd THEN "target" ELSE "gain"
  /\ UNCHANGED <<envVars, cfUpd, mainVars, bc, last, timed, target, base,
                 radioVars, histVars>>

\* phy_transmission_get_env_update, and whether the frequency must change.
ReadUpdated ==
  /\ wpc = "read"
  /\ flag' = upd
  /\ wpc' = IF last.ch # bc.ch \/ last.bw # bc.bw \/ upd THEN "target" ELSE "gain"
  /\ UNCHANGED <<envVars, upd, cfUpd, mainVars, bc, last, timed, target, base,
                 radioVars, histVars>>

\* phy_transmission_calculate_channel_center_frequency
CalculateTarget ==
  /\ wpc = "target"
  /\ target' = ChannelFreq(bc)
  /\ wpc' = IF flag THEN "cfflag" ELSE "tune"
  /\ again' = FALSE
  /\ UNCHANGED <<envVars, upd, cfUpd, mainVars, bc, last, timed, flag, base, radioVars,
                 forgot>>

\* phy_transmission_get_env_update_comp_freq
ReadCompFreqUpdated ==
  /\ wpc = "cfflag"
  /\ wpc' = IF cfUpd THEN "front" ELSE "tune"
  /\ UNCHANGED <<envVars, upd, cfUpd, mainVars, workVars, radioVars, histVars>>

\* Mutant of TuneFrontEnd: the device mutex is not unlocked.
TuneFrontEndNoUnlock ==
  /\ wpc = "front"
  /\ RadioFree
  /\ front' = cf
  /\ held' = TRUE
  /\ wpc' = "clearcf"
  /\ UNCHANGED <<envVars, upd, cfUpd, mainVars, workVars, duc, gain, rate,
                 histVars>>

\* srslte_rf_set_tx_freq2 with the frequency as it is now, read without the
\* mutex; its result is not looked at.
TuneFrontEnd ==
  /\ wpc = "front"
  /\ RadioFree
  /\ front' \in {cf} \cup (IF "front" \in Failures THEN {front} ELSE {})
  /\ forgot' = IF front' = cf THEN forgot \ {"front"} ELSE forgot \cup {"front"}
  /\ wpc' = "clearcf"
  /\ UNCHANGED <<envVars, upd, cfUpd, mainVars, workVars, duc, gain, rate, held,
                 again>>

ClearCompFreqUpdated ==
  /\ wpc = "clearcf"
  /\ cfUpd' = FALSE
  /\ wpc' = "tune"
  /\ UNCHANGED <<envVars, upd, mainVars, workVars, radioVars, histVars>>

\* The timed command takes the gain along if it changes, the other does not.
WithGain == timed /\ last.gain # bc.gain

\* The channel frequency is set.
TuneChannel ==
  /\ wpc = "tune"
  /\ RadioFree
  /\ duc' = target
  /\ IF WithGain
     THEN gain' = bc.gain /\ last' = [last EXCEPT !.gain = bc.gain]
     ELSE UNCHANGED <<gain, last>>
  /\ wpc' = "post"
  /\ UNCHANGED <<envVars, upd, cfUpd, mainVars, bc, timed, flag, target, base,
                 front, rate, held, histVars>>

\* The call returns an error and leaves the device mutex locked; what it had
\* set of the radio stays.  The gain is recorded before the error is looked at.
TuneChannelErr ==
  /\ wpc = "tune"
  /\ RadioFree
  /\ "err" \in Failures
  /\ duc' \in {duc, target}
  /\ gain' \in IF WithGain /\ duc' = target THEN {gain, bc.gain} ELSE {gain}
  /\ held' = TRUE
  /\ last' = IF WithGain THEN [last EXCEPT !.gain = bc.gain] ELSE last
  /\ Drop
  /\ UNCHANGED <<envVars, upd, cfUpd, mainVars, bc, timed, flag, target, base,
                 front, rate, histVars>>

\* The call that is not timed finds the radio more than 10 Hz off.
TuneChannelOff ==
  /\ wpc = "tune"
  /\ RadioFree
  /\ "off" \in Failures /\ ~timed
  /\ duc' = OffTarget
  /\ Drop
  /\ UNCHANGED <<envVars, upd, cfUpd, mainVars, workVars, front, gain, rate,
                 held, histVars>>

\* Mutant of FinishTuning: the channel is not recorded.
FinishTuningUnrecorded ==
  /\ wpc = "post"
  /\ upd' = IF flag THEN FALSE ELSE upd
  /\ wpc' = "gain"
  /\ UNCHANGED <<envVars, cfUpd, mainVars, workVars, radioVars, histVars>>

\* After the frequency: the flag is cleared if it was set at the start, and with
\* it what set it again meanwhile.
FinishTuning ==
  /\ wpc = "post"
  /\ upd' = IF flag THEN FALSE ELSE upd
  /\ forgot' = IF flag /\ again THEN forgot \cup {"env"} ELSE forgot
  /\ last' = [last EXCEPT !.ch = bc.ch]
  /\ wpc' = "gain"
  /\ UNCHANGED <<envVars, cfUpd, mainVars, bc, timed, flag, target, base, radioVars,
                 again>>

NeedsGain == last.gain # bc.gain

\* The gain needs no change.
KeepGain ==
  /\ wpc = "gain"
  /\ ~NeedsGain
  /\ wpc' = "alloc"
  /\ UNCHANGED <<envVars, upd, cfUpd, mainVars, workVars, radioVars, histVars>>

SetGain ==
  /\ wpc = "gain"
  /\ NeedsGain
  /\ RadioFree
  /\ gain' = bc.gain
  /\ last' = [last EXCEPT !.gain = bc.gain]
  /\ wpc' = "alloc"
  /\ UNCHANGED <<envVars, upd, cfUpd, mainVars, bc, timed, flag, target, base,
                 front, duc, rate, held, histVars>>

SetGainErr ==
  /\ wpc = "gain"
  /\ NeedsGain
  /\ RadioFree
  /\ "err" \in Failures
  /\ gain' \in {gain, bc.gain}
  /\ held' = TRUE
  /\ Drop
  /\ UNCHANGED <<envVars, upd, cfUpd, mainVars, workVars, front, duc, rate,
                 histVars>>

\* phy_transmission_change_allocation: only here the new bandwidth is recorded.
ChangeAllocation ==
  /\ wpc = "alloc"
  /\ last' = [last EXCEPT !.bw = bc.bw]
  /\ wpc' = "send"
  /\ UNCHANGED <<envVars, upd, cfUpd, mainVars, bc, timed, flag, target, base,
                 radioVars, histVars>>

\* The burst is encoded and sent as the PHY and the radio are.
SendBurst ==
  /\ wpc = "send"
  /\ wpc' = "pop"
  /\ UNCHANGED <<envVars, upd, cfUpd, mainVars, workVars, radioVars, histVars>>

---------------------------------------------------------------------------
MainThread ==
  SetCompFreq \/ SetCompFreqUpdated \/ CompareBw \/ SetCompBw \/ SetUpdated

\* A control once it was popped.
HandleControl ==
  \/ ChangeBw \/ ReadUpdated \/ CalculateTarget \/ ReadCompFreqUpdated
  \/ TuneFrontEnd \/ ClearCompFreqUpdated \/ TuneChannel \/ TuneChannelErr
  \/ TuneChannelOff \/ FinishTuning \/ KeepGain \/ SetGain \/ SetGainErr
  \/ ChangeAllocation \/ SendBurst

Next == ReceiveEnv \/ MainThread \/ PopControl \/ HandleControl

Spec == Init /\ [][Next]_vars

\* Both threads are scheduled; nothing obliges a message or a control to come.
FairSpec == Spec /\ WF_vars(MainThread) /\ WF_vars(HandleControl)

---------------------------------------------------------------------------
(* Properties.                                                             *)

TypeOK ==
  /\ cf \in ValidFreqs /\ cbw \in CompBws
  /\ upd \in BOOLEAN /\ cfUpd \in BOOLEAN
  /\ mpc \in MainPcs /\ msg \in [cf : CompFreqs, cbw : CompBws] /\ changed \in BOOLEAN
  /\ wpc \in WorkerPcs
  /\ bc \in Controls /\ last \in Controls
  /\ timed \in BOOLEAN /\ flag \in BOOLEAN
  /\ target \in Targets
  /\ base \in BwIdxs \cup {NoBw}
  /\ front \in CompFreqs /\ duc \in Targets \cup {OffTarget}
  /\ gain \in Gains /\ rate \in BwIdxs /\ held \in BOOLEAN
  /\ again \in BOOLEAN /\ forgot \subseteq {"env", "front"}

\* "All parameters and sampling rate are changed according to the new BW index"
\* (phy_transmission.c:336) and the "only if the parameter has changed" of the
\* others: whatever was skipped because last_tx_basic_control says it is set,
\* a burst goes out on the channel, with the gain, the sample rate and the
\* structures of its own control.
BurstMatchesControl ==
  wpc = "send" =>
    /\ base = bc.bw /\ rate = bc.bw /\ gain = bc.gain
    /\ duc.ch = bc.ch /\ duc.bw = bc.bw

\* The channel was computed from the environment as it is, or missed: that is
\* the loss of a control, not of an environment.
OnChannel == duc = OffTarget \/ (duc.cf = cf /\ duc.cbw = cbw)

\* An environment the main thread has finished to set is applied or still flagged
\* whenever the Tx thread waits for a control, however their steps interleave and
\* whatever fails, but for four causes: env_update is cleared with an update that
\* came while the channel was tuned (phy_transmission.c:426, 487), or taken back
\* by a message that changes nothing (1423); competition_freq_updated is cleared
\* with a frequency that came after the front end was tuned (388), or although
\* the front end was not, as the result of that call is not looked at.  Each
\* costs only what its own flag stands for, until the flag is set again.
EnvNotForgotten ==
  mpc = "idle" /\ wpc = "pop" =>
    /\ "env" \notin forgot => upd \/ (OnChannel /\ ~cfUpd)
    /\ "front" \notin forgot => cfUpd \/ front = cf

\* "Set environment update flag to false only if was true at the start of this
\* section of code" (phy_transmission.c:424, 487): no update is lost.  The four
\* causes above break it.
EnvKept ==
  mpc = "idle" /\ wpc = "pop" =>
    (upd \/ (OnChannel /\ ~cfUpd)) /\ (cfUpd \/ front = cf)

\* The inductive invariant behind BurstMatchesControl when nothing fails:
\* last_tx_basic_control describes the radio and the structures between two
\* controls, and gives way to the control part by part as it is handled.
TuningInv ==
  /\ gain = last.gain
  /\ wpc \in {"pop", "bw"} => base = last.bw /\ rate = last.bw
  /\ wpc \notin {"pop", "bw"} => base = bc.bw /\ rate = bc.bw
  /\ wpc \in {"pop", "bw", "read"} => duc.ch = last.ch /\ duc.bw = last.bw
  /\ wpc \in {"cfflag", "front", "clearcf", "tune"} => target.ch = bc.ch /\ target.bw = bc.bw
  /\ wpc \in {"post", "gain", "alloc", "send"} => duc.ch = bc.ch /\ duc.bw = bc.bw
  /\ wpc \in {"gain", "alloc", "send"} => last.ch = bc.ch
  /\ wpc \in {"alloc", "send"} => last.gain = bc.gain
  /\ wpc = "send" => last.bw = bc.bw

\* Every control that was popped is transmitted or dropped: "Unlock mutex upon
\* using USRP object" (rf_uhd_imp.c), no call leaves the radio locked.
ControlEnds == wpc # "pop" ~> wpc = "pop"
=============================================================================

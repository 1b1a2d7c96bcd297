------------------------------ MODULE TxBurst -------------------------------
(***************************************************************************)
(* What the Tx thread of one PHY does with a control it has popped         *)
(* (phy_transmission_work): it brings its allocation to the MCS and the    *)
(* bandwidth of the control, counts the subframes its data fills, encodes  *)
(* and sends them as one burst, reports to the MAC and disarms the         *)
(* watchdog.  The synchronization signals of the first subframe and the    *)
(* allocation are cached from burst to burst.                              *)
(*                                                                         *)
(* decode_pdcch is false, as trx.c sets it.  A change of the parameters    *)
(* succeeds, is refused with nothing changed, or fails with the structures *)
(* already changed to another bandwidth (TxTuning has the steps of the     *)
(* radio).                                                                 *)
(***************************************************************************)
EXTENDS Integers, Sequences

CONSTANTS
  Bws,         \* values of bw_idx, 1 being 1.4 MHz
  Mcss,        \* values of mcs
  Lens,        \* lengths of the user data
  Dsts,        \* pairs of send_to and intf_id
  TbSize,      \* srslte_ra_get_tb_size_scatter, of a bandwidth and an MCS
  MaxTbs,      \* MAX_NOF_TBS
  InitialSf,   \* initial_subframe_index
  EobPss,      \* enable_eob_pss
  Filtering,   \* phy_filtering
  Lbt,         \* LBT is compiled in and enabled
  MaxDropped   \* bound of the model: messages dropped before the last pop

OneDotFour == 1
FirstMcsLimit == 28

ASSUME BurstAssumption ==
  /\ Bws \subseteq Nat \ {0}
  /\ Mcss \subseteq 0..31 /\ {0, FirstMcsLimit} \subseteq Mcss
  /\ Lens \subseteq Nat \ {0}
  /\ TbSize \in [Bws \X Mcss -> Nat \ {0}]
  /\ MaxTbs \in Nat \ {0}
  /\ InitialSf \in {0, 5}
  /\ {EobPss, Filtering, Lbt} \subseteq BOOLEAN
  /\ MaxDropped \in Nat

Controls == [bw : Bws, mcs : Mcss, len : Lens, dst : Dsts]

\* ra_dl: what the PDSCH is encoded for.
Allocations == [mcs : Mcss, bw : Bws]

\* What a radio returned last: nothing yet, all samples sent, an error, or
\* RF_LBT_TIMEOUT_CODE.
Results == {"none", "sent", "error", "lbt"}

VARIABLES
  pc,       \* where the Tx thread is
  bc,       \* the control it handles
  nof,      \* nof_subframes_to_tx
  cnt,      \* subframe_cnt
  sfIdx,    \* sf_idx
  offset,   \* tx_data_offset
  sob,      \* start_of_burst
  eob,      \* end_of_burst
  ret,      \* ret
  dropped,  \* number_of_dropped_packets
  run,      \* run_tx_encoding_thread
  armed,    \* the watchdog timer is armed
  last,     \* last_tx_basic_control: mcs, bw_idx
  lastDst,  \* last_tx_basic_control: send_to, intf_id
  lastSig,  \* last_mcs, last_nof_subframes_to_tx
  radl,     \* ra_dl
  sch0,     \* what sch_signal0 carries
  sch1,     \* what sch_signal1 carries
  cell,     \* cell_enb.nof_prb, as a bandwidth
  built,    \* the structures of that bandwidth could all be built
  half,     \* history: a change of bandwidth failed since the last that did not
  air,      \* the subframes of the current control the radio took
  drops,    \* times the current control was counted as dropped
  report    \* the Tx statistics sent last

loopVars  == <<nof, cnt, sfIdx, offset, sob, eob>>
cacheVars == <<last, lastDst, lastSig, radl, sch0, sch1, cell, built, half>>
vars == <<pc, bc, loopVars, ret, dropped, run, armed, cacheVars, air, drops, report>>

NoReport == [ok |-> FALSE, err |-> 0]

\* After phy_transmission_init_thread_context.
Init ==
  /\ pc = "pop"
  /\ bc \in Controls
  /\ nof = 0 /\ cnt = 0 /\ sfIdx = InitialSf /\ offset = 0
  /\ sob = FALSE /\ eob = FALSE
  /\ ret = "none"
  /\ dropped = 0
  /\ run = TRUE
  /\ armed = FALSE
  /\ last = [mcs |-> 0, bw |-> bc.bw]
  /\ lastDst = bc.dst
  /\ lastSig = <<0, 0>>
  /\ radl = last
  /\ sch0 = lastDst
  /\ sch1 = lastSig
  /\ cell = last.bw /\ built = TRUE /\ half = FALSE
  /\ air = <<>>
  /\ drops = 0
  /\ report = NoReport

---------------------------------------------------------------------------
(* Sizes.                                                                  *)

\* At 1.4 MHz the first subframe has no room for an MCS above 28.
Limited(c) == c.bw = OneDotFour /\ c.mcs > FirstMcsLimit

SubframeMcs(c, n) == IF Limited(c) /\ n = 1 THEN FirstMcsLimit ELSE c.mcs

SubframeSize(c, n) == TbSize[<<c.bw, SubframeMcs(c, n)>>]

\* phy_transmission_validate_tb_size
ValidLength(c) ==
  IF Limited(c)
  THEN /\ c.len >= SubframeSize(c, 1)
       /\ (c.len - SubframeSize(c, 1)) % SubframeSize(c, 2) = 0
  ELSE c.len % SubframeSize(c, 1) = 0

\* Mutant of NofSubframes: the first subframe is not counted apart.
NofSubframesUniform(c) == c.len \div SubframeSize(c, 2)

\* phy_transmission_calculate_nof_subframes
NofSubframes(c) ==
  IF Limited(c)
  THEN 1 + (c.len - SubframeSize(c, 1)) \div SubframeSize(c, 2)
  ELSE c.len \div SubframeSize(c, 1)

---------------------------------------------------------------------------
(* The loop of phy_transmission_work.                                      *)

\* A control is popped and the watchdog armed.
PopControl ==
  /\ pc = "pop" /\ run
  /\ dropped < MaxDropped
  /\ bc' \in Controls
  /\ armed' = TRUE
  /\ air' = <<>> /\ drops' = 0
  /\ pc' = "change"
  /\ UNCHANGED <<loopVars, ret, dropped, run, cacheVars, report>>

\* number_of_dropped_packets++
CountDrop == dropped' = dropped + 1 /\ drops' = drops + 1

\* phy_transmission_change_parameters refuses the control before it touches the
\* structures: for a field of it, its length, or the radio at its bandwidth.
Refuse ==
  /\ pc = "change"
  /\ CountDrop
  /\ pc' = "disarm"
  /\ UNCHANGED <<bc, loopVars, ret, run, armed, cacheVars, air, report>>

\* Mutant of ChangeAllocation: a new bandwidth alone is not noticed.
ChangeAllocationMcsOnly(m, b) ==
  IF last.mcs # m
  THEN radl' = [mcs |-> m, bw |-> cell'] /\ last' = [mcs |-> m, bw |-> b]
  ELSE UNCHANGED radl /\ last' = [last EXCEPT !.bw = b]

\* phy_transmission_change_allocation: the bandwidth asked for is recorded, the
\* PDSCH is allocated over the one of the structures.
ChangeAllocation(m, b) ==
  IF last.mcs # m \/ last.bw # b
  THEN radl' = [mcs |-> m, bw |-> cell'] /\ last' = [mcs |-> m, bw |-> b]
  ELSE UNCHANGED <<radl, last>>

\* Mutant of RebuildSignals: they carry 0, as its comments say.
RebuildSignalsZero == sch0' = 0 /\ sch1' = <<0, 0>>

\* phy_transmission_base_init, when the bandwidth changes: the signals are
\* generated again from what they carried last.
RebuildSignals == sch0' = lastDst /\ sch1' = lastSig

\* A change of bandwidth fails: a structure cannot be built, before or after the
\* signals are, or all are built and the radio then refuses the channel or the
\* gain.  nof_prb is the new one by then, and last_tx_basic_control the old.
FailHalfway ==
  /\ pc = "change"
  /\ ValidLength(bc)
  /\ last.bw # bc.bw
  /\ cell' = bc.bw
  /\ built' \in BOOLEAN
  /\ half' = TRUE
  /\ RebuildSignals \/ (~built' /\ UNCHANGED <<sch0, sch1>>)
  /\ CountDrop
  /\ pc' = "disarm"
  /\ UNCHANGED <<bc, loopVars, ret, run, armed, last, lastDst, lastSig, radl, air,
                 report>>

\* phy_transmission_change_bw, all of which succeeds.
ChangeBandwidth ==
  IF last.bw # bc.bw
  THEN RebuildSignals /\ cell' = bc.bw /\ built' = TRUE /\ half' = FALSE
  ELSE UNCHANGED <<sch0, sch1, cell, built, half>>

\* phy_transmission_change_parameters
ChangeParameters ==
  /\ pc = "change"
  /\ ValidLength(bc)
  /\ ChangeBandwidth
  /\ ChangeAllocation(SubframeMcs(bc, 1), bc.bw)
  /\ pc' = "count"
  /\ UNCHANGED <<bc, loopVars, ret, dropped, run, armed, lastDst, lastSig, air,
                 drops, report>>

\* More subframes than MAX_NOF_TBS: the iteration ends with "continue", before
\* the watchdog is disarmed.
TooManyTbs ==
  /\ pc = "count"
  /\ NofSubframes(bc) > MaxTbs
  /\ CountDrop
  /\ pc' = "pop"
  /\ UNCHANGED <<bc, loopVars, ret, run, armed, cacheVars, air, report>>

\* Mutant of StartBurst: the number of subframes is not limited.
StartBurstAnyNof ==
  /\ pc = "count"
  /\ nof' = NofSubframes(bc)
  /\ cnt' = 0 /\ sfIdx' = InitialSf /\ offset' = 0
  /\ sob' = TRUE /\ eob' = FALSE
  /\ pc' = "subframe"
  /\ UNCHANGED <<bc, ret, dropped, run, armed, cacheVars, air, drops, report>>

\* The counters are reset before transmitting.
StartBurst ==
  /\ pc = "count"
  /\ NofSubframes(bc) <= MaxTbs
  /\ nof' = NofSubframes(bc)
  /\ cnt' = 0 /\ sfIdx' = InitialSf /\ offset' = 0
  /\ sob' = TRUE /\ eob' = FALSE
  /\ pc' = "subframe"
  /\ UNCHANGED <<bc, ret, dropped, run, armed, cacheVars, air, drops, report>>

\* Subframes 0 and 5 carry PSS and SCH: the signals are generated again when
\* what they must carry has changed.  sch_signal0 is used with filtering only.
PutSignals ==
  IF sfIdx \in {0, 5}
  THEN /\ IF Filtering /\ lastDst # bc.dst
          THEN sch0' = bc.dst /\ lastDst' = bc.dst
          ELSE UNCHANGED <<sch0, lastDst>>
       /\ IF lastSig # <<bc.mcs, nof>>
          THEN sch1' = <<bc.mcs, nof>> /\ lastSig' = <<bc.mcs, nof>>
          ELSE UNCHANGED <<sch1, lastSig>>
  ELSE UNCHANGED <<sch0, sch1, lastDst, lastSig>>

\* The second subframe goes up to the MCS the first could not have.
RaiseMcs ==
  IF cnt' = 2 /\ Limited(bc)
  THEN ChangeAllocation(bc.mcs, bc.bw)
  ELSE UNCHANGED <<radl, last>>

\* The start of the subframe loop's body.
NextSubframe ==
  /\ pc = "subframe"
  /\ cnt < nof /\ run
  /\ cnt' = cnt + 1
  /\ UNCHANGED <<cell, built, half>>
  /\ PutSignals
  /\ RaiseMcs

\* Structures that could not be built leave null and stale pointers to the
\* loop's body: it crashes, or gets by with what it finds.
Crash ==
  /\ pc = "subframe"
  /\ cnt < nof /\ run
  /\ ~built
  /\ pc' = "crashed"
  /\ UNCHANGED <<bc, loopVars, ret, dropped, run, armed, cacheVars, air, drops,
                 report>>

\* A subframe is encoded from the data at the offset, which advances; the last
\* one is flagged.
EncodeSubframe ==
  /\ NextSubframe
  /\ offset' = offset + SubframeSize(bc, cnt')
  /\ eob' = (eob \/ cnt' = nof)
  /\ pc' = "send"
  /\ UNCHANGED <<bc, nof, sfIdx, sob, ret, dropped, run, armed, air, drops, report>>

\* The PDSCH cannot be configured or encoded: the loop is left.
EncodeError ==
  /\ NextSubframe
  /\ CountDrop
  /\ pc' = "stats"
  /\ UNCHANGED <<bc, nof, sfIdx, offset, sob, eob, ret, run, armed, air, report>>

\* The time to send the first subframe at has passed: the loop is left.
TooLate ==
  /\ pc = "send" /\ sob
  /\ CountDrop
  /\ pc' = "stats"
  /\ UNCHANGED <<bc, loopVars, ret, run, armed, cacheVars, air, report>>

\* What the radio transmits of the subframe cnt.
Subframe ==
  [sf |-> sfIdx, mcs |-> radl.mcs, bw |-> radl.bw, cell |-> cell,
   dst |-> sch0, sig |-> sch1,
   from |-> offset - SubframeSize(bc, cnt), to |-> offset,
   sob |-> sob, eob |-> eob]

\* srslte_rf_send_timed3, whose result is only kept, and the index of the next
\* subframe: the last one has an index of its own when it carries the PSS of
\* the end of the burst.
Transmit ==
  /\ pc = "send"
  /\ \/ ret' = "sent" /\ air' = Append(air, Subframe)
     \/ ret' = "error" /\ UNCHANGED air
     \/ Lbt /\ sob /\ ret' = "lbt" /\ UNCHANGED air
  /\ sob' = FALSE
  /\ sfIdx' = IF EobPss /\ cnt = nof - 1 THEN InitialSf + 2 ELSE InitialSf + 1
  /\ pc' = "subframe"
  /\ UNCHANGED <<bc, nof, cnt, offset, eob, dropped, run, armed, cacheVars,
                 drops, report>>

\* The subframe loop ends, all subframes sent or the thread told to stop.
EndBurst ==
  /\ pc = "subframe"
  /\ cnt = nof \/ ~run
  /\ pc' = "stats"
  /\ UNCHANGED <<bc, loopVars, ret, dropped, run, armed, cacheVars, air, drops,
                 report>>

\* phy_transmission_send_tx_statistics
SendStats ==
  /\ pc = "stats"
  /\ report' = [ok |-> ret = "sent", err |-> dropped]
  /\ pc' = "disarm"
  /\ UNCHANGED <<bc, loopVars, ret, dropped, run, armed, cacheVars, air, drops>>

Disarm ==
  /\ pc = "disarm"
  /\ armed' = FALSE
  /\ pc' = "pop"
  /\ UNCHANGED <<bc, loopVars, ret, dropped, run, cacheVars, air, drops, report>>

\* The main thread stops the PHY (phy_transmission_stop_thread).
Stop ==
  /\ run /\ pc # "crashed"
  /\ run' = FALSE
  /\ UNCHANGED <<pc, bc, loopVars, ret, dropped, armed, cacheVars, air, drops, report>>

---------------------------------------------------------------------------
Next ==
  \/ PopControl \/ Refuse \/ FailHalfway \/ ChangeParameters \/ TooManyTbs
  \/ StartBurst \/ EncodeSubframe \/ EncodeError \/ Crash \/ TooLate \/ Transmit
  \/ EndBurst \/ SendStats \/ Disarm \/ Stop

Spec == Init /\ [][Next]_vars

---------------------------------------------------------------------------
(* Properties.                                                             *)

TypeOK ==
  /\ pc \in {"pop", "change", "count", "subframe", "send", "stats", "disarm", "crashed"}
  /\ bc \in Controls
  /\ nof \in 0..MaxTbs /\ cnt \in 0..nof
  /\ sfIdx \in {InitialSf, InitialSf + 1, InitialSf + 2}
  /\ offset \in Nat
  /\ sob \in BOOLEAN /\ eob \in BOOLEAN
  /\ ret \in Results
  /\ dropped \in 0..MaxDropped /\ drops \in 0..dropped
  /\ run \in BOOLEAN /\ armed \in BOOLEAN
  /\ last \in Allocations /\ radl \in Allocations
  /\ lastDst \in Dsts /\ sch0 \in Dsts
  /\ lastSig \in Mcss \X (0..MaxTbs) /\ sch1 \in Mcss \X (0..MaxTbs)
  /\ cell \in Bws /\ built \in BOOLEAN /\ half \in BOOLEAN
  /\ Len(air) <= cnt
  /\ report.err \in 0..MaxDropped

\* The subframe that starts a burst announces the burst it is of, whatever the
\* cached signals carried and whenever the bandwidth change rebuilt them: the
\* receiver learns from it whom the burst is for (with PHY filtering), its MCS
\* and its number of subframes.
SignalMatchesBurst ==
  \A i \in 1..Len(air) : air[i].sf \in {0, 5} =>
    /\ air[i].sig = <<bc.mcs, nof>>
    /\ Filtering => air[i].dst = bc.dst

\* Every subframe is encoded with the MCS the receiver takes it to have from
\* what was announced, 28 instead of it in a first subframe at 1.4 MHz, though
\* the allocation is recomputed only when last_tx_basic_control differs
\* (phy_transmission.c:355, 539, 742).  Its resource blocks, of the allocation
\* and of the structures, are those of the bandwidth asked for unless a change of
\* bandwidth failed halfway and none succeeded since: that one failure, which
\* the record does not show, is all that can part the two.
AllocationMatches ==
  \A i \in 1..Len(air) :
    /\ air[i].mcs = IF air[i].from = 0 THEN SubframeMcs(bc, 1) ELSE SubframeMcs(bc, 2)
    /\ ~half => air[i].bw = bc.bw /\ air[i].cell = bc.bw

\* "All parameters and sampling rate are changed according to the new BW index"
\* (phy_transmission.c:336): a burst has the bandwidth of its control.
BandwidthIsOwn ==
  \A i \in 1..Len(air) : air[i].bw = bc.bw /\ air[i].cell = bc.bw

\* The transport blocks a burst is cut into are the data of the control: in
\* order, adjacent when none is lost, none beyond its length; the first, and no
\* other, starts the burst and the one that reaches the end of the data ends it
\* (the sizes phy_transmission_validate_tb_size,
\* phy_transmission_calculate_nof_subframes and the loop work out agree).
DataCovered ==
  /\ pc \in {"subframe", "send", "stats"} => offset <= bc.len
  /\ \A i \in 2..Len(air) :
       /\ air[i - 1].to <= air[i].from
       /\ Len(air) = cnt => air[i - 1].to = air[i].from
  /\ \A i \in 1..Len(air) : /\ air[i].sob <=> air[i].from = 0
                            /\ air[i].eob <=> air[i].to = bc.len

\* "Number of slots dropped for the current request from MAC"
\* (phy_transmission.c:906).
ReportsOwnDrops == [][SendStats => report'.err = drops]_vars

\* "Create a PHY Tx Stat struture to inform upper layers transmission was
\* successful" (phy_transmission.c:899): no success is reported for a control
\* of which nothing was transmitted.
SuccessTransmitted == [][SendStats /\ report'.ok => air # <<>>]_vars

\* "When it returns false packet must be dropped" (lbt.c:361): once LBT has
\* refused the medium to a burst, nothing of it is transmitted.
RefusedStaysSilent == [][ret = "lbt" /\ ~sob => air' \in {air, <<>>}]_vars

\* "Disarm watchdog timer for transmission thread" (phy_transmission.c:930): it
\* does not run while the thread waits for a control.
IdleUnwatched == pc = "pop" => ~armed

\* "If this is the last subframe then set the last one to be equal to 7 so that
\* PSS is added to it for EOB signalling" (phy_transmission.c:889).
LastMarked ==
  \A i \in 1..Len(air) : EobPss /\ air[i].eob /\ nof > 1 => air[i].sf = 7
=============================================================================

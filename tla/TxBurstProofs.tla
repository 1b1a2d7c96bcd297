---------------------------- MODULE TxBurstProofs ----------------------------
(***************************************************************************)
(* Proofs about TxBurst for all bandwidths, MCS, lengths, destinations and *)
(* tables of transport block sizes.                                        *)
(***************************************************************************)
EXTENDS TxBurst, TLAPS

---------------------------------------------------------------------------
(* Arithmetic.                                                             *)

\* Division without remainder.
LEMMA DivExact ==
  ASSUME NEW a \in Nat, NEW b \in Nat \ {0}
  PROVE  /\ a \div b \in Nat
         /\ a % b = 0 => a = (a \div b) * b
OBVIOUS

\* A multiple below another is below it by the whole step.
LEMMA TimesStep ==
  ASSUME NEW a \in Int, NEW b \in Int, NEW s \in Nat, a < b
  PROVE  a * s + s <= b * s
<1>1. (b - a - 1) * s >= 0
  <2>1. b - a - 1 \in Nat
    OBVIOUS
  <2> QED BY <2>1
<1>2. (b - a - 1) * s = b * s - a * s - s
  OBVIOUS
<1> QED BY <1>1, <1>2

---------------------------------------------------------------------------
(* Sizes: phy_transmission_validate_tb_size,                               *)
(* phy_transmission_calculate_nof_subframes and the offsets of the loop.   *)

\* Where subframe n + 1 of a control starts in its data.
Offset(c, n) ==
  IF n = 0 THEN 0 ELSE SubframeSize(c, 1) + (n - 1) * SubframeSize(c, 2)

\* Every subframe of a burst has an MCS of the tables and carries data.
LEMMA SizeType ==
  ASSUME NEW c \in Controls, NEW n \in Int
  PROVE  SubframeMcs(c, n) \in Mcss /\ SubframeSize(c, n) \in Nat \ {0}
<1>1. c.bw \in Bws /\ c.mcs \in Mcss
  BY DEF Controls
<1>2. SubframeMcs(c, n) \in Mcss
  BY <1>1, BurstAssumption DEF SubframeMcs
<1> QED BY <1>1, <1>2, BurstAssumption DEF SubframeSize

\* Only the first subframe may have a size of its own.
LEMMA SizeCases ==
  ASSUME NEW c \in Controls
  PROVE  /\ \A n \in Int : n # 1 => /\ SubframeMcs(c, n) = SubframeMcs(c, 2)
                                    /\ SubframeSize(c, n) = SubframeSize(c, 2)
         /\ ~Limited(c) => SubframeSize(c, 2) = SubframeSize(c, 1)
BY DEF SubframeMcs, SubframeSize

\* The number of subframes a valid length gives is exact: the loop comes to the
\* end of the data with the last of them, and not before.
LEMMA SizesAgree ==
  ASSUME NEW c \in Controls, ValidLength(c)
  PROVE  /\ NofSubframes(c) \in Nat \ {0}
         /\ c.len = Offset(c, NofSubframes(c))
<1> DEFINE S1 == SubframeSize(c, 1)
           S2 == SubframeSize(c, 2)
<1>1. S1 \in Nat \ {0} /\ S2 \in Nat \ {0} /\ c.len \in Nat \ {0}
  <2>1. c.len \in Nat \ {0}
    BY BurstAssumption DEF Controls
  <2> QED BY <2>1, SizeType
<1>2. CASE Limited(c)
  <2>1. c.len - S1 \in Nat /\ (c.len - S1) % S2 = 0
    BY <1>1, <1>2 DEF ValidLength
  <2> DEFINE k == (c.len - S1) \div S2
  <2>2. k \in Nat /\ c.len - S1 = k * S2
    BY <1>1, <2>1, DivExact
  <2>3. NofSubframes(c) = 1 + k
    BY <1>2 DEF NofSubframes
  <2> HIDE DEF k
  <2>4. Offset(c, 1 + k) = S1 + k * S2
    BY <1>1, <2>2 DEF Offset
  <2> QED BY <1>1, <2>2, <2>3, <2>4
<1>3. CASE ~Limited(c)
  <2>1. c.len % S1 = 0 /\ S2 = S1
    BY <1>3, SizeCases DEF ValidLength
  <2> DEFINE k == c.len \div S1
  <2>2. k \in Nat /\ c.len = k * S1
    BY <1>1, <2>1, DivExact
  <2>3. NofSubframes(c) = k
    BY <1>3 DEF NofSubframes
  <2> HIDE DEF k, S1, S2
  <2>4. k # 0
    BY <1>1, <2>2
  <2>5. S1 + (k - 1) * S1 = k * S1
    BY <1>1, <2>2
  <2>6. Offset(c, k) = S1 + (k - 1) * S1
    BY <2>1, <2>4 DEF Offset, S1, S2
  <2> QED BY <2>2, <2>3, <2>4, <2>5, <2>6
<1> QED BY <1>2, <1>3

\* Each subframe adds its size to the offset, and later subframes start later.
LEMMA OffsetStep ==
  ASSUME NEW c \in Controls, NEW n \in Nat
  PROVE  /\ Offset(c, n) \in Nat
         /\ Offset(c, n + 1) = Offset(c, n) + SubframeSize(c, n + 1)
         /\ Offset(c, n) = 0 <=> n = 0
<1> DEFINE S1 == SubframeSize(c, 1)
           S2 == SubframeSize(c, 2)
<1>1. S1 \in Nat \ {0} /\ S2 \in Nat \ {0}
  BY SizeType
<1>2. CASE n = 0
  BY <1>1, <1>2 DEF Offset
<1>3. CASE n # 0
  <2>1. SubframeSize(c, n + 1) = S2
    BY <1>3, SizeCases
  <2> HIDE DEF S1, S2
  <2>2. (n - 1) * S2 \in Nat /\ n * S2 = (n - 1) * S2 + S2
    BY <1>1, <1>3
  <2>3. Offset(c, n) = S1 + (n - 1) * S2 /\ Offset(c, n + 1) = S1 + n * S2
    BY <1>3 DEF Offset, S1, S2
  <2> QED BY <1>1, <1>3, <2>1, <2>2, <2>3
<1> QED BY <1>2, <1>3

\* The more subframes, the more data they take.
LEMMA OffsetMonotone ==
  ASSUME NEW c \in Controls, NEW m \in Nat, NEW n \in Nat, m < n
  PROVE  Offset(c, m) < Offset(c, n)
<1> DEFINE S1 == SubframeSize(c, 1)
           S2 == SubframeSize(c, 2)
<1>1. S1 \in Nat \ {0} /\ S2 \in Nat \ {0}
  BY SizeType
<1>2. CASE m = 0
  BY <1>2, OffsetStep
<1>3. CASE m # 0
  <2> HIDE DEF S1, S2
  <2>1. (m - 1) * S2 + S2 <= (n - 1) * S2
    BY <1>1, <1>3, TimesStep
  <2>2. (m - 1) * S2 \in Int /\ (n - 1) * S2 \in Int
    BY <1>1
  <2>3. Offset(c, m) = S1 + (m - 1) * S2 /\ Offset(c, n) = S1 + (n - 1) * S2
    BY <1>3 DEF Offset, S1, S2
  <2> QED BY <1>1, <2>1, <2>2, <2>3
<1> QED BY <1>2, <1>3

---------------------------------------------------------------------------
(* Type correctness.                                                       *)

\* What the radio takes of one subframe.
Sent == [sf : Int, mcs : Mcss, bw : Bws, cell : Bws, dst : Dsts, sig : Mcss \X (0..MaxTbs),
         from : Int, to : Int, sob : BOOLEAN, eob : BOOLEAN]

\* Besides the types: a control is dropped at most once, its length has been
\* checked when its subframes are counted, and nothing of it is on the air
\* before its burst starts.
TypeInv ==
  /\ TypeOK
  /\ air \in Seq(Sent)
  /\ pc \in {"change", "count", "subframe", "send"} => dropped < MaxDropped
  /\ pc \in {"change", "count"} => air = <<>>
  /\ pc = "count" => ValidLength(bc)
  /\ pc = "send" => Len(air) < cnt

\* What appending to the subframes on the air gives.
LEMMA AppendSent ==
  ASSUME NEW s \in Seq(Sent), NEW e \in Sent
  PROVE  /\ Append(s, e) \in Seq(Sent)
         /\ Len(Append(s, e)) = Len(s) + 1
         /\ \A i \in 1..Len(s) : Append(s, e)[i] = s[i]
         /\ Append(s, e)[Len(s) + 1] = e
OBVIOUS

\* The fields of a control the checks let pass.
LEMMA ControlFields ==
  ASSUME NEW c \in Controls
  PROVE  c.bw \in Bws /\ c.mcs \in Mcss /\ c.len \in Nat \ {0} /\ c.dst \in Dsts
<1>1. c.bw \in Bws /\ c.mcs \in Mcss /\ c.len \in Lens /\ c.dst \in Dsts
  BY DEF Controls
<1> QED BY <1>1, BurstAssumption

\* The thread before its first control.
LEMMA InitType == Init => TypeInv
<1> SUFFICES ASSUME Init
             PROVE  TypeInv
  OBVIOUS
<1>1. /\ bc \in Controls /\ bc.bw \in Bws /\ bc.dst \in Dsts
      /\ 0 \in Mcss /\ 0 \in 0..MaxTbs /\ 0 \in 0..MaxDropped /\ InitialSf \in Int
  BY ControlFields, BurstAssumption DEF Init
<1>2. last \in Allocations /\ radl \in Allocations /\ <<0, 0>> \in Mcss \X (0..MaxTbs)
  BY <1>1 DEF Init, Allocations
<1>3. Len(air) = 0 /\ air \in Seq(Sent)
  BY DEF Init
<1>4. /\ nof \in 0..MaxTbs /\ cnt \in 0..nof /\ offset \in Nat
      /\ dropped \in 0..MaxDropped /\ drops \in 0..dropped /\ Len(air) <= cnt
      /\ report.err \in 0..MaxDropped
  BY <1>1, <1>3 DEF Init, NoReport
<1>5. ret \in Results
  BY DEF Init, Results
<1>6. lastSig \in Mcss \X (0..MaxTbs) /\ sch1 \in Mcss \X (0..MaxTbs)
  BY <1>2 DEF Init
<1> QED BY <1>1, <1>2, <1>3, <1>4, <1>5, <1>6 DEF Init, TypeInv, TypeOK

\* phy_transmission_change_allocation keeps the allocation and the record of it
\* allocations.
LEMMA AllocationType ==
  ASSUME last \in Allocations, radl \in Allocations, cell' \in Bws,
         NEW m \in Mcss, NEW b \in Bws,
         ChangeAllocation(m, b)
  PROVE  last' \in Allocations /\ radl' \in Allocations
BY DEF ChangeAllocation, Allocations

\* The same of the start of the subframe loop's body.
LEMMA NextSubframeType ==
  ASSUME TypeInv, NextSubframe
  PROVE  /\ last' \in Allocations /\ radl' \in Allocations
         /\ lastDst' \in Dsts /\ sch0' \in Dsts
         /\ lastSig' \in Mcss \X (0..MaxTbs) /\ sch1' \in Mcss \X (0..MaxTbs)
         /\ UNCHANGED <<cell, built, half>>
         /\ cnt' = cnt + 1 /\ cnt' \in 1..nof /\ cnt < nof
<1>1. bc.bw \in Bws /\ bc.mcs \in Mcss /\ bc.dst \in Dsts
  BY ControlFields DEF TypeInv, TypeOK
<1>2. /\ last' \in Allocations /\ radl' \in Allocations
      /\ UNCHANGED <<cell, built, half>>
  BY <1>1, AllocationType DEF NextSubframe, RaiseMcs, TypeInv, TypeOK
<1>3. /\ lastDst' \in Dsts /\ sch0' \in Dsts
      /\ lastSig' \in Mcss \X (0..MaxTbs) /\ sch1' \in Mcss \X (0..MaxTbs)
  BY <1>1 DEF NextSubframe, PutSignals, TypeInv, TypeOK
<1>4. cnt' = cnt + 1 /\ cnt' \in 1..nof /\ cnt < nof
  BY BurstAssumption DEF NextSubframe, TypeInv, TypeOK
<1> QED BY <1>2, <1>3, <1>4

\* What the loop encodes is a subframe.
LEMMA SubframeType ==
  ASSUME TypeInv
  PROVE  Subframe \in Sent
<1>1. offset \in Int /\ cnt \in Int /\ sfIdx \in Int
  BY BurstAssumption DEF TypeInv, TypeOK
<1>2. SubframeSize(bc, cnt) \in Int
  BY <1>1, SizeType DEF TypeInv, TypeOK
<1>3. radl.mcs \in Mcss /\ radl.bw \in Bws /\ cell \in Bws
  BY DEF TypeInv, TypeOK, Allocations
<1> QED BY <1>1, <1>2, <1>3 DEF Subframe, Sent, TypeInv, TypeOK

\* Every step keeps the types.
LEMMA NextType == TypeInv /\ [Next]_vars => TypeInv'
<1> SUFFICES ASSUME TypeInv, [Next]_vars
             PROVE  TypeInv'
  OBVIOUS
<1> USE DEF TypeInv, TypeOK, loopVars, cacheVars
<1>1. /\ bc.bw \in Bws /\ bc.mcs \in Mcss /\ bc.dst \in Dsts
      /\ MaxTbs \in Nat /\ MaxDropped \in Nat /\ InitialSf \in Int
  BY ControlFields, BurstAssumption
<1>2. CASE PopControl
  <2>1. Len(air') = 0 /\ air' \in Seq(Sent)
    BY <1>2 DEF PopControl
  <2> QED BY <1>2, <2>1 DEF PopControl
<1>3. CASE Refuse
  BY <1>1, <1>3 DEF Refuse, CountDrop
<1>4. CASE ChangeParameters
  <2>1. last' \in Allocations /\ radl' \in Allocations
    <3>1. SubframeMcs(bc, 1) \in Mcss /\ ChangeAllocation(SubframeMcs(bc, 1), bc.bw)
      BY <1>4, SizeType DEF ChangeParameters
    <3>2. cell' \in Bws
      BY <1>1, <1>4 DEF ChangeParameters, ChangeBandwidth
    <3> QED BY <1>1, <3>1, <3>2, AllocationType
  <2>2. /\ sch0' \in Dsts /\ sch1' \in Mcss \X (0..MaxTbs)
        /\ cell' \in Bws /\ built' \in BOOLEAN /\ half' \in BOOLEAN
    BY <1>1, <1>4 DEF ChangeParameters, ChangeBandwidth, RebuildSignals
  <2>3. ValidLength(bc)'
    BY <1>4 DEF ChangeParameters, ValidLength, Limited, SubframeSize, SubframeMcs
  <2> QED BY <1>4, <2>1, <2>2, <2>3 DEF ChangeParameters
<1>5. CASE TooManyTbs
  BY <1>1, <1>5 DEF TooManyTbs, CountDrop
<1>6. CASE StartBurst
  <2>1. nof' \in 0..MaxTbs
    BY <1>6, SizesAgree DEF StartBurst
  <2>2. Len(air) = 0 /\ UNCHANGED air /\ cnt' = 0
    BY <1>6 DEF StartBurst
  <2>3. cnt' \in 0..nof' /\ Len(air') <= cnt'
    BY <1>1, <2>1, <2>2
  <2> QED BY <1>1, <1>6, <2>1, <2>2, <2>3 DEF StartBurst
<1>7. CASE EncodeSubframe
  <2>1. NextSubframe /\ UNCHANGED <<bc, nof, air>>
    BY <1>7 DEF EncodeSubframe
  <2>2. offset' \in Nat
    <3>1. cnt' \in Int
      BY <2>1, NextSubframeType
    <3>2. SubframeSize(bc, cnt') \in Nat
      BY <3>1, SizeType
    <3> QED BY <1>7, <3>2 DEF EncodeSubframe
  <2>3. Len(air') < cnt'
    BY <2>1, NextSubframeType
  <2>4. cnt' \in 0..nof'
    BY <1>1, <2>1, NextSubframeType
  <2>5. eob' \in BOOLEAN
    BY <1>7 DEF EncodeSubframe
  <2>6. /\ pc = "subframe" /\ pc' = "send"
        /\ UNCHANGED <<bc, nof, sfIdx, sob, ret, dropped, run, armed, air, drops, report>>
    BY <1>7 DEF EncodeSubframe, NextSubframe
  <2> QED BY <2>2, <2>3, <2>4, <2>5, <2>6, <2>1, NextSubframeType
<1>8. CASE EncodeError
  <2>1. NextSubframe /\ UNCHANGED <<bc, nof, air>>
    BY <1>8 DEF EncodeError
  <2>2. Len(air') <= cnt'
    BY <2>1, NextSubframeType
  <2>3. dropped' \in 0..MaxDropped /\ drops' \in 0..dropped'
    BY <1>1, <1>8, <2>1 DEF EncodeError, CountDrop, NextSubframe
  <2> QED BY <1>8, <2>1, <2>2, <2>3, NextSubframeType DEF EncodeError
<1>9. CASE TooLate
  BY <1>1, <1>9 DEF TooLate, CountDrop
<1>10. CASE Transmit
  <2>1. Subframe \in Sent
    BY SubframeType
  <2>2. air' \in Seq(Sent) /\ Len(air') <= cnt
    <3>1. pc = "send" /\ (UNCHANGED air \/ air' = Append(air, Subframe))
      BY <1>10 DEF Transmit
    <3>2. Append(air, Subframe) \in Seq(Sent) /\ Len(Append(air, Subframe)) = Len(air) + 1
      BY <2>1, AppendSent
    <3>3. Len(air) < cnt /\ Len(air) \in Nat /\ cnt \in Int
      BY <1>1, <3>1
    <3> QED BY <3>1, <3>2, <3>3
  <2>3. ret' \in Results
    BY <1>10 DEF Transmit, Results
  <2>4. sfIdx' \in {InitialSf, InitialSf + 1, InitialSf + 2}
    BY <1>10 DEF Transmit
  <2>5. /\ pc = "send" /\ pc' = "subframe" /\ sob' = FALSE
        /\ UNCHANGED <<bc, nof, cnt, offset, eob, dropped, run, armed, cacheVars,
                       drops, report>>
    BY <1>10 DEF Transmit
  <2> QED BY <2>2, <2>3, <2>4, <2>5
<1>11. CASE EndBurst
  BY <1>11 DEF EndBurst
<1>12. CASE SendStats
  BY <1>12 DEF SendStats
<1>13. CASE Disarm
  BY <1>13 DEF Disarm
<1>14. CASE Stop
  <2>1. ValidLength(bc)' <=> ValidLength(bc)
    BY <1>14 DEF Stop, ValidLength, Limited, SubframeSize, SubframeMcs
  <2>2. /\ run' \in BOOLEAN
        /\ UNCHANGED <<pc, bc, loopVars, ret, dropped, armed, cacheVars, air, drops,
                       report>>
    BY <1>14 DEF Stop
  <2> QED BY <2>1, <2>2
<1>15. CASE UNCHANGED vars
  BY <1>15 DEF vars, ValidLength, Limited, SubframeSize, SubframeMcs
<1>16. CASE FailHalfway
  BY <1>1, <1>16 DEF FailHalfway, RebuildSignals, CountDrop
<1>17. CASE Crash
  BY <1>17 DEF Crash
<1> QED
  BY <1>2, <1>3, <1>4, <1>5, <1>6, <1>7, <1>8, <1>9, <1>10, <1>11, <1>12, <1>13,
     <1>14, <1>15, <1>16, <1>17 DEF Next

\* Every variable keeps its type: a burst never has more subframes than
\* MAX_NOF_TBS nor the air more than were encoded, and a control is counted as
\* dropped once at most.
THEOREM TypeCorrect == Spec => []TypeOK
<1>1. Spec => []TypeInv
  BY InitType, NextType, PTL DEF Spec
<1> QED BY <1>1, PTL DEF TypeInv
---------------------------------------------------------------------------
(* The subframe that starts a burst announces that burst.                  *)

\* The signals carry what the caches say of them, whoever generated them last,
\* and those of a subframe about to be sent carry what its burst announces.
SignalInv ==
  /\ sch0 = lastDst /\ sch1 = lastSig
  /\ pc = "send" /\ sfIdx \in {0, 5} =>
       lastSig = <<bc.mcs, nof>> /\ (Filtering => lastDst = bc.dst)
  /\ SignalMatchesBurst

\* Every step keeps the signals at what the caches record of them.
LEMMA NextSignal == TypeInv /\ SignalInv /\ [Next]_vars => SignalInv'
<1> SUFFICES ASSUME TypeInv, SignalInv, [Next]_vars
             PROVE  SignalInv'
  OBVIOUS
<1> USE DEF SignalInv, SignalMatchesBurst, loopVars, cacheVars
<1>1. air \in Seq(Sent) /\ Len(air) \in Nat
  BY DEF TypeInv
<1>2. CASE PopControl
  BY <1>2 DEF PopControl
<1>3. CASE Refuse
  BY <1>3 DEF Refuse
<1>4. CASE ChangeParameters
  BY <1>4 DEF ChangeParameters, ChangeBandwidth, RebuildSignals
<1>5. CASE TooManyTbs
  BY <1>5 DEF TooManyTbs
<1>6. CASE StartBurst
  <2>1. Len(air) = 0 /\ UNCHANGED air
    BY <1>6 DEF StartBurst, TypeInv
  <2> QED BY <1>6, <2>1 DEF StartBurst
<1>7. CASE EncodeSubframe
  <2>1. PutSignals /\ UNCHANGED <<bc, nof, sfIdx, air>>
    BY <1>7 DEF EncodeSubframe, NextSubframe
  <2>2. /\ sch0' = lastDst' /\ sch1' = lastSig'
        /\ sfIdx \in {0, 5} =>
             lastSig' = <<bc.mcs, nof>> /\ (Filtering => lastDst' = bc.dst)
    BY <2>1 DEF PutSignals
  <2> QED BY <2>1, <2>2
<1>8. CASE EncodeError
  <2>1. PutSignals /\ UNCHANGED <<bc, nof, sfIdx, air>> /\ pc' = "stats"
    BY <1>8 DEF EncodeError, NextSubframe
  <2>2. sch0' = lastDst' /\ sch1' = lastSig'
    BY <2>1 DEF PutSignals
  <2> QED BY <2>1, <2>2
<1>9. CASE TooLate
  BY <1>9 DEF TooLate
<1>10. CASE Transmit
  <2>1. /\ pc = "send" /\ pc' = "subframe"
        /\ UNCHANGED <<bc, nof, sch0, sch1, lastDst, lastSig>>
    BY <1>10 DEF Transmit
  <2>2. CASE UNCHANGED air
    BY <2>1, <2>2
  <2>3. CASE air' = Append(air, Subframe)
    <3> DEFINE e == Subframe
    <3>1. e.sf = sfIdx /\ e.dst = sch0 /\ e.sig = sch1
      BY DEF Subframe
    <3>2. e \in Sent
      BY SubframeType, <2>1
    <3> HIDE DEF e
    <3>3. /\ Len(air') = Len(air) + 1
          /\ \A i \in 1..Len(air) : air'[i] = air[i]
          /\ air'[Len(air) + 1] = e
      BY <1>1, <2>3, <3>2, AppendSent DEF e
    <3>4. \A i \in 1..Len(air') : i \in 1..Len(air) \/ i = Len(air) + 1
      BY <1>1, <3>3
    <3> QED BY <2>1, <3>1, <3>3, <3>4
  <2> QED BY <1>10, <2>2, <2>3 DEF Transmit
<1>11. CASE EndBurst
  BY <1>11 DEF EndBurst
<1>12. CASE SendStats
  BY <1>12 DEF SendStats
<1>13. CASE Disarm
  BY <1>13 DEF Disarm
<1>14. CASE Stop
  BY <1>14 DEF Stop
<1>15. CASE UNCHANGED vars
  BY <1>15 DEF vars
<1>16. CASE FailHalfway
  BY <1>16 DEF FailHalfway, RebuildSignals
<1>17. CASE Crash
  BY <1>17 DEF Crash
<1> QED
  BY <1>2, <1>3, <1>4, <1>5, <1>6, <1>7, <1>8, <1>9, <1>10, <1>11, <1>12, <1>13,
     <1>14, <1>15, <1>16, <1>17 DEF Next

\* The subframe that starts a burst announces that burst, for all parameters of
\* the PHY and all sequences of controls.
THEOREM SignalCorrect == Spec => []SignalMatchesBurst
<1>1. Init => SignalInv
  BY DEF Init, SignalInv, SignalMatchesBurst
<1>2. Spec => []SignalInv
  BY <1>1, InitType, NextType, NextSignal, PTL DEF Spec
<1> QED BY <1>2, PTL DEF SignalInv

---------------------------------------------------------------------------
(* The transport blocks of a burst are the data of its control.            *)

\* The subframes of the burst the radio has been handed.
Handed == IF pc = "send" THEN cnt - 1 ELSE cnt

\* Where the loop is in the data, and the two flags, follow from the counter;
\* what the radio took lies behind that, each subframe at its place in the data
\* if the radio took them all.
BurstInv ==
  /\ ValidLength(bc)
  /\ nof = NofSubframes(bc)
  /\ offset = Offset(bc, cnt)
  /\ sob <=> Handed = 0
  /\ eob <=> cnt = nof
  /\ Len(air) <= Handed
  /\ \A i \in 1..Len(air) : air[i].to <= Offset(bc, Handed)
  /\ Len(air) = Handed =>
       \A i \in 1..Len(air) : /\ air[i].from = Offset(bc, i - 1)
                              /\ air[i].to = Offset(bc, i)

DataInv ==
  /\ pc \in {"subframe", "send"} => BurstInv
  /\ DataCovered

\* Where the loop stands in the data of its control.
LEMMA InLoop ==
  ASSUME TypeInv, BurstInv
  PROVE  /\ cnt \in Nat /\ nof \in Nat /\ cnt <= nof
         /\ bc.len = Offset(bc, nof)
         /\ Offset(bc, cnt) <= bc.len
         /\ cnt < nof => Offset(bc, cnt) < bc.len
<1>1. bc \in Controls /\ cnt \in Nat /\ nof \in Nat /\ cnt <= nof
  BY BurstAssumption DEF TypeInv, TypeOK
<1>2. bc.len = Offset(bc, nof) /\ bc.len \in Nat
  BY <1>1, SizesAgree, ControlFields DEF BurstInv
<1>3. cnt < nof => Offset(bc, cnt) < bc.len
  BY <1>1, <1>2, OffsetMonotone
<1>4. Offset(bc, cnt) <= bc.len
  <2>1. CASE cnt < nof
    BY <1>1, <1>2, <1>3, <2>1, OffsetStep
  <2>2. CASE cnt = nof
    BY <1>2, <2>2
  <2> QED BY <1>1, <2>1, <2>2
<1> QED BY <1>1, <1>2, <1>3, <1>4

\* The start of the loop's body keeps DataCovered, whether the subframe is then
\* encoded or not: fewer subframes are on the air than the counter says.
LEMMA NextCovered ==
  ASSUME TypeInv, DataInv, NextSubframe, UNCHANGED <<bc, nof, air>>,
         offset' \in Nat, offset' <= bc.len
  PROVE  DataCovered'
<1>1. Len(air) <= cnt /\ cnt' = cnt + 1 /\ Len(air) \in Nat /\ cnt \in Int
  BY BurstAssumption DEF NextSubframe, TypeInv, TypeOK
<1>2. Len(air') # cnt'
  BY <1>1
<1> QED BY <1>2 DEF DataInv, DataCovered

\* Encoding takes the next transport block of the data;
LEMMA EncodeData ==
  ASSUME TypeInv, DataInv, EncodeSubframe
  PROVE  DataInv'
<1>1. /\ NextSubframe /\ pc = "subframe" /\ pc' = "send" /\ cnt' = cnt + 1
      /\ UNCHANGED <<bc, nof, sob, air>> /\ cnt < nof
      /\ offset' = offset + SubframeSize(bc, cnt + 1)
      /\ eob' = (eob \/ cnt' = nof)
  BY DEF EncodeSubframe, NextSubframe
<1>2. BurstInv
  BY <1>1 DEF DataInv
<1>3. bc \in Controls /\ cnt \in Nat /\ nof \in Nat /\ Handed = cnt /\ Handed' = cnt
  BY <1>1, <1>2, InLoop DEF Handed, TypeInv, TypeOK
<1>4. offset' = Offset(bc, cnt + 1) /\ offset' \in Nat
  BY <1>1, <1>2, <1>3, OffsetStep DEF BurstInv
<1>5. offset' <= bc.len
  <2>1. CASE cnt + 1 = nof
    BY <1>2, <1>4, <2>1, InLoop
  <2>2. CASE cnt + 1 # nof
    BY <1>1, <1>2, <1>3, <1>4, <2>2, InLoop, OffsetMonotone, ControlFields
  <2> QED BY <2>1, <2>2
<1>6. DataCovered'
  BY <1>1, <1>4, <1>5, NextCovered
<1>7. ValidLength(bc)' /\ nof' = NofSubframes(bc)' /\ offset' = Offset(bc, cnt)'
  BY <1>1, <1>2, <1>4 DEF BurstInv
<1>8. (sob' <=> Handed' = 0) /\ (eob' <=> cnt' = nof')
  <2>1. eob' = (cnt' = nof)
    <3>1. ~(cnt = nof)
      BY <1>1, <1>3
    <3>2. ~eob
      BY <1>2, <3>1 DEF BurstInv
    <3> QED BY <1>1, <3>2
  <2>2. (sob <=> Handed = 0) /\ Handed' = Handed
    BY <1>2, <1>3 DEF BurstInv
  <2>3. sob' <=> Handed' = 0
    BY <1>1, <2>2
  <2> QED BY <1>1, <2>1, <2>3
<1>9. Len(air') <= Handed'
  BY <1>1, <1>2, <1>3 DEF BurstInv
<1>10. \A i \in 1..Len(air') : air'[i].to <= Offset(bc, Handed)'
  BY <1>1, <1>2, <1>3 DEF BurstInv
<1>11. Len(air') = Handed' =>
         \A i \in 1..Len(air') : /\ air'[i].from = Offset(bc, i - 1)'
                                 /\ air'[i].to = Offset(bc, i)'
  BY <1>1, <1>2, <1>3 DEF BurstInv
<1> QED BY <1>1, <1>6, <1>7, <1>8, <1>9, <1>10, <1>11 DEF DataInv, BurstInv

\* What is sent of a subframe lies where the counter says.
LEMMA SubframePlace ==
  ASSUME TypeInv, BurstInv, pc = "send"
  PROVE  /\ Offset(bc, cnt - 1) \in Nat /\ Offset(bc, cnt) \in Nat
         /\ Offset(bc, cnt - 1) < Offset(bc, cnt)
         /\ Offset(bc, cnt - 1) = 0 <=> cnt = 1
         /\ Subframe.from = Offset(bc, cnt - 1) /\ Subframe.to = Offset(bc, cnt)
<1> DEFINE A == Offset(bc, cnt - 1)
           B == Offset(bc, cnt)
<1>1. bc \in Controls /\ cnt - 1 \in Nat /\ cnt \in Nat
  <2>1. Len(air) \in Nat /\ Len(air) < cnt
    BY DEF TypeInv
  <2> QED BY <2>1, InLoop DEF TypeInv, TypeOK
<1>2. A \in Nat /\ B = A + SubframeSize(bc, cnt) /\ (A = 0 <=> cnt = 1)
  <2>1. A \in Nat /\ Offset(bc, (cnt - 1) + 1) = A + SubframeSize(bc, (cnt - 1) + 1)
        /\ (A = 0 <=> cnt - 1 = 0)
    BY <1>1, OffsetStep
  <2>2. (cnt - 1) + 1 = cnt
    BY <1>1
  <2> QED BY <1>1, <2>1, <2>2
<1>3. SubframeSize(bc, cnt) \in Nat \ {0}
  BY <1>1, SizeType
<1>4. Subframe.from = offset - SubframeSize(bc, cnt) /\ Subframe.to = offset
  BY DEF Subframe
<1>5. offset = B
  BY DEF BurstInv
<1> HIDE DEF A, B
<1>6. B \in Nat /\ A < B /\ Subframe.from = A /\ Subframe.to = B
  BY <1>2, <1>3, <1>4, <1>5
<1> QED BY <1>2, <1>6 DEF A, B

\* sending moves the offset behind it.
LEMMA TransmitData ==
  ASSUME TypeInv, DataInv, Transmit
  PROVE  DataInv'
<1>1. /\ pc = "send" /\ pc' = "subframe" /\ sob' = FALSE
      /\ UNCHANGED <<bc, nof, cnt, offset, eob>>
      /\ UNCHANGED air \/ air' = Append(air, Subframe)
  BY DEF Transmit
<1>2. BurstInv
  BY <1>1 DEF DataInv
<1>3. /\ bc \in Controls /\ cnt \in Nat /\ nof \in Nat /\ air \in Seq(Sent)
      /\ Len(air) \in Nat /\ Len(air) < cnt /\ cnt <= nof
      /\ Handed = cnt - 1 /\ Handed' = cnt
  BY <1>1, <1>2, InLoop DEF Handed, TypeInv, TypeOK
<1> DEFINE A == Offset(bc, cnt - 1)
           B == Offset(bc, cnt)
           e == Subframe
<1>4. A \in Nat /\ B \in Nat /\ A < B /\ (A = 0 <=> cnt = 1)
  BY <1>1, <1>2, SubframePlace
<1>5. e.from = A /\ e.to = B /\ e.sob = sob /\ e.eob = eob /\ e \in Sent
  BY <1>1, <1>2, SubframePlace, SubframeType DEF Subframe
<1>6. (e.sob <=> e.from = 0) /\ (e.eob <=> e.to = bc.len)
  <2>1. e.sob <=> cnt - 1 = 0
    BY <1>2, <1>3, <1>5 DEF BurstInv
  <2>2. e.eob <=> cnt = nof
    BY <1>2, <1>5 DEF BurstInv
  <2>3. B = bc.len <=> cnt = nof
    BY <1>2, <1>3, <1>4, InLoop
  <2> HIDE DEF A, B, e
  <2> QED BY <1>3, <1>4, <1>5, <2>1, <2>2, <2>3
<1>7. /\ \A i \in 1..Len(air) : air[i].to <= A /\ air[i] \in Sent
      /\ Len(air) = cnt - 1 =>
           \A i \in 1..Len(air) : /\ air[i].from = Offset(bc, i - 1)
                                  /\ air[i].to = Offset(bc, i)
  BY <1>2, <1>3 DEF BurstInv
<1> HIDE DEF A, B, e
<1>8. CASE UNCHANGED air
  <2>1. \A i \in 1..Len(air) : air[i].to <= B
    <3>1. \A i \in 1..Len(air) : air[i].to \in Int
      BY <1>7 DEF Sent
    <3> QED BY <1>4, <1>7, <3>1
  <2>2. DataCovered'
    BY <1>1, <1>3, <1>8 DEF DataInv, DataCovered
  <2>3. BurstInv'
    BY <1>1, <1>2, <1>3, <1>8, <2>1 DEF BurstInv, B
  <2> QED BY <2>2, <2>3 DEF DataInv
<1>9. CASE air' = Append(air, Subframe)
  <2> DEFINE n == Len(air)
  <2>1. /\ Len(air') = n + 1 /\ air'[n + 1] = e
        /\ \A i \in 1..n : air'[i] = air[i]
    BY <1>3, <1>5, <1>9, AppendSent DEF e
  <2>2. \A i \in 1..Len(air') : i \in 1..n \/ i = n + 1
    BY <1>3, <2>1
  <2>3. \A i \in 1..n : air[i].to \in Int
    BY <1>7 DEF Sent
  <2>4. \A i \in 1..Len(air') : air'[i].to <= B
    BY <1>4, <1>5, <1>7, <2>1, <2>2, <2>3
  <2>5. Len(air') = cnt =>
          \A i \in 1..Len(air') : /\ air'[i].from = Offset(bc, i - 1)
                                  /\ air'[i].to = Offset(bc, i)
    <3> SUFFICES ASSUME Len(air') = cnt, NEW i \in 1..Len(air')
                 PROVE  air'[i].from = Offset(bc, i - 1) /\ air'[i].to = Offset(bc, i)
      OBVIOUS
    <3>1. n = cnt - 1
      BY <1>3, <2>1
    <3>2. CASE i \in 1..n
      BY <1>7, <2>1, <3>1, <3>2
    <3>3. CASE i = n + 1
      <4>1. i = cnt
        BY <1>3, <3>1, <3>3
      <4> QED BY <1>5, <2>1, <3>3, <4>1 DEF A, B
    <3> QED BY <2>2, <3>2, <3>3
  <2>6. BurstInv'
    BY <1>1, <1>2, <1>3, <2>1, <2>4, <2>5 DEF BurstInv, B
  <2>7. \A i \in 1..Len(air') : /\ air'[i].sob <=> air'[i].from = 0
                                /\ air'[i].eob <=> air'[i].to = bc.len
    <3>1. \A i \in 1..n : /\ air[i].sob <=> air[i].from = 0
                          /\ air[i].eob <=> air[i].to = bc.len
      BY DEF DataInv, DataCovered
    <3> QED BY <1>6, <2>1, <2>2, <3>1
  <2>8. \A i \in 2..Len(air') : /\ air'[i - 1].to <= air'[i].from
                                /\ Len(air') = cnt => air'[i - 1].to = air'[i].from
    <3> SUFFICES ASSUME NEW i \in 2..Len(air')
                 PROVE  /\ air'[i - 1].to <= air'[i].from
                        /\ Len(air') = cnt => air'[i - 1].to = air'[i].from
      OBVIOUS
    <3>1. i - 1 \in 1..n /\ i \in 1..Len(air') /\ i - 1 \in 1..Len(air')
      BY <1>3, <2>1
    <3>2. Len(air') = cnt => air'[i - 1].to = air'[i].from
      BY <2>5, <3>1
    <3>3. air'[i - 1].to <= air'[i].from
      <4>1. CASE i = n + 1
        BY <1>5, <1>7, <2>1, <3>1, <4>1
      <4>2. CASE i \in 1..n
        <5>1. air[i - 1].to <= air[i].from
          BY <1>3, <3>1, <4>2 DEF DataInv, DataCovered
        <5> QED BY <2>1, <3>1, <4>2, <5>1
      <4> QED BY <2>2, <3>1, <4>1, <4>2
    <3> QED BY <3>2, <3>3
  <2>9. offset' <= bc.len
    BY <1>1, <1>2, InLoop DEF BurstInv
  <2>10. DataCovered'
    BY <1>1, <2>7, <2>8, <2>9 DEF DataCovered
  <2> QED BY <2>6, <2>10 DEF DataInv
<1> QED BY <1>1, <1>8, <1>9

\* Every step keeps the transport blocks covering the data so far.
LEMMA NextData == TypeInv /\ DataInv /\ [Next]_vars => DataInv'
<1> SUFFICES ASSUME TypeInv, DataInv, [Next]_vars
             PROVE  DataInv'
  OBVIOUS
<1> USE DEF DataInv, DataCovered, loopVars
<1>1. CASE PopControl
  BY <1>1 DEF PopControl
<1>2. CASE Refuse
  BY <1>2 DEF Refuse
<1>3. CASE ChangeParameters
  BY <1>3 DEF ChangeParameters
<1>4. CASE TooManyTbs
  BY <1>4 DEF TooManyTbs
<1>5. CASE StartBurst
  <2>1. /\ pc = "count" /\ pc' = "subframe" /\ UNCHANGED <<bc, air>>
        /\ nof' = NofSubframes(bc) /\ cnt' = 0 /\ offset' = 0
        /\ sob' = TRUE /\ eob' = FALSE
    BY <1>5 DEF StartBurst
  <2>2. ValidLength(bc) /\ Len(air) = 0 /\ bc \in Controls
    BY <2>1 DEF TypeInv, TypeOK
  <2>3. nof' \in Nat \ {0}
    BY <2>1, <2>2, SizesAgree
  <2>4. BurstInv'
    BY <2>1, <2>2, <2>3 DEF BurstInv, Handed, Offset
  <2>5. DataCovered'
    BY <2>1, <2>2, ControlFields
  <2> QED BY <2>4, <2>5
<1>6. CASE EncodeSubframe
  BY <1>6, EncodeData
<1>7. CASE EncodeError
  <2>1. /\ NextSubframe /\ pc = "subframe" /\ pc' = "stats"
        /\ UNCHANGED <<bc, nof, air, offset>>
    BY <1>7 DEF EncodeError, NextSubframe
  <2>2. offset' \in Nat /\ offset' <= bc.len
    BY <2>1 DEF TypeInv, TypeOK
  <2> QED BY <2>1, <2>2, NextCovered
<1>8. CASE TooLate
  BY <1>8 DEF TooLate
<1>9. CASE Transmit
  BY <1>9, TransmitData
<1>10. CASE EndBurst
  BY <1>10 DEF EndBurst
<1>11. CASE SendStats
  BY <1>11 DEF SendStats
<1>12. CASE Disarm
  BY <1>12 DEF Disarm
<1>13. CASE Stop
  BY <1>13 DEF Stop, BurstInv, Handed
<1>14. CASE UNCHANGED vars
  BY <1>14 DEF vars, BurstInv, Handed
<1>15. CASE FailHalfway
  BY <1>15 DEF FailHalfway
<1>16. CASE Crash
  BY <1>16 DEF Crash
<1> QED
  BY <1>1, <1>2, <1>3, <1>4, <1>5, <1>6, <1>7, <1>8, <1>9, <1>10, <1>11, <1>12,
     <1>13, <1>14, <1>15, <1>16 DEF Next

\* The transport blocks of a burst are the data of its control, in order and
\* adjacent when none is lost, and the first and the last carry the flags, for
\* all lengths and tables of sizes.
THEOREM DataCorrect == Spec => []DataCovered
<1>1. Init => DataInv
  BY DEF Init, DataInv, DataCovered
<1>2. Spec => [](TypeInv /\ DataInv)
  BY <1>1, InitType, NextType, NextData, PTL DEF Spec
<1> QED BY <1>2, PTL DEF DataInv

---------------------------------------------------------------------------
(* Every subframe is encoded for its MCS and bandwidth.                    *)

Allocation(c, n) == [mcs |-> SubframeMcs(c, n), bw |-> c.bw]

\* The record of the allocation is what the control at hand needs, and tells what
\* the PDSCH is encoded for: its MCS always, its bandwidth and that of the
\* structures unless a change of bandwidth failed halfway.
AllocationInv ==
  /\ radl.mcs = last.mcs
  /\ ~half => radl = last /\ cell = last.bw
  /\ pc = "count" => last = Allocation(bc, 1)
  /\ pc \in {"subframe", "send"} =>
       last = Allocation(bc, IF cnt \in {0, 1} THEN 1 ELSE 2)
  /\ AllocationMatches

\* Whether or not the record matches already, it is afterwards what was asked
\* for, and what it tells of the PDSCH stays true.
LEMMA AllocationChanged ==
  ASSUME radl \in Allocations, last \in Allocations, radl.mcs = last.mcs,
         ~half => radl = last, NEW m, NEW b, ChangeAllocation(m, b),
         ~half' => cell' = b /\ (~half \/ last.bw # b)
  PROVE  /\ last' = [mcs |-> m, bw |-> b] /\ radl'.mcs = m
         /\ ~half' => radl' = last' /\ cell' = last'.bw
<1>1. CASE last.mcs # m \/ last.bw # b
  BY <1>1 DEF ChangeAllocation
<1>2. CASE ~(last.mcs # m \/ last.bw # b)
  <2>1. UNCHANGED <<radl, last>>
    BY <1>2 DEF ChangeAllocation
  <2>2. last = [mcs |-> m, bw |-> b]
    BY <1>2 DEF Allocations
  <2> QED BY <1>2, <2>1, <2>2
<1> QED BY <1>1, <1>2

\* The MCS is raised when it must be.
LEMMA NextAllocation ==
  ASSUME TypeInv, AllocationInv, NextSubframe, UNCHANGED bc
  PROVE  /\ radl'.mcs = last'.mcs
         /\ ~half' => radl' = last' /\ cell' = last'.bw
         /\ last' = Allocation(bc, IF cnt' \in {0, 1} THEN 1 ELSE 2)
         /\ UNCHANGED half
<1>1. /\ pc = "subframe" /\ RaiseMcs /\ cnt' = cnt + 1 /\ cnt \in Nat
      /\ radl.mcs = last.mcs /\ (~half => radl = last /\ cell = last.bw)
      /\ last = Allocation(bc, IF cnt \in {0, 1} THEN 1 ELSE 2)
      /\ radl \in Allocations /\ last \in Allocations
      /\ UNCHANGED <<cell, half>>
  BY BurstAssumption DEF NextSubframe, AllocationInv, TypeInv, TypeOK
<1>2. CASE cnt' = 2 /\ Limited(bc)
  <2>1. ChangeAllocation(bc.mcs, bc.bw)
    BY <1>1, <1>2 DEF RaiseMcs
  <2>2. ~half' => cell' = bc.bw /\ ~half
    BY <1>1 DEF Allocation
  <2>3. /\ last' = [mcs |-> bc.mcs, bw |-> bc.bw] /\ radl'.mcs = bc.mcs
        /\ ~half' => radl' = last' /\ cell' = last'.bw
    BY <1>1, <2>1, <2>2, AllocationChanged
  <2> QED BY <1>1, <1>2, <2>3 DEF Allocation, SubframeMcs
<1>3. CASE ~(cnt' = 2 /\ Limited(bc))
  <2>1. UNCHANGED <<radl, last>>
    BY <1>1, <1>3 DEF RaiseMcs
  <2>2. CASE Limited(bc)
    <3>1. cnt' \in {0, 1} <=> cnt \in {0, 1}
      BY <1>1, <1>3, <2>2
    <3> QED BY <1>1, <2>1, <3>1
  <2>3. CASE ~Limited(bc)
    <3>1. Allocation(bc, 1) = Allocation(bc, 2)
      BY <2>3 DEF Allocation, SubframeMcs
    <3> QED BY <1>1, <2>1, <3>1
  <2> QED BY <2>2, <2>3
<1> QED BY <1>2, <1>3

\* Every step keeps the PDSCH at what the record of the allocation says.
LEMMA NextAllocationInv ==
  TypeInv /\ DataInv /\ AllocationInv /\ [Next]_vars => AllocationInv'
<1> SUFFICES ASSUME TypeInv, DataInv, AllocationInv, [Next]_vars
             PROVE  AllocationInv'
  OBVIOUS
<1> USE DEF AllocationInv, AllocationMatches, loopVars, cacheVars
<1>1. air \in Seq(Sent) /\ Len(air) \in Nat
  BY DEF TypeInv
<1>2. CASE PopControl
  BY <1>2 DEF PopControl
<1>3. CASE Refuse
  BY <1>3 DEF Refuse
<1>4. CASE ChangeParameters
  <2>1. /\ ChangeAllocation(SubframeMcs(bc, 1), bc.bw) /\ ChangeBandwidth
        /\ radl \in Allocations /\ last \in Allocations
    BY <1>4 DEF ChangeParameters, TypeInv, TypeOK
  <2>2. ~half' => cell' = bc.bw /\ (~half \/ last.bw # bc.bw)
    BY <2>1 DEF ChangeBandwidth
  <2>3. /\ last' = [mcs |-> SubframeMcs(bc, 1), bw |-> bc.bw]
        /\ radl'.mcs = SubframeMcs(bc, 1)
        /\ ~half' => radl' = last' /\ cell' = last'.bw
    BY <2>1, <2>2, AllocationChanged
  <2>4. last' = Allocation(bc, 1) /\ radl'.mcs = last'.mcs
    BY <2>3 DEF Allocation
  <2>5. Len(air) = 0 /\ UNCHANGED <<bc, air>> /\ pc' = "count"
    BY <1>4 DEF ChangeParameters, TypeInv
  <2> QED BY <2>3, <2>4, <2>5 DEF Allocation, SubframeMcs, Limited
<1>5. CASE TooManyTbs
  BY <1>5 DEF TooManyTbs
<1>6. CASE StartBurst
  BY <1>6 DEF StartBurst
<1>7. CASE EncodeSubframe
  BY <1>7, NextAllocation DEF EncodeSubframe
<1>8. CASE EncodeError
  BY <1>8, NextAllocation DEF EncodeError
<1>9. CASE TooLate
  BY <1>9 DEF TooLate
<1>10. CASE Transmit
  <2>1. /\ pc = "send" /\ pc' = "subframe"
        /\ UNCHANGED <<bc, cnt, radl, last, cell, half>>
    BY <1>10 DEF Transmit
  <2>2. CASE UNCHANGED air
    BY <2>1, <2>2
  <2>3. CASE air' = Append(air, Subframe)
    <3> DEFINE e == Subframe
    <3>1. e.mcs = radl.mcs /\ e.bw = radl.bw /\ e.cell = cell /\ e \in Sent
      BY SubframeType DEF Subframe
    <3>2. e.from = 0 <=> cnt = 1
      BY <2>1, SubframePlace DEF DataInv
    <3>3. cnt # 0
      BY <1>1, <2>1 DEF TypeInv, TypeOK
    <3>4. last = Allocation(bc, IF cnt = 1 THEN 1 ELSE 2)
      BY <2>1, <3>3
    <3> HIDE DEF e
    <3>5. /\ ~half => e.bw = bc.bw /\ e.cell = bc.bw
          /\ e.mcs = IF e.from = 0 THEN SubframeMcs(bc, 1) ELSE SubframeMcs(bc, 2)
      BY <3>1, <3>2, <3>4 DEF Allocation
    <3>6. /\ Len(air') = Len(air) + 1
          /\ \A i \in 1..Len(air) : air'[i] = air[i]
          /\ air'[Len(air) + 1] = e
      BY <1>1, <2>3, <3>1, AppendSent DEF e
    <3>7. \A i \in 1..Len(air') : i \in 1..Len(air) \/ i = Len(air) + 1
      BY <1>1, <3>6
    <3> QED BY <2>1, <3>5, <3>6, <3>7
  <2> QED BY <1>10, <2>2, <2>3 DEF Transmit
<1>11. CASE EndBurst
  BY <1>11 DEF EndBurst
<1>12. CASE SendStats
  BY <1>12 DEF SendStats
<1>13. CASE Disarm
  BY <1>13 DEF Disarm
<1>14. CASE Stop
  BY <1>14 DEF Stop
<1>15. CASE UNCHANGED vars
  BY <1>15 DEF vars
<1>16. CASE FailHalfway
  <2>1. Len(air) = 0 /\ UNCHANGED <<bc, air>>
    BY <1>16 DEF FailHalfway, TypeInv
  <2> QED BY <1>16, <2>1 DEF FailHalfway
<1>17. CASE Crash
  BY <1>17 DEF Crash
<1> QED
  BY <1>2, <1>3, <1>4, <1>5, <1>6, <1>7, <1>8, <1>9, <1>10, <1>11, <1>12, <1>13,
     <1>14, <1>15, <1>16, <1>17 DEF Next

\* Every subframe on the air is encoded with the MCS the receiver takes it to
\* have, though the allocation is cached between bursts, and over the bandwidth
\* of its control unless a change of bandwidth failed halfway and none has
\* succeeded since.
THEOREM AllocationCorrect == Spec => []AllocationMatches
<1>1. Init => DataInv /\ AllocationInv
  BY DEF Init, DataInv, DataCovered, AllocationInv, AllocationMatches
<1>2. Spec => [](TypeInv /\ DataInv /\ AllocationInv)
  BY <1>1, InitType, NextType, NextData, NextAllocationInv, PTL DEF Spec
<1> QED BY <1>2, PTL DEF AllocationInv
=============================================================================

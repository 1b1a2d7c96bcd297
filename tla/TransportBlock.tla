--------------------------- MODULE TransportBlock ---------------------------
(***************************************************************************)
(* How a transport block is fitted into a subframe, and found in it again. *)
(* Tx thread and Rx decoding thread work out independently, from tables    *)
(* and sums in ra.c, cbsegm.c, softbuffer.c, sch.c and pdsch.c, how many   *)
(* bits the block has, into which code blocks it is cut, how many resource *)
(* elements (REs) carry it and which of the code bits are whose.           *)
(*                                                                         *)
(* One action encodes a subframe of a burst (the body of the loop of       *)
(* phy_transmission_work), one decodes it (that of                         *)
(* phy_reception_decoding_work).  The channel changes nothing, and a turbo *)
(* decoder recovers a code block from code bits that start where the       *)
(* encoder's start and are at least as many as the block's bits.  All PRBs *)
(* are allocated; one antenna port, decode_pdcch false, as trx.c sets      *)
(* them; ENABLE_GUARD_BAND_HARVESTING is 1.                                *)
(***************************************************************************)
EXTENDS Integers, Sequences, FiniteSetsExt

CONSTANTS
  Bws,         \* bandwidth indices, 1 being 1.4 MHz
  Mcss,        \* values of mcs
  MaxNof,      \* bound of the model: subframes of a burst
  PssLen       \* pss_len

OneDotFour == 1
FirstMcsLimit == 28
InitialSf == 5

ASSUME TransportBlockAssumption ==
  /\ Bws \subseteq 1..6 /\ Mcss \subseteq 0..31
  /\ MaxNof \in Nat \ {0}
  /\ PssLen \in 1..72

VARIABLES
  bw,        \* bw_idx of the burst
  mcs,       \* its MCS
  sch,       \* add_sch_to_front: a second SCH in the first subframe
  eobPss,    \* enable_eob_pss
  nof,       \* its subframes
  pc,        \* whose turn it is
  cnt,       \* subframes encoded
  txSf,      \* sf_idx of the Tx thread
  rxSf,      \* ue_sync.sf_idx
  tx,        \* the subframe on the air
  got        \* what srslte_ue_dl_decode_scatter returned for it

burst == <<bw, mcs, sch, eobPss, nof>>
vars == <<burst, pc, cnt, txSf, rxSf, tx, got>>

---------------------------------------------------------------------------
(* Sizes of transport blocks.                                              *)

\* helpers_get_prb_from_bw_index
NofPrb == <<7, 15, 25, 50, 75, 100>>

\* tbs_table_scatter, at the numbers of PRBs in use: bits, by i_tbs from 0.
TbsTable ==
  <<
    <<200, 248, 328, 432, 536, 664, 792, 936, 1064, 1224, 1352, 1544,
      1768, 1992, 2216, 2408, 2536, 2792, 3112, 3304, 3624, 3880, 4136,
      4456, 4712, 4840, 4904>>,
    <<408, 552, 680, 904, 1128, 1384, 1608, 1896, 2216, 2472, 2792, 3112,
      3496, 4072, 4456, 4776, 5160, 5608, 6328, 6712, 7352, 7864, 8376,
      8888, 9528, 9912, 11576>>,
    <<728, 952, 1160, 1512, 1896, 2344, 2728, 3304, 3688, 4264, 4648,
      5224, 6056, 6840, 7608, 8120, 8504, 9656, 10424, 11320, 12088,
      13344, 14304, 14880, 16032, 16800, 19336>>,
    <<1480, 1928, 2344, 3048, 3880, 4648, 5480, 6584, 7480, 8504, 9272,
      10552, 12216, 13728, 15072, 16224, 17376, 19592, 21128, 22664,
      24456, 27056, 28976, 30256, 32472, 33624, 39232>>,
    <<2216, 2920, 3624, 4712, 5736, 7224, 8248, 9784, 11448, 12576, 13920,
      16224, 18144, 20360, 22920, 24456, 26096, 29296, 31320, 35160,
      37440, 40576, 43304, 46888, 48424, 49872, 58616>>,
    <<2984, 3880, 4904, 6120, 7736, 9400, 11064, 13152, 15072, 16992,
      18824, 21128, 24456, 27056, 30256, 32856, 35160, 39232, 41920,
      46888, 49872, 54480, 58616, 61176, 65888, 68040, 80280>>
  >>

\* tbs_table_scatter_higher_mcs: bytes, by MCS from 0.
HigherMcs ==
  <<
    <<25, 31, 41, 54, 67, 83, 99, 117, 133, 153, 153, 169, 193, 221, 249,
      277, 301, 301, 317, 349, 389, 413, 453, 485, 517, 557, 589, 605,
      613, 629, 653, 717>>,
    <<51, 69, 85, 113, 141, 173, 201, 237, 277, 309, 309, 349, 389, 437,
      509, 557, 597, 597, 645, 701, 791, 839, 919, 983, 1047, 1111, 1191,
      1239, 1447, 1479, 1495, 1511>>,
    <<91, 119, 145, 189, 237, 293, 341, 413, 461, 533, 533, 581, 653, 757,
      855, 951, 1015, 1015, 1063, 1207, 1303, 1415, 1511, 1668, 1788,
      1860, 2004, 2100, 2417, 2449, 2481, 2513>>,
    <<185, 241, 293, 381, 485, 581, 685, 823, 935, 1063, 1063, 1159, 1319,
      1527, 1716, 1884, 2028, 2028, 2172, 2449, 2641, 2833, 3057, 3382,
      3622, 3782, 4059, 4203, 4904, 4960, 4960, 5016>>,
    <<277, 365, 453, 589, 717, 903, 1031, 1223, 1431, 1572, 1572, 1740,
      2028, 2268, 2545, 2865, 3057, 3057, 3262, 3662, 3915, 4395, 4680,
      5072, 5413, 5861, 6053, 6234, 7327, 7567, 7647, 7708>>,
    <<373, 485, 613, 765, 967, 1175, 1383, 1644, 1884, 2124, 2124, 2353,
      2641, 3057, 3382, 3782, 4107, 4107, 4395, 4904, 5240, 5861, 6234,
      6810, 7327, 7647, 8236, 8505, 10035, 10147, 10259, 10371>>
  >>

\* srslte_ra_get_tb_size_scatter: the bytes the MAC fills and the Tx thread
\* advances by.
TbSize(b, m) == HigherMcs[b][m + 1]

\* srslte_ra_tbs_from_idx_scatter
TbsFromIdx(b, i) == IF i < 27 THEN TbsTable[b][i + 1] ELSE 8 * TbSize(b, i)

\* dl_fill_ra_mcs_scatter, dl_dci_to_grant_mcs_scatter: bits per symbol and
\* bits of the block.
Grant(b, m) ==
  CASE m < 10 -> [qm |-> 2, tbs |-> TbsFromIdx(b, m)]
    [] m \in 10..16 -> [qm |-> 4, tbs |-> TbsFromIdx(b, m - 1)]
    [] m \in 17..28 -> [qm |-> 6, tbs |-> TbsFromIdx(b, m - 2)]
    [] OTHER -> [qm |-> 6, tbs |-> TbsFromIdx(b, m)]

---------------------------------------------------------------------------
(* Resource elements.                                                      *)

\* SRSLTE_CP_NSYMB, SRSLTE_NRE
Nsymb == 7
Nre == 12
NumOfResSch == 72

\* The PRBs, seven when their number is odd, that PSS and SCH lie in.
Centre(p, n) == n >= p \div 2 - 3 /\ n < p \div 2 + 3 + (p % 2)

\* Of an odd number of PRBs, the two that PSS and SCH share with data.
Shared(p, n) == p % 2 = 1 /\ n \in {p \div 2 - 3, p \div 2 + 3}

\* ra_re_x_prb_scatter, less the 4 reference signals.
RePerPrb(sf, slot, n, p) ==
  IF sf = 5 /\ slot = 0 /\ Centre(p, n)
  THEN (Nsymb - 2) * Nre + (IF Shared(p, n) THEN Nre ELSE 0) - 4
  ELSE Nsymb * Nre - 4

\* The loops of srslte_ra_dl_grant_nof_re_scatter over the PRBs, and what it
\* takes away.
SlotRe(p, sf, slot) ==
  LET re[n \in 0 .. p] ==
        IF n = 0 THEN 0 ELSE re[n - 1] + RePerPrb(sf, slot, n - 1, p)
  IN  re[p]

NofRe(p, sf, front) ==
  SlotRe(p, sf, 0) + SlotRe(p, sf, 1)
    - (IF front /\ sf = 5 THEN NumOfResSch ELSE 0)
    - (IF sf = 7 THEN PssLen ELSE 0)

\* Mutant of SyncSymbols: the second SCH is not left out.
SyncSymbolsNoFront(sf, front) ==
  CASE sf = 5 -> {5, 6}
    [] sf = 7 -> {6}
    [] OTHER -> {}

\* The symbols of slot 0 that PSS and SCH take in the centre.
SyncSymbols(sf, front) ==
  CASE sf = 5 -> {5, 6} \cup (IF front THEN {1} ELSE {})
    [] sf = 7 -> {6}
    [] OTHER -> {}

\* Res are <<slot, symbol, PRB, subcarrier>>.
Res(p) == (0..1) \X (0 .. Nsymb - 1) \X (0 .. p - 1) \X (0 .. Nre - 1)

\* Symbols 0 and 4 hold two reference signals in each PRB.
IsReference(r) == r[2] \in {0, 4} /\ r[4] % 6 = IF r[2] = 0 THEN 0 ELSE 3

\* PSS and SCH take the centre, of a shared PRB the inner half.
IsSync(p, sf, front, r) ==
  /\ r[1] = 0 /\ r[2] \in SyncSymbols(sf, front) /\ Centre(p, r[3])
  /\ Shared(p, r[3]) =>
       IF r[3] < p \div 2 THEN r[4] >= Nre \div 2 ELSE r[4] < Nre \div 2

\* The REs srslte_pdsch_cp_scatter copies.
MappedRes(p, sf, front) ==
  {r \in Res(p) : ~IsReference(r) /\ ~IsSync(p, sf, front, r)}

\* What the counting and the copying of REs come to, once for each case.
Cases == {NofPrb[b] : b \in Bws} \X {5, 6, 7} \X BOOLEAN
Counted == [c \in Cases |-> NofRe(c[1], c[2], c[3])]
Mapped == [c \in Cases |-> Cardinality(MappedRes(c[1], c[2], c[3]))]

---------------------------------------------------------------------------
(* Code blocks.                                                            *)

MaxLenCb == 6144

\* tc_cb_sizes
CbSizes ==
  {8 * i : i \in 5..64} \cup {16 * i : i \in 33..64}
    \cup {32 * i : i \in 33..64} \cup {64 * i : i \in 33..96}

CeilDiv(a, b) == (a + b - 1) \div b

\* srslte_cbsegm
Segment(tbs) ==
  LET b  == tbs + 24
      c  == IF b <= MaxLenCb THEN 1 ELSE CeilDiv(b, MaxLenCb - 24)
      bp == IF c = 1 THEN b ELSE b + 24 * c
      k1 == Min({k \in CbSizes : k >= (bp - 1) \div c + 1})
      k2 == IF c = 1 THEN 0 ELSE Max({k \in CbSizes : k < k1})
      c2 == IF c = 1 THEN 0 ELSE (c * k1 - bp) \div (k1 - k2)
  IN  [tbs |-> tbs, C |-> c, C1 |-> c - c2, C2 |-> c2, K1 |-> k1, K2 |-> k2,
       F |-> (c - c2) * k1 + c2 * k2 - bp]

\* srslte_softbuffer_tx_init_scatter, srslte_softbuffer_rx_init_scatter
MaxCb(b) == (8 * TbSize(b, 31)) \div (MaxLenCb - 24) + 1

\* encode_tb_off and decode_tb refuse filler bits and too many code blocks.
Accepted(b, s) == s.F = 0 /\ s.C <= MaxCb(b)

\* A code block: its bits of the transport block with its CRC, and its code
\* bits in the subframe.
Piece(rp, rlen, wp, len) ==
  [data |-> rp, dataEnd |-> rp + rlen, code |-> wp, codeEnd |-> wp + len]

\* encode_tb_off
EncodedPieces(s, qm, re) ==
  LET gamma == re % s.C
      rlen(i) == (IF i < s.C2 THEN s.K2 ELSE s.K1) - (IF s.C > 1 THEN 24 ELSE 0)
      len(i) == qm * (IF i <= s.C - gamma - 1 THEN re \div s.C ELSE CeilDiv(re, s.C))
      rp[i \in 0 .. s.C] == IF i = 0 THEN 0 ELSE rp[i - 1] + rlen(i - 1)
      wp[i \in 0 .. s.C] == IF i = 0 THEN 0 ELSE wp[i - 1] + len(i - 1)
  IN  [i \in 0 .. s.C - 1 |-> Piece(rp[i], rlen(i), wp[i], len(i))]

\* Mutant of DecodedPieces: the longer shares are not passed over.
DecodedPiecesEven(s, qm, re) ==
  LET rlen(i) == (IF i < s.C1 THEN s.K1 ELSE s.K2) - (IF s.C > 1 THEN 24 ELSE 0)
      len == qm * (re \div s.C)
  IN  [i \in 0 .. s.C - 1 |-> Piece(i * rlen(i), rlen(i), i * len, len)]

\* decode_tb_cb: the block C - gamma is taken with the shorter share.
DecodedPieces(s, qm, re) ==
  LET first == s.C - (re % s.C)
      rlen(i) == (IF i < s.C1 THEN s.K1 ELSE s.K2) - (IF s.C > 1 THEN 24 ELSE 0)
      len == qm * (re \div s.C)
      long == len + qm
  IN  [i \in 0 .. s.C - 1 |->
         IF i > first
         THEN Piece(i * rlen(i), rlen(i), first * len + (i - first) * long, long)
         ELSE Piece(i * rlen(i), rlen(i), i * len, len)]

\* A piece the decoder takes is enough of the one the encoder made.
Recovered(d, e) ==
  /\ d.data = e.data /\ d.dataEnd = e.dataEnd
  /\ d.code = e.code /\ d.codeEnd <= e.codeEnd
  /\ d.codeEnd - d.code >= d.dataEnd - d.data

---------------------------------------------------------------------------
(* The two loops.                                                          *)

NoSubframe == [sf |-> 0, mcs |-> 0, re |-> 0, crc |-> 0, refused |-> FALSE]

Init ==
  /\ bw \in Bws /\ mcs \in Mcss
  /\ sch \in BOOLEAN /\ eobPss \in BOOLEAN
  /\ nof \in 1..MaxNof
  /\ pc = "encode"
  /\ cnt = 0
  /\ txSf = InitialSf
  /\ rxSf = 9                            \* srslte_ue_sync_reset
  /\ tx = NoSubframe
  /\ got = 0

\* phy_transmission_change_parameters, and phy_transmission_work for the
\* second subframe: at 1.4 MHz the first has no room for an MCS above 28.
TxMcs(n) ==
  IF bw = OneDotFour /\ mcs > FirstMcsLimit /\ n = 1 THEN FirstMcsLimit ELSE mcs

\* phy_reception_decoding_work
RxMcs ==
  IF bw = OneDotFour /\ mcs > FirstMcsLimit /\ rxSf' = InitialSf
  THEN FirstMcsLimit
  ELSE mcs

\* srslte_pdsch_cfg_scatter, srslte_pdsch_encode_seq_scatter: the block, whose
\* CRC may be any value, 0 included, is encoded for the REs counted.  Then the
\* index of the next subframe.
Encode ==
  /\ pc = "encode" /\ cnt < nof
  /\ cnt' = cnt + 1
  /\ LET m == TxMcs(cnt')
         re == Counted[<<NofPrb[bw], txSf, sch>>]
         ok == Accepted(bw, Segment(Grant(bw, m).tbs))
     IN  /\ \E crc \in {0, 1} :
              tx' = [sf |-> txSf, mcs |-> m, re |-> re, crc |-> crc, refused |-> ~ok]
         /\ pc' = IF ok THEN "decode" ELSE "end"
  /\ txSf' = IF eobPss /\ cnt' = nof - 1 THEN InitialSf + 2 ELSE InitialSf + 1
  /\ got' = 0
  /\ UNCHANGED <<burst, rxSf>>

\* Mutant of RxSubframe: the subframe found is counted as tracked.
RxSubframeCountsFirst == IF cnt = 1 THEN InitialSf + 1 ELSE rxSf

\* find_peak_ok, srslte_ue_synchronize: only the first subframe tracked gets a
\* new index.
RxSubframe ==
  CASE cnt = 1 -> InitialSf
    [] cnt = 2 -> rxSf + 1
    [] OTHER -> rxSf

\* The symbols and the pieces found when the subframe has index sf, MCS m.
Found(sf, m) ==
  LET re == Counted[<<NofPrb[bw], sf, sch>>]
      g  == Grant(bw, m)
      s  == Segment(g.tbs)
      e  == EncodedPieces(Segment(Grant(bw, tx.mcs).tbs), Grant(bw, tx.mcs).qm, tx.re)
      d  == DecodedPieces(s, g.qm, re)
  IN  /\ Mapped[<<NofPrb[bw], sf, sch>>] = re    \* else "Error extracting symbols"
      /\ sf = tx.sf                              \* pilots and scrambling
      /\ Accepted(bw, s)
      /\ DOMAIN d = DOMAIN e
      /\ \A i \in DOMAIN d : Recovered(d[i], e[i])

\* srslte_ue_dl_decode_rnti_scatter, srslte_pdsch_decode_rnti_scatter,
\* decode_tb: a block whose CRC is 0 is refused.
Decode ==
  /\ pc = "decode"
  /\ rxSf' = RxSubframe
  /\ got' = IF Found(rxSf', RxMcs) /\ tx.crc # 0 THEN Grant(bw, RxMcs).tbs ELSE 0
  /\ pc' = IF cnt < nof THEN "encode" ELSE "end"
  /\ UNCHANGED <<burst, cnt, txSf, tx>>

Next == Encode \/ Decode

Spec == Init /\ [][Next]_vars

---------------------------------------------------------------------------
(* Properties.                                                             *)

TypeOK ==
  /\ bw \in Bws /\ mcs \in Mcss /\ sch \in BOOLEAN /\ eobPss \in BOOLEAN
  /\ nof \in 1..MaxNof /\ cnt \in 0..nof
  /\ pc \in {"encode", "decode", "end"}
  /\ txSf \in {5, 6, 7} /\ rxSf \in (IF cnt <= 1 THEN {5, 9} ELSE {5, 6})
  /\ tx.re \in 0 .. 2 * Nsymb * Nre * NofPrb[bw]
  /\ got \in Nat

Decoded == cnt > 0 /\ pc # "decode"

(***************************************************************************)
(* Whatever the bandwidth, the MCS, the second SCH and the place in the    *)
(* burst, a subframe that does not carry the PSS of the end of the burst   *)
(* and whose block does not have the CRC 0 is decoded, and to exactly the  *)
(* bytes the MAC put there: two size tables, two counts of REs and two     *)
(* rules for the first MCS, each written twice, agree.                     *)
(***************************************************************************)
Delivered ==
  Decoded /\ tx.sf # 7 /\ tx.crc # 0 => got = 8 * TbSize(bw, TxMcs(cnt))

(***************************************************************************)
(* The code blocks encode_tb_off cuts are whole bytes, cover the block and *)
(* its CRC without gap or overlap, and their code bits fill the REs        *)
(* counted, those of the subframe at the end of the burst too.             *)
(***************************************************************************)
PiecesTile ==
  pc = "decode" =>
    LET g == Grant(bw, tx.mcs)
        s == Segment(g.tbs)
        e == EncodedPieces(s, g.qm, tx.re)
    IN  /\ e[0].data = 0 /\ e[0].code = 0
        /\ e[s.C - 1].dataEnd = g.tbs + 24 /\ e[s.C - 1].codeEnd = g.qm * tx.re
        /\ \A i \in 0 .. s.C - 1 : e[i].data % 8 = 0
        /\ \A i \in 1 .. s.C - 1 :
             e[i].data = e[i - 1].dataEnd /\ e[i].code = e[i - 1].codeEnd

(***************************************************************************)
(* decode_tb_cb looks for each code block where encode_tb_off put it,      *)
(* though it takes the shares of the blocks by another rule: of one block  *)
(* at most it leaves out code bits, those of one RE.                       *)
(***************************************************************************)
PiecesFound ==
  pc = "decode" =>
    LET g == Grant(bw, tx.mcs)
        s == Segment(g.tbs)
        e == EncodedPieces(s, g.qm, tx.re)
        d == DecodedPieces(s, g.qm, tx.re)
        short == {i \in 0 .. s.C - 1 : d[i] # e[i]}
    IN  /\ Cardinality(short) <= 1
        /\ \A i \in short : d[i] = [e[i] EXCEPT !.codeEnd = @ - g.qm]

(***************************************************************************)
(* Both sides cut a block alike, and cut all of it.                        *)
(***************************************************************************)
PiecesMatch == PiecesTile /\ PiecesFound

(***************************************************************************)
(* "all the subsequente ones will have the same subframe number"           *)
(* (ue_sync.c:1060): after the first, a subframe is decoded with the index *)
(* it was encoded with.                                                    *)
(***************************************************************************)
SameSubframeNumber == Decoded /\ ~tx.refused => rxSf = tx.sf
=============================================================================

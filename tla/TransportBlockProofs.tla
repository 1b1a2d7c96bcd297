------------------------ MODULE TransportBlockProofs ------------------------
(***************************************************************************)
(* Proofs about TransportBlock: for any bandwidths and MCS of the tables,  *)
(* any length of a burst and of the PSS at its end.  The lemmas on the     *)
(* functions of ra.c, pdsch.c, cbsegm.c and sch.c hold for more than the   *)
(* tables: any number of PRBs, any size of a transport block.              *)
(***************************************************************************)
EXTENDS TransportBlock, FiniteSetTheorems, TLAPS

---------------------------------------------------------------------------
(* Sums over a loop.                                                       *)

\* A set of natural numbers that is not empty has a least element: the form of
\* induction used below.
LEMMA Least ==
  ASSUME NEW S \in SUBSET Nat, S # {}
  PROVE  \E x \in S : \A y \in S : x <= y
<1> DEFINE R == {ss \in Nat \X Nat : ss[1] < ss[2]}
<1>1. IsWellFoundedOn(R, Nat)
  BY NatLessThanWellFounded, Zenon DEF OpToRel
<1> HIDE DEF R
<1>2. PICK x \in S : \A y \in S : ~ (<<y, x>> \in R)
  BY <1>1, WFMin, Zenon
<1>3. \A y \in S : ~ (y < x)
  BY <1>2, Zenon DEF R
<1> QED BY <1>3

\* A loop that adds to f what separates the values of c computes c.
LEMMA SumIs ==
  ASSUME NEW n \in Nat, NEW c \in [0 .. n -> Int], c[0] = 0,
         NEW f, f[0] = 0, \A i \in 1 .. n : f[i] = f[i - 1] + (c[i] - c[i - 1])
  PROVE  \A i \in 0 .. n : f[i] = c[i]
<1> DEFINE S == {i \in 0 .. n : f[i] # c[i]}
<1>1. SUFFICES ASSUME S # {} PROVE FALSE
  BY Zenon
<1>2. PICK x \in S : \A y \in S : x <= y
  <2>1. S \in SUBSET Nat
    OBVIOUS
  <2> HIDE DEF S
  <2> QED BY <1>1, <2>1, Least, Zenon
<1>3. x \in 1 .. n /\ x - 1 \in 0 .. n
  BY <1>2
<1>4. x - 1 \notin S
  BY <1>2, <1>3
<1>5. f[x - 1] = c[x - 1]
  BY <1>3, <1>4
<1>6. c[x] \in Int /\ c[x - 1] \in Int
  BY <1>3
<1> QED BY <1>2, <1>3, <1>5, <1>6

---------------------------------------------------------------------------
(* Counting.                                                               *)

\* The n numbers below n.
LEMMA Upto ==
  ASSUME NEW n \in Nat
  PROVE  IsFiniteSet(0 .. n - 1) /\ Cardinality(0 .. n - 1) = n
<1>1. 0 \in Int /\ n - 1 \in Int
  OBVIOUS
<1>2. /\ IsFiniteSet(0 .. n - 1)
      /\ Cardinality(0 .. n - 1) = IF 0 > n - 1 THEN 0 ELSE n - 1 - 0 + 1
  BY <1>1, FS_Interval, Zenon
<1> QED BY <1>2

\* Sizes of the intervals used below.
LEMMA SmallCounts ==
  /\ IsFiniteSet(0 .. 1) /\ Cardinality(0 .. 1) = 2
  /\ IsFiniteSet(0 .. 6) /\ Cardinality(0 .. 6) = 7
  /\ IsFiniteSet(0 .. 11) /\ Cardinality(0 .. 11) = 12
  /\ IsFiniteSet(0 .. 71) /\ Cardinality(0 .. 71) = 72
<1>1. /\ 2 - 1 = 1 /\ 7 - 1 = 6 /\ 12 - 1 = 11 /\ 72 - 1 = 71
      /\ 2 \in Nat /\ 7 \in Nat /\ 12 \in Nat /\ 72 \in Nat
  OBVIOUS
<1>2. /\ IsFiniteSet(0 .. 2 - 1) /\ Cardinality(0 .. 2 - 1) = 2
      /\ IsFiniteSet(0 .. 7 - 1) /\ Cardinality(0 .. 7 - 1) = 7
      /\ IsFiniteSet(0 .. 12 - 1) /\ Cardinality(0 .. 12 - 1) = 12
      /\ IsFiniteSet(0 .. 72 - 1) /\ Cardinality(0 .. 72 - 1) = 72
  BY <1>1, Upto, Zenon
<1> QED BY <1>1, <1>2, Zenon

\* A set is counted by one that its elements are in one-to-one correspondence with.
LEMMA CountBy ==
  ASSUME NEW S, NEW T, IsFiniteSet(S), NEW f \in [S -> T],
         \A x, y \in S : f[x] = f[y] => x = y, \A z \in T : \E x \in S : f[x] = z
  PROVE  IsFiniteSet(T) /\ Cardinality(T) = Cardinality(S)
<1>1. f \in Injection(S, T)
  BY DEF Injection, IsInjective
<1>2. f \in Surjection(S, T)
  BY DEF Surjection
<1>3. ExistsBijection(S, T)
  BY <1>1, <1>2 DEF ExistsBijection, Bijection
<1> QED BY <1>3, FS_Bijection, Zenon

\* Two sets without a common element.
LEMMA UnionCount ==
  ASSUME NEW S, NEW T, IsFiniteSet(S), IsFiniteSet(T), S \cap T = {},
         NEW m \in Nat, NEW n \in Nat, Cardinality(S) = m, Cardinality(T) = n
  PROVE  IsFiniteSet(S \cup T) /\ Cardinality(S \cup T) = m + n
<1>1. /\ IsFiniteSet(S \cup T)
      /\ Cardinality(S \cup T) = Cardinality(S) + Cardinality(T) - Cardinality(S \cap T)
  BY FS_Union, Zenon
<1>2. Cardinality(S \cap T) = 0
  BY FS_EmptySet, Zenon
<1> QED BY <1>1, <1>2

\* What is left of a set without a part of it.
LEMMA RestCount ==
  ASSUME NEW S, NEW T, IsFiniteSet(S), T \subseteq S
  PROVE  Cardinality(S \ T) = Cardinality(S) - Cardinality(T)
<1>1. Cardinality(S \ T) = Cardinality(S) - Cardinality(S \cap T)
  BY FS_Difference, Zenon
<1>2. S \cap T = T
  OBVIOUS
<1> QED BY <1>1, <1>2

---------------------------------------------------------------------------
(* The number of resource elements.                                        *)

\* What PSS and SCH take of the first n PRBs: 24 REs of a PRB in the centre, 12
\* of a shared one.
Taken(p, n) ==
  LET h == p \div 2 - 3
  IN  IF n <= h THEN 0
      ELSE IF p % 2 = 0
      THEN IF n <= h + 6 THEN 24 * (n - h) ELSE 144
      ELSE IF n <= h + 6 THEN 24 * (n - h) - 12 ELSE 144

\* One PRB more.
LEMMA TakenStep ==
  ASSUME NEW p \in Nat, p >= 7, NEW sf \in {5, 6, 7}, NEW slot \in 0 .. 1,
         NEW n \in 0 .. p - 1
  PROVE  RePerPrb(sf, slot, n, p) =
           80 - (IF sf = 5 /\ slot = 0 THEN Taken(p, n + 1) - Taken(p, n) ELSE 0)
BY DEF RePerPrb, Taken, Centre, Shared, Nsymb, Nre

\* The REs of a slot, for every number of PRBs.
LEMMA SlotRes ==
  ASSUME NEW p \in Nat, p >= 7, NEW sf \in {5, 6, 7}, NEW slot \in 0 .. 1
  PROVE  SlotRe(p, sf, slot) = 80 * p - (IF sf = 5 /\ slot = 0 THEN 144 ELSE 0)
<1> DEFINE c == [n \in 0 .. p |-> 80 * n - (IF sf = 5 /\ slot = 0 THEN Taken(p, n) ELSE 0)]
           Loop(g) == [n \in 0 .. p |->
                         IF n = 0 THEN 0 ELSE g[n - 1] + RePerPrb(sf, slot, n - 1, p)]
           re == CHOOSE g : g = Loop(g)
<1>1. \A n \in 0 .. p : Taken(p, n) \in Int
  BY DEF Taken
<1>2. c \in [0 .. p -> Int] /\ c[0] = 0
  <2>1. Taken(p, 0) = 0
    BY DEF Taken
  <2>2. \A n \in 0 .. p :
          80 * n - (IF sf = 5 /\ slot = 0 THEN Taken(p, n) ELSE 0) \in Int
    BY <1>1
  <2> HIDE DEF Taken
  <2> QED BY <2>1, <2>2
<1>3. \A n \in 1 .. p : RePerPrb(sf, slot, n - 1, p) = c[n] - c[n - 1]
  <2> SUFFICES ASSUME NEW n \in 1 .. p
               PROVE  RePerPrb(sf, slot, n - 1, p) = c[n] - c[n - 1]
    BY Zenon
  <2>1. n - 1 \in 0 .. p - 1 /\ n - 1 + 1 = n
    OBVIOUS
  <2>2. Taken(p, n) \in Int /\ Taken(p, n - 1) \in Int
    BY <1>1, <2>1
  <2>3. RePerPrb(sf, slot, n - 1, p) =
          80 - (IF sf = 5 /\ slot = 0 THEN Taken(p, n) - Taken(p, n - 1) ELSE 0)
    BY <2>1, TakenStep
  <2> HIDE DEF Taken
  <2> QED BY <2>1, <2>2, <2>3
<1>4. c = Loop(c)
  <2>1. c = [n \in 0 .. p |-> c[n]]
    BY <1>2
  <2> HIDE DEF c
  <2>2. \A n \in 1 .. p : c[n] = c[n - 1] + RePerPrb(sf, slot, n - 1, p)
    <3> SUFFICES ASSUME NEW n \in 1 .. p
                 PROVE  c[n] = c[n - 1] + RePerPrb(sf, slot, n - 1, p)
      OBVIOUS
    <3>1. c[n] \in Int /\ c[n - 1] \in Int
      BY <1>2
    <3> QED BY <1>3, <3>1
  <2>3. \A n \in 0 .. p :
          c[n] = IF n = 0 THEN 0 ELSE c[n - 1] + RePerPrb(sf, slot, n - 1, p)
    BY <1>2, <2>2
  <2> QED BY <2>1, <2>3, Zenon
<1> HIDE DEF c
<1>5. re = Loop(re)
  BY <1>4, Zenon
<1> HIDE DEF re
<1>6. re[0] = 0 /\ \A n \in 1 .. p : re[n] = re[n - 1] + (c[n] - c[n - 1])
  BY <1>3, <1>5
<1> HIDE DEF Loop
<1>7. re[p] = c[p]
  <2>1. \A n \in 0 .. p : re[n] = c[n]
    BY <1>2, <1>6, SumIs, Zenon
  <2> QED BY <2>1
<1>8. SlotRe(p, sf, slot) = re[p]
  BY DEF SlotRe, re, Loop
<1> QED BY <1>7, <1>8 DEF c, Taken

\* The REs that PSS, SCH and the second SCH take.
SyncRes(sf, front) ==
  IF sf = 5 THEN 144 + (IF front THEN 72 ELSE 0) ELSE 0

\* srslte_ra_dl_grant_nof_re_scatter, for every number of PRBs.
LEMMA NofRes ==
  ASSUME NEW p \in Nat, p >= 7, NEW sf \in {5, 6, 7}, NEW front \in BOOLEAN
  PROVE  NofRe(p, sf, front) =
           160 * p - SyncRes(sf, front) - (IF sf = 7 THEN PssLen ELSE 0)
<1>1. PssLen \in Nat
  BY TransportBlockAssumption
<1>2. /\ SlotRe(p, sf, 0) = 80 * p - (IF sf = 5 THEN 144 ELSE 0)
      /\ SlotRe(p, sf, 1) = 80 * p
  <2>1. 0 \in 0 .. 1 /\ 1 \in 0 .. 1
    OBVIOUS
  <2>2. SlotRe(p, sf, 0) = 80 * p - (IF sf = 5 /\ 0 = 0 THEN 144 ELSE 0)
    BY <2>1, SlotRes, ZenonT(40)
  <2>3. SlotRe(p, sf, 1) = 80 * p - (IF sf = 5 /\ 1 = 0 THEN 144 ELSE 0)
    BY <2>1, SlotRes, ZenonT(40)
  <2> QED BY <2>2, <2>3
<1> QED BY <1>1, <1>2 DEF NofRe, SyncRes, NumOfResSch

\* The REs of a subframe.
LEMMA ResCount ==
  ASSUME NEW p \in Nat
  PROVE  IsFiniteSet(Res(p)) /\ Cardinality(Res(p)) = 168 * p
<1> DEFINE A == (0..1) \X (0..6)
           B == (0 .. p - 1) \X (0..11)
           f == [x \in A \X B |-> <<x[1][1], x[1][2], x[2][1], x[2][2]>>]
<1>1. IsFiniteSet(A) /\ Cardinality(A) = 14
  <2>1. /\ IsFiniteSet(A)
        /\ Cardinality(A) = Cardinality(0 .. 1) * Cardinality(0 .. 6)
    BY SmallCounts, FS_Product, ZenonT(40)
  <2> QED BY <2>1, SmallCounts
<1>2. IsFiniteSet(B) /\ Cardinality(B) = 12 * p
  <2>1. /\ IsFiniteSet(B)
        /\ Cardinality(B) = Cardinality(0 .. p - 1) * Cardinality(0 .. 11)
    BY Upto, SmallCounts, FS_Product, ZenonT(40)
  <2>2. Cardinality(0 .. p - 1) = p
    BY Upto
  <2> HIDE DEF B
  <2> QED BY <2>1, <2>2, SmallCounts
<1>3. IsFiniteSet(A \X B) /\ Cardinality(A \X B) = 168 * p
  <2> HIDE DEF A, B
  <2>1. IsFiniteSet(A \X B) /\ Cardinality(A \X B) = Cardinality(A) * Cardinality(B)
    BY <1>1, <1>2, FS_Product, Zenon
  <2> QED BY <1>1, <1>2, <2>1
<1>4. Cardinality(Res(p)) = Cardinality(A \X B) /\ IsFiniteSet(Res(p))
  <2>1. f \in [A \X B -> Res(p)]
    BY DEF Res, Nsymb, Nre
  <2>2. \A x, y \in A \X B : f[x] = f[y] => x = y
    OBVIOUS
  <2>3. \A r \in Res(p) : \E x \in A \X B : f[x] = r
    <3> SUFFICES ASSUME NEW r \in Res(p) PROVE \E x \in A \X B : f[x] = r
      BY Zenon
    <3>1. <<<<r[1], r[2]>>, <<r[3], r[4]>>>> \in A \X B
      BY DEF Res, Nsymb, Nre
    <3>2. f[<<<<r[1], r[2]>>, <<r[3], r[4]>>>>] = r
      BY <3>1 DEF Res
    <3> QED BY <3>1, <3>2
  <2> HIDE DEF f, A, B
  <2> QED BY <1>3, <2>1, <2>2, <2>3, CountBy
<1> QED BY <1>3, <1>4

\* The reference signals of a subframe.
References(p) == {r \in Res(p) : IsReference(r)}

\* Eight in each PRB.
LEMMA ReferenceCount ==
  ASSUME NEW p \in Nat
  PROVE  IsFiniteSet(References(p)) /\ Cardinality(References(p)) = 8 * p
<1> DEFINE A == (0..1) \X (0..1)
           B == (0 .. p - 1) \X (0..1)
           f == [x \in A \X B |->
                   <<x[1][1], 4 * x[1][2], x[2][1], 6 * x[2][2] + 3 * x[1][2]>>]
<1>1. IsFiniteSet(A) /\ Cardinality(A) = 4
  <2>1. /\ IsFiniteSet(A)
        /\ Cardinality(A) = Cardinality(0 .. 1) * Cardinality(0 .. 1)
    BY SmallCounts, FS_Product, ZenonT(40)
  <2> QED BY <2>1, SmallCounts
<1>2. IsFiniteSet(B) /\ Cardinality(B) = 2 * p
  <2>1. /\ IsFiniteSet(B)
        /\ Cardinality(B) = Cardinality(0 .. p - 1) * Cardinality(0 .. 1)
    BY Upto, SmallCounts, FS_Product, ZenonT(40)
  <2>2. Cardinality(0 .. p - 1) = p
    BY Upto
  <2> HIDE DEF B
  <2> QED BY <2>1, <2>2, SmallCounts
<1>3. IsFiniteSet(A \X B) /\ Cardinality(A \X B) = 8 * p
  <2> HIDE DEF A, B
  <2>1. IsFiniteSet(A \X B) /\ Cardinality(A \X B) = Cardinality(A) * Cardinality(B)
    BY <1>1, <1>2, FS_Product, Zenon
  <2> QED BY <1>1, <1>2, <2>1
<1>4. Cardinality(References(p)) = Cardinality(A \X B) /\ IsFiniteSet(References(p))
  <2>1. f \in [A \X B -> References(p)]
    BY DEF References, IsReference, Res, Nsymb, Nre
  <2>2. \A x, y \in A \X B : f[x] = f[y] => x = y
    OBVIOUS
  <2>3. \A r \in References(p) : \E x \in A \X B : f[x] = r
    <3> SUFFICES ASSUME NEW r \in References(p) PROVE \E x \in A \X B : f[x] = r
      BY Zenon
    <3> DEFINE a == IF r[2] = 0 THEN 0 ELSE 1
               j == IF r[4] < 6 THEN 0 ELSE 1
               x == <<<<r[1], a>>, <<r[3], j>>>>
    <3>1. x \in A \X B
      BY DEF References, Res, Nsymb, Nre
    <3>2. r[2] = 4 * a /\ r[4] = 6 * j + 3 * a
      BY DEF References, Res, IsReference, Nsymb, Nre
    <3>3. f[x] = r
      BY <3>1, <3>2 DEF References, Res
    <3> QED BY <3>1, <3>3
  <2> HIDE DEF f, A, B
  <2> QED BY <1>3, <2>1, <2>2, <2>3, CountBy
<1> QED BY <1>3, <1>4

\* PSS and SCH take 72 subcarriers in the middle of the band, also of an odd
\* number of PRBs.
SyncSet(p, sf, front) == {r \in Res(p) : IsSync(p, sf, front, r)}

\* In numbers: a PRB is in the centre, its subcarrier in the middle.
LEMMA InMiddle ==
  ASSUME NEW p \in Nat, p >= 7, NEW n \in 0 .. p - 1, NEW k \in 0 .. 11
  PROVE  (Centre(p, n) /\ (Shared(p, n) => IF n < p \div 2 THEN k >= 6 ELSE k < 6))
           <=> (6 * p - 36 <= 12 * n + k /\ 12 * n + k < 6 * p + 36)
BY DEF Centre, Shared

\* A symbol of the centre is 72 REs.
LEMMA SyncSymbolCount ==
  ASSUME NEW sf \in {5, 6}, NEW front \in BOOLEAN
  PROVE  /\ IsFiniteSet(SyncSymbols(sf, front))
         /\ 72 * Cardinality(SyncSymbols(sf, front)) = SyncRes(sf, front)
<1>1. IsFiniteSet({}) /\ Cardinality({}) = 0
  BY FS_EmptySet
<1>2. IsFiniteSet({5}) /\ Cardinality({5}) = 1
  BY FS_Singleton
<1>3. IsFiniteSet({5} \cup {6}) /\ Cardinality({5} \cup {6}) = 2
  BY <1>2, FS_AddElement
<1>4. {5} \cup {6} = {5, 6}
  OBVIOUS
<1>5. IsFiniteSet({5, 6} \cup {1}) /\ Cardinality({5, 6} \cup {1}) = 3
  BY <1>3, <1>4, FS_AddElement
<1>6. SyncSymbols(sf, front) =
        IF sf = 6 THEN {} ELSE IF front THEN {5, 6} \cup {1} ELSE {5, 6}
  BY DEF SyncSymbols
<1> QED BY <1>1, <1>3, <1>4, <1>5, <1>6 DEF SyncRes

\* PSS and SCH take what the count leaves out.
LEMMA SyncCount ==
  ASSUME NEW p \in Nat, p >= 7, NEW sf \in {5, 6}, NEW front \in BOOLEAN
  PROVE  /\ IsFiniteSet(SyncSet(p, sf, front))
         /\ Cardinality(SyncSet(p, sf, front)) = SyncRes(sf, front)
<1> DEFINE A == SyncSymbols(sf, front)
           B == 0 .. 71
           f == [x \in A \X B |->
                   <<0, x[1], (6 * p - 36 + x[2]) \div 12, (6 * p - 36 + x[2]) % 12>>]
<1>1. IsFiniteSet(A \X B) /\ Cardinality(A \X B) = SyncRes(sf, front)
  <2>1. IsFiniteSet(A) /\ 72 * Cardinality(A) = SyncRes(sf, front)
    BY SyncSymbolCount
  <2> HIDE DEF A
  <2>2. IsFiniteSet(A \X B) /\ Cardinality(A \X B) = Cardinality(A) * Cardinality(B)
    BY <2>1, SmallCounts, FS_Product, ZenonT(40)
  <2>3. Cardinality(A) \in Nat
    BY <2>1, FS_CardinalityType
  <2> QED BY <2>1, <2>2, <2>3, SmallCounts
<1>2. A \subseteq 0 .. 6
  BY DEF SyncSymbols
<1> HIDE DEF A
<1>3. \A y \in Int : /\ y \div 12 \in Int /\ y % 12 \in 0 .. 11
                     /\ y = 12 * (y \div 12) + (y % 12)
  OBVIOUS
<1>4. Cardinality(SyncSet(p, sf, front)) = Cardinality(A \X B) /\ IsFiniteSet(SyncSet(p, sf, front))
  <2>1. f \in [A \X B -> SyncSet(p, sf, front)]
    <3> SUFFICES ASSUME NEW l \in A, NEW j \in B
                 PROVE  f[<<l, j>>] \in SyncSet(p, sf, front)
      BY Zenon
    <3>1. f[<<l, j>>] = <<0, l, (6 * p - 36 + j) \div 12, (6 * p - 36 + j) % 12>>
      OBVIOUS
    <3>2. PICK y \in Int : y = 6 * p - 36 + j
      OBVIOUS
    <3>3. PICK n \in Int, k \in 0 .. 11 : n = y \div 12 /\ k = y % 12 /\ y = 12 * n + k
      BY <1>3
    <3>4. n \in 0 .. p - 1 /\ 6 * p - 36 <= 12 * n + k /\ 12 * n + k < 6 * p + 36
      BY <3>2, <3>3
    <3> HIDE DEF f
    <3>5. f[<<l, j>>] = <<0, l, n, k>>
      BY <3>1, <3>2, <3>3
    <3>6. <<0, l, n, k>> \in Res(p)
      BY <1>2, <3>4 DEF Res, Nsymb, Nre
    <3>7. IsSync(p, sf, front, <<0, l, n, k>>)
      BY <3>4, InMiddle DEF IsSync, Nre, A
    <3> QED BY <3>5, <3>6, <3>7 DEF SyncSet
  <2>2. \A x, y \in A \X B : f[x] = f[y] => x = y
    <3> SUFFICES ASSUME NEW l \in A, NEW j \in B, NEW m \in A, NEW i \in B,
                        f[<<l, j>>] = f[<<m, i>>]
                 PROVE  l = m /\ j = i
      <4> HIDE DEF f, B
      <4> QED OBVIOUS
    <3>1. PICK y \in Int, z \in Int : y = 6 * p - 36 + j /\ z = 6 * p - 36 + i
      OBVIOUS
    <3>2. l = m /\ y \div 12 = z \div 12 /\ y % 12 = z % 12
      BY <3>1
    <3>3. y = z
      BY <1>3, <3>2
    <3> QED BY <3>1, <3>2, <3>3
  <2>3. \A r \in SyncSet(p, sf, front) : \E x \in A \X B : f[x] = r
    <3> SUFFICES ASSUME NEW r \in SyncSet(p, sf, front) PROVE \E x \in A \X B : f[x] = r
      BY Zenon
    <3> DEFINE y == 12 * r[3] + r[4]
               x == <<r[2], y - (6 * p - 36)>>
    <3>1. /\ r = <<0, r[2], r[3], r[4]>> /\ r[2] \in A
          /\ r[3] \in 0 .. p - 1 /\ r[4] \in 0 .. 11
      BY DEF SyncSet, IsSync, Res, Nsymb, Nre, A
    <3>2. 6 * p - 36 <= y /\ y < 6 * p + 36
      BY <3>1, InMiddle DEF SyncSet, IsSync, Nre
    <3>3. x \in A \X B
      BY <3>1, <3>2
    <3>4. y \div 12 = r[3] /\ y % 12 = r[4]
      BY <3>1
    <3>5. f[x] = r
      BY <3>1, <3>3, <3>4
    <3> QED BY <3>3, <3>5
  <2> HIDE DEF f, B
  <2> QED BY <1>1, <2>1, <2>2, <2>3, CountBy
<1> QED BY <1>1, <1>4

\* srslte_pdsch_cp_scatter copies what srslte_ra_dl_grant_nof_re_scatter counts,
\* for every number of PRBs, except in the subframe of the PSS at the end.
THEOREM CopiedAsCounted ==
  ASSUME NEW p \in Nat, p >= 7, NEW sf \in {5, 6}, NEW front \in BOOLEAN
  PROVE  Cardinality(MappedRes(p, sf, front)) = NofRe(p, sf, front)
<1> DEFINE R == References(p)
           Y == SyncSet(p, sf, front)
<1>1. IsFiniteSet(Res(p)) /\ Cardinality(Res(p)) = 168 * p
  BY ResCount
<1>2. IsFiniteSet(R) /\ Cardinality(R) = 8 * p
  BY ReferenceCount
<1>3. IsFiniteSet(Y) /\ Cardinality(Y) = SyncRes(sf, front)
  BY SyncCount
<1>4. R \cap Y = {} /\ R \cup Y \subseteq Res(p)
  BY DEF References, SyncSet, IsReference, IsSync, SyncSymbols
<1>5. MappedRes(p, sf, front) = Res(p) \ (R \cup Y)
  BY DEF MappedRes, References, SyncSet
<1> HIDE DEF R, Y
<1>6. SyncRes(sf, front) \in Nat
  BY DEF SyncRes
<1>7. IsFiniteSet(R \cup Y) /\ Cardinality(R \cup Y) = 8 * p + SyncRes(sf, front)
  BY <1>2, <1>3, <1>4, <1>6, UnionCount
<1>8. Cardinality(MappedRes(p, sf, front)) = 168 * p - (8 * p + SyncRes(sf, front))
  BY <1>1, <1>4, <1>5, <1>7, RestCount
<1>9. NofRe(p, sf, front) = 160 * p - SyncRes(sf, front)
  BY NofRes, <1>6
<1> QED BY <1>6, <1>8, <1>9
---------------------------------------------------------------------------
(* The cutting of a block into code blocks.                                *)

\* Division by a number that is not fixed.
LEMMA Division ==
  ASSUME NEW a \in Nat, NEW c \in Nat, c > 0
  PROVE  /\ a \div c \in Nat /\ a % c \in 0 .. c - 1
         /\ a = c * (a \div c) + (a % c)
OBVIOUS

\* A quotient by its bounds.
LEMMA DivisionIs ==
  ASSUME NEW a \in Nat, NEW c \in Nat, c > 0, NEW t \in Nat,
         c * t <= a, a < c * t + c
  PROVE  a \div c = t
<1>1. PICK q \in Nat, r \in 0 .. c - 1 : q = a \div c /\ a = c * q + r
  BY Division
<1>2. c * (t - q) < c /\ c * (q - t) < c
  BY <1>1
<1>3. ~ (t - q >= 1) /\ ~ (q - t >= 1)
  BY <1>2
<1> QED BY <1>1, <1>3

\* Division rounded up.
LEMMA CeilIs ==
  ASSUME NEW a \in Nat, NEW c \in Nat, c > 0
  PROVE  CeilDiv(a, c) = a \div c + (IF a % c = 0 THEN 0 ELSE 1)
<1>1. PICK q \in Nat, r \in 0 .. c - 1 : q = a \div c /\ r = a % c /\ a = c * q + r
  BY Division
<1>2. CASE r = 0
  <2>1. c * q <= a + c - 1 /\ a + c - 1 < c * q + c
    BY <1>1, <1>2
  <2> QED BY <1>1, <1>2, <2>1, DivisionIs DEF CeilDiv
<1>3. CASE r # 0
  <2>1. c * (q + 1) <= a + c - 1 /\ a + c - 1 < c * (q + 1) + c
    BY <1>1, <1>3
  <2>2. (a + c - 1) \div c = q + 1
    BY <2>1, DivisionIs
  <2> QED BY <1>1, <1>3, <2>2 DEF CeilDiv
<1> QED BY <1>1, <1>2, <1>3

\* Min and Max of the community modules choose what they should.
LEMMA MinIs ==
  ASSUME NEW S \in SUBSET Nat, S # {}
  PROVE  Min(S) \in S /\ \A y \in S : Min(S) <= y
BY Least, Zenon DEF Min

\* The same for a set with a bound.
LEMMA MaxIs ==
  ASSUME NEW S \in SUBSET Nat, S # {}, NEW n \in Nat, \A y \in S : y <= n
  PROVE  Max(S) \in S /\ \A y \in S : y <= Max(S)
<1> DEFINE T == {n - y : y \in S}
<1>1. T \in SUBSET Nat /\ T # {}
  <2>1. \A y \in S : n - y \in Nat
    OBVIOUS
  <2> QED BY <2>1, Zenon
<1>2. PICK x \in T : \A y \in T : x <= y
  <2> HIDE DEF T
  <2> QED BY <1>1, Least
<1>3. PICK m \in S : x = n - m
  BY <1>2
<1>4. \A y \in S : m >= y
  BY <1>2, <1>3
<1> QED BY <1>3, <1>4, Zenon DEF Max

\* The table of code block sizes: the grid is coarser the larger the size.
LEMMA CbSizeIs ==
  ASSUME NEW k \in Nat
  PROVE  k \in CbSizes <=> \/ k \in 40 .. 512 /\ k % 8 = 0
                           \/ k \in 512 .. 1024 /\ k % 16 = 0
                           \/ k \in 1024 .. 2048 /\ k % 32 = 0
                           \/ k \in 2048 .. 6144 /\ k % 64 = 0
<1>1. (\E i \in 5 .. 64 : k = 8 * i) <=> k \in 40 .. 512 /\ k % 8 = 0
  <2>1. k = 8 * (k \div 8) + (k % 8)
    OBVIOUS
  <2>2. CASE k \in 40 .. 512 /\ k % 8 = 0
    <3>1. k \div 8 \in 5 .. 64 /\ k = 8 * (k \div 8)
      BY <2>1, <2>2
    <3> QED BY <2>2, <3>1
  <2>3. CASE \E i \in 5 .. 64 : k = 8 * i
    BY <2>3
  <2> QED BY <2>2, <2>3
<1>2. (\E i \in 33 .. 64 : k = 16 * i) <=> k \in 528 .. 1024 /\ k % 16 = 0
  <2>1. k = 16 * (k \div 16) + (k % 16)
    OBVIOUS
  <2>2. CASE k \in 528 .. 1024 /\ k % 16 = 0
    <3>1. k \div 16 \in 33 .. 64 /\ k = 16 * (k \div 16)
      BY <2>1, <2>2
    <3> QED BY <2>2, <3>1
  <2>3. CASE \E i \in 33 .. 64 : k = 16 * i
    BY <2>3
  <2> QED BY <2>2, <2>3
<1>3. (\E i \in 33 .. 64 : k = 32 * i) <=> k \in 1056 .. 2048 /\ k % 32 = 0
  <2>1. k = 32 * (k \div 32) + (k % 32)
    OBVIOUS
  <2>2. CASE k \in 1056 .. 2048 /\ k % 32 = 0
    <3>1. k \div 32 \in 33 .. 64 /\ k = 32 * (k \div 32)
      BY <2>1, <2>2
    <3> QED BY <2>2, <3>1
  <2>3. CASE \E i \in 33 .. 64 : k = 32 * i
    BY <2>3
  <2> QED BY <2>2, <2>3
<1>4. (\E i \in 33 .. 96 : k = 64 * i) <=> k \in 2112 .. 6144 /\ k % 64 = 0
  <2>1. k = 64 * (k \div 64) + (k % 64)
    OBVIOUS
  <2>2. CASE k \in 2112 .. 6144 /\ k % 64 = 0
    <3>1. k \div 64 \in 33 .. 96 /\ k = 64 * (k \div 64)
      BY <2>1, <2>2
    <3> QED BY <2>2, <3>1
  <2>3. CASE \E i \in 33 .. 96 : k = 64 * i
    BY <2>3
  <2> QED BY <2>2, <2>3
<1>5. k \in CbSizes <=> \/ \E i \in 5 .. 64 : k = 8 * i
                        \/ \E i \in 33 .. 64 : k = 16 * i
                        \/ \E i \in 33 .. 64 : k = 32 * i
                        \/ \E i \in 33 .. 96 : k = 64 * i
  BY DEF CbSizes
<1>6. CASE k \in CbSizes
  <2>1. CASE \E i \in 5 .. 64 : k = 8 * i
    BY <1>1, <1>6, <2>1
  <2>2. CASE \E i \in 33 .. 64 : k = 16 * i
    BY <1>2, <1>6, <2>2
  <2>3. CASE \E i \in 33 .. 64 : k = 32 * i
    BY <1>3, <1>6, <2>3
  <2>4. CASE \E i \in 33 .. 96 : k = 64 * i
    BY <1>4, <1>6, <2>4
  <2> QED BY <1>5, <1>6, <2>1, <2>2, <2>3, <2>4
<1>7. CASE k \in 40 .. 512 /\ k % 8 = 0
  BY <1>1, <1>5, <1>7
<1>8. CASE k \in 512 .. 1024 /\ k % 16 = 0
  <2>1. (k = 512 /\ k % 8 = 0) \/ k \in 528 .. 1024
    BY <1>8
  <2>2. CASE k = 512 /\ k % 8 = 0
    BY <1>1, <1>5, <1>8, <2>2
  <2>3. CASE k \in 528 .. 1024
    BY <1>2, <1>5, <1>8, <2>3
  <2> QED BY <2>1, <2>2, <2>3
<1>9. CASE k \in 1024 .. 2048 /\ k % 32 = 0
  <2>1. (k \in 528 .. 1024 /\ k % 16 = 0) \/ k \in 1056 .. 2048
    BY <1>9
  <2>2. CASE k \in 528 .. 1024 /\ k % 16 = 0
    BY <1>2, <1>5, <1>9, <2>2
  <2>3. CASE k \in 1056 .. 2048
    BY <1>3, <1>5, <1>9, <2>3
  <2> QED BY <2>1, <2>2, <2>3
<1>10. CASE k \in 2048 .. 6144 /\ k % 64 = 0
  <2>1. (k \in 1056 .. 2048 /\ k % 32 = 0) \/ k \in 2112 .. 6144
    BY <1>10
  <2>2. CASE k \in 1056 .. 2048 /\ k % 32 = 0
    BY <1>3, <1>5, <1>10, <2>2
  <2>3. CASE k \in 2112 .. 6144
    BY <1>4, <1>5, <1>10, <2>3
  <2> QED BY <2>1, <2>2, <2>3
<1> QED BY <1>6, <1>7, <1>8, <1>9, <1>10

\* Its bounds; every size is whole bytes.
LEMMA CbSizesNat ==
  /\ CbSizes \subseteq 40 .. 6144 /\ 40 \in CbSizes /\ 6144 \in CbSizes
  /\ \A k \in CbSizes : k % 8 = 0
<1>1. CbSizes \subseteq Nat
  BY DEF CbSizes
<1>2. 40 \in CbSizes /\ 6144 \in CbSizes
  BY CbSizeIs
<1>3. ASSUME NEW k \in CbSizes PROVE k \in 40 .. 6144 /\ k % 8 = 0
  <2>1. k \in 40 .. 6144
    BY <1>1, CbSizeIs
  <2>2. \/ \E i \in 5 .. 64 : k = 8 * i
        \/ \E i \in 33 .. 64 : k = 16 * i
        \/ \E i \in 33 .. 64 : k = 32 * i
        \/ \E i \in 33 .. 96 : k = 64 * i
    BY DEF CbSizes
  <2>3. CASE \E i \in 5 .. 64 : k = 8 * i
    BY <2>3
  <2>4. CASE \E i \in 33 .. 64 : k = 16 * i
    BY <2>4
  <2>5. CASE \E i \in 33 .. 64 : k = 32 * i
    BY <2>5
  <2>6. CASE \E i \in 33 .. 96 : k = 64 * i
    BY <2>6
  <2> QED BY <2>1, <2>2, <2>3, <2>4, <2>5, <2>6
<1> QED BY <1>2, <1>3

\* The same of one size.
LEMMA CbSizeBounds ==
  ASSUME NEW k \in CbSizes
  PROVE  k \in Nat /\ 40 <= k /\ k <= 6144 /\ k % 8 = 0
<1>1. k \in 40 .. 6144 /\ k % 8 = 0
  BY CbSizesNat
<1> QED BY <1>1

\* The code blocks of a transport block of t bits, and the bits in all of them.
Blocks(t) == IF t + 24 <= 6144 THEN 1 ELSE CeilDiv(t + 24, 6120)
Cut(t)    == t + 24 + (IF Blocks(t) = 1 THEN 0 ELSE 24 * Blocks(t))
\* The code blocks are as many as have room for the bits, and of more than one
\* each holds more than half of the largest.
LEMMA BlocksRoom ==
  ASSUME NEW t \in Nat
  PROVE  /\ Blocks(t) \in Nat \ {0} /\ Cut(t) \in Nat
         /\ Cut(t) <= 6144 * Blocks(t)
         /\ Cut(t) >= 24
         /\ Blocks(t) > 1 => Cut(t) > 3000 * Blocks(t)
<1>1. CASE t + 24 <= 6144
  BY <1>1 DEF Blocks, Cut
<1>2. CASE t + 24 > 6144
  <2>1. PICK a \in Nat, n \in Nat : a = t + 24 /\ n = 6120
    OBVIOUS
  <2>2. PICK q \in Nat, r \in 0 .. n - 1 : q = a \div n /\ r = a % n /\ a = n * q + r
    <3>1. a \div n \in Nat /\ a % n \in 0 .. n - 1 /\ a = n * (a \div n) + (a % n)
      BY <2>1, Division
    <3> QED BY <3>1
  <2>3. CeilDiv(a, n) = q + (IF r = 0 THEN 0 ELSE 1)
    BY <2>1, <2>2, CeilIs
  <2>4. Blocks(t) = q + (IF r = 0 THEN 0 ELSE 1)
    BY <1>2, <2>1, <2>3 DEF Blocks
  <2>5. q >= 1 /\ (q = 1 => r > 0)
    BY <1>2, <2>1, <2>2
  <2> QED BY <2>1, <2>2, <2>4, <2>5 DEF Cut
<1> QED BY <1>1, <1>2

\* srslte_cbsegm, for every size: the blocks hold the bits and the filler bits, and
\* the smaller blocks come on top of what the larger ones leave.
LEMMA SegmentIs ==
  ASSUME NEW t \in Nat, NEW s, s = Segment(t)
  PROVE  /\ s.tbs = t /\ s.C = Blocks(t)
         /\ s.K1 \in CbSizes /\ s.K2 \in Nat /\ s.K2 % 8 = 0
         /\ \A k \in CbSizes : k * s.C >= Cut(t) => s.K1 <= k
         /\ s.C1 \in Nat /\ s.C2 \in Nat /\ s.C1 + s.C2 = s.C
         /\ s.C2 # 0 => s.K2 \in CbSizes /\ s.K2 < s.K1
         /\ s.F \in Nat /\ s.C1 * s.K1 + s.C2 * s.K2 = Cut(t) + s.F
<1> DEFINE b  == t + 24
           c  == IF b <= MaxLenCb THEN 1 ELSE CeilDiv(b, MaxLenCb - 24)
           bp == IF c = 1 THEN b ELSE b + 24 * c
           low == (bp - 1) \div c + 1
           k1 == Min({k \in CbSizes : k >= low})
           k2 == IF c = 1 THEN 0 ELSE Max({k \in CbSizes : k < k1})
           c2 == IF c = 1 THEN 0 ELSE (c * k1 - bp) \div (k1 - k2)
           f  == (c - c2) * k1 + c2 * k2 - bp
<1>1. /\ s.tbs = t /\ s.C = c /\ s.C1 = c - c2 /\ s.C2 = c2 /\ s.K1 = k1 /\ s.K2 = k2
      /\ s.F = f
  BY DEF Segment
<1>2. c = Blocks(t) /\ bp = Cut(t)
  BY DEF Blocks, Cut, MaxLenCb
<1>3. /\ c \in Nat \ {0} /\ bp \in Nat /\ bp <= 6144 * c /\ bp >= 24
      /\ c > 1 => bp > 3000 * c
  BY <1>2, BlocksRoom
<1>4. CbSizes \subseteq 40 .. 6144 /\ 40 \in CbSizes /\ 6144 \in CbSizes
      /\ \A k \in CbSizes : k % 8 = 0
  BY CbSizesNat
<1> HIDE DEF c, bp
<1>5. /\ low \in 1 .. 6144
      /\ \A k \in Nat : k >= low <=> k * c >= bp
  <2>1. PICK q \in Nat, r \in 0 .. c - 1 : q = (bp - 1) \div c /\ bp - 1 = c * q + r
    BY <1>3, Division
  <2>2. c * q < 6144 * c
    BY <1>3, <2>1
  <2>3. q < 6144
    BY <1>3, <2>2
  <2>4. \A k \in Nat : k >= q + 1 => k * c >= bp
    <3> SUFFICES ASSUME NEW k \in Nat, k >= q + 1 PROVE k * c >= bp
      OBVIOUS
    <3>1. k * c >= (q + 1) * c
      BY <1>3
    <3> QED BY <1>3, <2>1, <3>1
  <2>5. \A k \in Nat : k <= q => k * c < bp
    <3> SUFFICES ASSUME NEW k \in Nat, k <= q PROVE k * c < bp
      OBVIOUS
    <3>1. k * c <= q * c
      BY <1>3
    <3> QED BY <1>3, <2>1, <3>1
  <2> QED BY <1>3, <2>1, <2>3, <2>4, <2>5
<1> HIDE DEF low
<1>6. /\ k1 \in CbSizes /\ k1 * c >= bp
      /\ \A k \in CbSizes : k * c >= bp => k1 <= k
  <2> DEFINE S == {k \in CbSizes : k >= low}
  <2>1. S \in SUBSET Nat /\ S # {}
    <3>1. 6144 \in S
      BY <1>4, <1>5
    <3>2. S \subseteq CbSizes /\ CbSizes \subseteq Nat
      BY <1>4
    <3> HIDE DEF S
    <3> QED BY <3>1, <3>2
  <2>2. k1 \in S /\ \A k \in S : k1 <= k
    <3> HIDE DEF S
    <3>1. Min(S) \in S /\ \A y \in S : Min(S) <= y
      BY <2>1, MinIs
    <3> QED BY <3>1 DEF S
  <2> HIDE DEF k1
  <2> QED BY <1>4, <1>5, <2>2
<1> HIDE DEF k1
<1>7. k1 \in 40 .. 6144
  BY <1>4, <1>6
<1>8. CASE c = 1
  <2>1. k2 = 0 /\ c2 = 0
    BY <1>8
  <2>2. f = k1 - bp
    BY <1>3, <1>7, <1>8, <2>1
  <2> HIDE DEF k2, c2, f
  <2>3. k1 >= bp
    BY <1>3, <1>6, <1>7, <1>8
  <2> QED BY <1>1, <1>2, <1>3, <1>6, <1>7, <1>8, <2>1, <2>2, <2>3
<1>9. CASE c # 1
  <2>1. k1 > 40
    <3>1. c > 1
      BY <1>3, <1>9
    <3>2. 3000 * c < bp /\ bp <= k1 * c
      BY <1>3, <1>6, <3>1
    <3>3. 3000 * c < k1 * c
      BY <1>3, <1>7, <3>2
    <3> QED BY <1>3, <1>7, <3>3
  <2>2. /\ k2 \in CbSizes /\ k2 < k1 /\ k2 * c < bp
    <3> DEFINE S == {k \in CbSizes : k < k1}
    <3>1. S \in SUBSET Nat /\ S # {} /\ \A y \in S : y <= 6144
      <4>1. 40 \in S
        BY <1>4, <2>1
      <4>2. S \subseteq CbSizes
        OBVIOUS
      <4> HIDE DEF S
      <4>3. \A y \in S : y \in Nat /\ y <= 6144
        BY <1>4, <4>2
      <4> QED BY <4>1, <4>3
    <3>2. k2 \in S
      <4> HIDE DEF S
      <4>1. PICK n \in Nat : n = 6144
        OBVIOUS
      <4>2. S \in SUBSET Nat /\ S # {} /\ \A y \in S : y <= n
        BY <3>1, <4>1
      <4>3. Max(S) \in S
        BY <4>2, MaxIs
      <4> QED BY <1>9, <4>3 DEF S
    <3> HIDE DEF k2
    <3>3. k2 \in CbSizes /\ k2 < k1 /\ k2 \in Nat
      BY <1>4, <3>2
    <3> QED BY <1>3, <1>6, <1>7, <3>3
  <2> HIDE DEF k2
  <2>3. k2 \in 40 .. 6144 /\ k2 % 8 = 0
    BY <1>4, <2>2
  <2>4. PICK a \in Nat, d \in Nat : a = c * k1 - bp /\ d = k1 - k2 /\ d > 0
    BY <1>3, <1>6, <1>7, <2>2, <2>3
  <2>5. PICK r \in 0 .. d - 1 : a = d * c2 + r /\ c2 \in Nat
    BY <1>9, <2>4, Division, Zenon
  <2>6. f = r
    <3>1. (c - c2) * k1 + c2 * k2 = c * k1 - d * c2
      <4> HIDE DEF c2, f
      <4>1. d * c2 = k1 * c2 - k2 * c2
        BY <1>7, <2>3, <2>4, <2>5
      <4> QED BY <1>3, <1>7, <2>3, <2>5, <4>1
    <3> QED BY <1>3, <1>7, <2>3, <2>4, <2>5, <3>1
  <2>7. c2 <= c
    <3> HIDE DEF c2, f
    <3>1. a < c * d
      BY <1>3, <1>7, <2>2, <2>3, <2>4
    <3>2. d * c2 < d * c
      BY <1>3, <2>4, <2>5, <3>1
    <3> QED BY <1>3, <2>4, <2>5, <3>2
  <2> HIDE DEF c2
  <2>8. (c - c2) * k1 + c2 * k2 = bp + f
    BY <1>3, <1>7, <2>3, <2>5, <2>6
  <2> HIDE DEF f
  <2> QED BY <1>1, <1>2, <1>3, <1>6, <2>2, <2>3, <2>5, <2>6, <2>7, <2>8
<1> QED BY <1>8, <1>9
---------------------------------------------------------------------------
(* The shares of the code blocks.                                          *)

\* What a sum of one more code block adds, in closed form: the bits of the block,
\* smaller blocks first, and the code bits, shorter shares first.
CrcBits(s) == IF s.C > 1 THEN 24 ELSE 0
DataBits(s, i) == (IF i < s.C2 THEN s.K2 ELSE s.K1) - CrcBits(s)
DataAt(s, i) ==
  IF i <= s.C2 THEN i * (s.K2 - CrcBits(s))
  ELSE s.C2 * (s.K2 - CrcBits(s)) + (i - s.C2) * (s.K1 - CrcBits(s))
CodeBits(s, qm, re, i) ==
  qm * ((re \div s.C) + (IF i < s.C - (re % s.C) THEN 0 ELSE 1))
CodeAt(s, qm, re, i) ==
  qm * (i * (re \div s.C) + (IF i <= s.C - (re % s.C) THEN 0 ELSE i - (s.C - (re % s.C))))

\* What Segment returns, as far as the shares depend on it.
IsCut(s) ==
  /\ s.C \in Nat \ {0} /\ s.C1 \in Nat /\ s.C2 \in Nat /\ s.C1 + s.C2 = s.C
  /\ s.K1 \in Nat /\ s.K2 \in Nat /\ s.K1 % 8 = 0 /\ s.K2 % 8 = 0

\* A code block adds its bits to the sum ...
LEMMA DataStep ==
  ASSUME NEW s, IsCut(s), NEW i \in 0 .. s.C - 1
  PROVE  /\ DataBits(s, i) \in Int /\ DataAt(s, i) \in Int /\ DataAt(s, i + 1) \in Int
         /\ DataAt(s, i + 1) = DataAt(s, i) + DataBits(s, i)
<1>1. PICK c \in Nat, c2 \in Nat, x \in Int, y \in Int :
        /\ c = s.C /\ c2 = s.C2 /\ x = s.K2 - CrcBits(s) /\ y = s.K1 - CrcBits(s)
  <2>1. CrcBits(s) \in Int /\ s.K1 \in Int /\ s.K2 \in Int /\ s.C \in Nat /\ s.C2 \in Nat
    BY DEF IsCut, CrcBits
  <2>2. s.K2 - CrcBits(s) \in Int /\ s.K1 - CrcBits(s) \in Int
    BY <2>1
  <2> QED BY <2>1, <2>2
<1>2. i \in Nat /\ i < c
  BY <1>1
<1>3. /\ DataBits(s, i) = IF i < c2 THEN x ELSE y
      /\ DataAt(s, i) = IF i <= c2 THEN i * x ELSE c2 * x + (i - c2) * y
      /\ DataAt(s, i + 1) = IF i + 1 <= c2 THEN (i + 1) * x ELSE c2 * x + (i + 1 - c2) * y
  BY <1>1 DEF DataBits, DataAt
<1>4. /\ (i + 1) * x = i * x + x
      /\ (i + 1 - c2) * y = (i - c2) * y + y
      /\ i * x \in Int /\ c2 * x \in Int /\ (i - c2) * y \in Int
      /\ i = c2 => i * x = c2 * x /\ (i - c2) * y = 0
  BY <1>2
<1> QED BY <1>2, <1>3, <1>4

\* ... and its code bits to the other.
LEMMA CodeStep ==
  ASSUME NEW s, IsCut(s), NEW qm \in Nat, NEW re \in Nat, NEW i \in 0 .. s.C - 1
  PROVE  /\ CodeBits(s, qm, re, i) \in Nat
         /\ CodeAt(s, qm, re, i) \in Nat /\ CodeAt(s, qm, re, i + 1) \in Nat
         /\ CodeAt(s, qm, re, i + 1) = CodeAt(s, qm, re, i) + CodeBits(s, qm, re, i)
<1>1. PICK c \in Nat : c = s.C /\ c > 0
  BY DEF IsCut
<1>2. PICK q \in Nat, r \in 0 .. c - 1 : q = re \div c /\ r = re % c
  BY <1>1, Division
<1>3. i \in Nat /\ i < c
  BY <1>1
<1> DEFINE a == i * q + (IF i <= c - r THEN 0 ELSE i - (c - r))
           b == q + (IF i < c - r THEN 0 ELSE 1)
           d == (i + 1) * q + (IF i + 1 <= c - r THEN 0 ELSE i + 1 - (c - r))
<1>4. /\ CodeBits(s, qm, re, i) = qm * b
      /\ CodeAt(s, qm, re, i) = qm * a /\ CodeAt(s, qm, re, i + 1) = qm * d
  BY <1>1, <1>2 DEF CodeBits, CodeAt
<1>5. a \in Nat /\ b \in Nat /\ d \in Nat /\ d = a + b
  <2>1. (i + 1) * q = i * q + q /\ i * q \in Nat
    BY <1>2, <1>3
  <2> QED BY <1>2, <1>3, <2>1
<1> HIDE DEF a, b, d
<1>6. qm * (a + b) = qm * a + qm * b /\ qm * a \in Nat /\ qm * b \in Nat /\ qm * d \in Nat
  BY <1>5
<1> QED BY <1>4, <1>5, <1>6

\* encode_tb_off, for every way of cutting.
LEMMA EncodedIs ==
  ASSUME NEW s, IsCut(s), NEW qm \in Nat, NEW re \in Nat
  PROVE  EncodedPieces(s, qm, re) =
           [i \in 0 .. s.C - 1 |->
              Piece(DataAt(s, i), DataBits(s, i), CodeAt(s, qm, re, i), CodeBits(s, qm, re, i))]
<1> DEFINE gamma == re % s.C
           rlen(i) == (IF i < s.C2 THEN s.K2 ELSE s.K1) - (IF s.C > 1 THEN 24 ELSE 0)
           len(i) == qm * (IF i <= s.C - gamma - 1 THEN re \div s.C ELSE CeilDiv(re, s.C))
           DataLoop(g) == [i \in 0 .. s.C |-> IF i = 0 THEN 0 ELSE g[i - 1] + rlen(i - 1)]
           CodeLoop(g) == [i \in 0 .. s.C |-> IF i = 0 THEN 0 ELSE g[i - 1] + len(i - 1)]
           rp == CHOOSE g : g = DataLoop(g)
           wp == CHOOSE g : g = CodeLoop(g)
           D == [i \in 0 .. s.C |-> DataAt(s, i)]
           W == [i \in 0 .. s.C |-> CodeAt(s, qm, re, i)]
<1>1. EncodedPieces(s, qm, re) =
        [i \in 0 .. s.C - 1 |-> Piece(rp[i], rlen(i), wp[i], len(i))]
  BY DEF EncodedPieces
<1>2. \A i \in 0 .. s.C - 1 : rlen(i) = DataBits(s, i)
  BY DEF DataBits, CrcBits
<1>3. \A i \in 0 .. s.C - 1 : len(i) = CodeBits(s, qm, re, i)
  <2>1. PICK c \in Nat, r \in Nat, q \in Nat :
          /\ c = s.C /\ c > 0 /\ r = re % c /\ r < c /\ q = re \div c
          /\ CeilDiv(re, c) = q + (IF r = 0 THEN 0 ELSE 1)
    <3>1. s.C \in Nat /\ s.C > 0
      BY DEF IsCut
    <3>2. re \div s.C \in Nat /\ re % s.C \in 0 .. s.C - 1
      BY <3>1, Division
    <3>3. CeilDiv(re, s.C) = re \div s.C + (IF re % s.C = 0 THEN 0 ELSE 1)
      BY <3>1, CeilIs, Zenon
    <3> QED BY <3>1, <3>2, <3>3
  <2> SUFFICES ASSUME NEW i \in 0 .. s.C - 1 PROVE len(i) = CodeBits(s, qm, re, i)
    OBVIOUS
  <2>2. i \in Nat /\ i < c
    BY <2>1
  <2>3. (IF i <= c - r - 1 THEN q ELSE CeilDiv(re, c)) = q + (IF i < c - r THEN 0 ELSE 1)
    BY <2>1, <2>2
  <2> QED BY <2>1, <2>3 DEF CodeBits
<1> HIDE DEF rlen, len
<1>4. D \in [0 .. s.C -> Int] /\ W \in [0 .. s.C -> Int] /\ D[0] = 0 /\ W[0] = 0
  <2>1. \A i \in 0 .. s.C : \E j \in 0 .. s.C - 1 : i = j \/ i = j + 1
    BY DEF IsCut
  <2>2. \A i \in 0 .. s.C : DataAt(s, i) \in Int /\ CodeAt(s, qm, re, i) \in Int
    <3> SUFFICES ASSUME NEW i \in 0 .. s.C
                 PROVE  DataAt(s, i) \in Int /\ CodeAt(s, qm, re, i) \in Int
      OBVIOUS
    <3>1. PICK j \in 0 .. s.C - 1 : i = j \/ i = j + 1
      BY <2>1
    <3>2. /\ DataAt(s, j) \in Int /\ DataAt(s, j + 1) \in Int
          /\ CodeAt(s, qm, re, j) \in Int /\ CodeAt(s, qm, re, j + 1) \in Int
      <4>1. DataAt(s, j) \in Int /\ DataAt(s, j + 1) \in Int
        BY DataStep, Zenon
      <4>2. CodeAt(s, qm, re, j) \in Nat /\ CodeAt(s, qm, re, j + 1) \in Nat
        BY CodeStep, Zenon
      <4> QED BY <4>1, <4>2
    <3> QED BY <3>1, <3>2
  <2>3. DataAt(s, 0) = 0
    <3>1. 0 <= s.C2 /\ s.K2 - CrcBits(s) \in Int
      BY DEF IsCut, CrcBits
    <3> QED BY <3>1 DEF DataAt
  <2>4. CodeAt(s, qm, re, 0) = 0
    <3>1. PICK c \in Nat : c = s.C /\ c > 0
      BY DEF IsCut
    <3>2. re \div c \in Nat /\ re % c \in 0 .. c - 1
      BY <3>1, Division
    <3> QED BY <3>1, <3>2 DEF CodeAt
  <2>5. 0 \in 0 .. s.C
    BY DEF IsCut
  <2> QED BY <2>2, <2>3, <2>4, <2>5
<1>5. \A i \in 1 .. s.C : rlen(i - 1) = D[i] - D[i - 1] /\ len(i - 1) = W[i] - W[i - 1]
  <2> SUFFICES ASSUME NEW i \in 1 .. s.C
               PROVE  rlen(i - 1) = D[i] - D[i - 1] /\ len(i - 1) = W[i] - W[i - 1]
    OBVIOUS
  <2>1. s.C \in Nat /\ i - 1 \in 0 .. s.C - 1 /\ i - 1 \in 0 .. s.C /\ i \in 0 .. s.C
    BY DEF IsCut
  <2>2. PICK j \in 0 .. s.C - 1 : j = i - 1 /\ i = j + 1
    BY <2>1
  <2>3. /\ DataAt(s, i) = DataAt(s, i - 1) + DataBits(s, i - 1)
        /\ CodeAt(s, qm, re, i) = CodeAt(s, qm, re, i - 1) + CodeBits(s, qm, re, i - 1)
        /\ DataBits(s, i - 1) \in Int /\ DataAt(s, i - 1) \in Int
        /\ CodeBits(s, qm, re, i - 1) \in Int /\ CodeAt(s, qm, re, i - 1) \in Int
    <3>1. /\ DataAt(s, j + 1) = DataAt(s, j) + DataBits(s, j)
          /\ CodeAt(s, qm, re, j + 1) = CodeAt(s, qm, re, j) + CodeBits(s, qm, re, j)
          /\ DataBits(s, j) \in Int /\ DataAt(s, j) \in Int
          /\ CodeBits(s, qm, re, j) \in Int /\ CodeAt(s, qm, re, j) \in Int
      <4>1. /\ DataAt(s, j + 1) = DataAt(s, j) + DataBits(s, j)
            /\ DataBits(s, j) \in Int /\ DataAt(s, j) \in Int
        BY DataStep, Zenon
      <4>2. /\ CodeAt(s, qm, re, j + 1) = CodeAt(s, qm, re, j) + CodeBits(s, qm, re, j)
            /\ CodeBits(s, qm, re, j) \in Nat /\ CodeAt(s, qm, re, j) \in Nat
        BY CodeStep, Zenon
      <4> QED BY <4>1, <4>2
    <3> QED BY <2>2, <3>1
  <2> QED BY <1>2, <1>3, <2>1, <2>3
<1>6. D = [i \in 0 .. s.C |-> D[i]] /\ W = [i \in 0 .. s.C |-> W[i]]
  BY <1>4
<1>7. \A i \in 0 .. s.C - 1 : D[i] = DataAt(s, i) /\ W[i] = CodeAt(s, qm, re, i)
  BY DEF IsCut
<1> HIDE DEF D, W
<1>8. /\ \A i \in 1 .. s.C : D[i] = D[i - 1] + rlen(i - 1)
      /\ \A i \in 1 .. s.C : W[i] = W[i - 1] + len(i - 1)
  <2> SUFFICES ASSUME NEW i \in 1 .. s.C
               PROVE  D[i] = D[i - 1] + rlen(i - 1) /\ W[i] = W[i - 1] + len(i - 1)
    OBVIOUS
  <2>1. D[i] \in Int /\ D[i - 1] \in Int /\ W[i] \in Int /\ W[i - 1] \in Int
    <3>1. i \in 0 .. s.C /\ i - 1 \in 0 .. s.C
      BY DEF IsCut
    <3> QED BY <1>4, <3>1
  <2> QED BY <1>5, <2>1
<1>9. D = DataLoop(D) /\ W = CodeLoop(W)
  <2>1. s.C \in Nat
    BY DEF IsCut
  <2>2. /\ \A i \in 0 .. s.C : D[i] = IF i = 0 THEN 0 ELSE D[i - 1] + rlen(i - 1)
        /\ \A i \in 0 .. s.C : W[i] = IF i = 0 THEN 0 ELSE W[i - 1] + len(i - 1)
    BY <1>4, <1>8, <2>1
  <2> QED BY <1>6, <2>2, Zenon
<1>10. rp = DataLoop(rp) /\ wp = CodeLoop(wp)
  BY <1>9, Zenon
<1> HIDE DEF rp, wp
<1>11. /\ rp[0] = 0 /\ \A i \in 1 .. s.C : rp[i] = rp[i - 1] + (D[i] - D[i - 1])
       /\ wp[0] = 0 /\ \A i \in 1 .. s.C : wp[i] = wp[i - 1] + (W[i] - W[i - 1])
  <2>1. s.C \in Nat
    BY DEF IsCut
  <2> QED BY <1>5, <1>10, <2>1
<1> HIDE DEF DataLoop, CodeLoop
<1>12. \A i \in 0 .. s.C : rp[i] = D[i] /\ wp[i] = W[i]
  <2>1. s.C \in Nat
    BY DEF IsCut
  <2>2. \A i \in 0 .. s.C : rp[i] = D[i]
    BY <1>4, <1>11, <2>1, SumIs, Zenon
  <2>3. \A i \in 0 .. s.C : wp[i] = W[i]
    BY <1>4, <1>11, <2>1, SumIs, Zenon
  <2> QED BY <2>2, <2>3
<1>13. \A i \in 0 .. s.C - 1 :
         /\ rp[i] = DataAt(s, i) /\ rlen(i) = DataBits(s, i)
         /\ wp[i] = CodeAt(s, qm, re, i) /\ len(i) = CodeBits(s, qm, re, i)
  BY <1>2, <1>3, <1>7, <1>12 DEF IsCut
<1> QED BY <1>1, <1>13
\* Products of differences and sums.
LEMMA Distribute ==
  ASSUME NEW a \in Int, NEW x \in Int, NEW y \in Int
  PROVE  a * (x - y) = a * x - a * y /\ (x + y) * a = x * a + y * a
OBVIOUS

\* Both sums begin at 0; the second ends at the code bits there are.
LEMMA ShareEnds ==
  ASSUME NEW s, IsCut(s), NEW qm \in Nat, NEW re \in Nat
  PROVE  /\ DataAt(s, 0) = 0 /\ CodeAt(s, qm, re, 0) = 0
         /\ DataAt(s, s.C) = (s.C1 * s.K1 + s.C2 * s.K2) - s.C * CrcBits(s)
         /\ CodeAt(s, qm, re, s.C) = qm * re
<1>1. PICK c \in Nat, c1 \in Nat, c2 \in Nat, k1 \in Nat, k2 \in Nat, b \in Nat :
        /\ c = s.C /\ c > 0 /\ c1 = s.C1 /\ c2 = s.C2 /\ c1 + c2 = c
        /\ k1 = s.K1 /\ k2 = s.K2 /\ b = CrcBits(s)
  <2>1. /\ s.C \in Nat /\ s.C1 \in Nat /\ s.C2 \in Nat /\ s.K1 \in Nat /\ s.K2 \in Nat
        /\ s.C > 0 /\ s.C1 + s.C2 = s.C
    BY DEF IsCut
  <2>2. CrcBits(s) \in Nat
    BY DEF CrcBits
  <2> QED BY <2>1, <2>2, Zenon
<1>2. PICK q \in Nat, r \in 0 .. c - 1 : q = re \div c /\ r = re % c /\ re = c * q + r
  <2>1. re \div c \in Nat /\ re % c \in 0 .. c - 1 /\ re = c * (re \div c) + (re % c)
    BY <1>1, Division, Zenon
  <2> QED BY <2>1
<1>3. DataAt(s, 0) = 0
  BY <1>1 DEF DataAt
<1>4. DataAt(s, c) = (c1 * k1 + c2 * k2) - c * b
  <2>1. DataAt(s, c) = IF c <= c2 THEN c * (k2 - b) ELSE c2 * (k2 - b) + (c - c2) * (k1 - b)
    BY <1>1 DEF DataAt
  <2>2. CASE c <= c2
    <3>1. c1 = 0 /\ c2 = c
      BY <1>1, <2>2
    <3>2. c * (k2 - b) = c * k2 - c * b
      <4>1. c \in Int /\ k2 \in Int /\ b \in Int
        BY <1>1
      <4> QED BY <4>1, Distribute, Zenon
    <3>3. DataAt(s, c) = c * (k2 - b) /\ c1 * k1 = 0 /\ c2 * k2 = c * k2
      BY <1>1, <2>1, <2>2, <3>1
    <3> QED BY <1>1, <3>2, <3>3
  <2>3. CASE c > c2
    <3>1. c - c2 = c1
      BY <1>1
    <3>2. /\ c2 * (k2 - b) = c2 * k2 - c2 * b
          /\ c1 * (k1 - b) = c1 * k1 - c1 * b
          /\ c * b = c1 * b + c2 * b
      BY <1>1, Distribute
    <3>3. DataAt(s, c) = c2 * (k2 - b) + c1 * (k1 - b)
      BY <1>1, <2>1, <2>3, <3>1
    <3>4. /\ c2 * k2 \in Nat /\ c1 * k1 \in Nat /\ c1 * b \in Nat /\ c2 * b \in Nat
      BY <1>1
    <3> QED BY <3>2, <3>3, <3>4
  <2> QED BY <1>1, <2>2, <2>3
<1>5. CodeAt(s, qm, re, 0) = 0
  <2>1. CodeAt(s, qm, re, 0) = qm * (0 * q + (IF 0 <= c - r THEN 0 ELSE 0 - (c - r)))
    BY <1>1, <1>2 DEF CodeAt
  <2> QED BY <1>1, <1>2, <2>1
<1>6. CodeAt(s, qm, re, c) = qm * re
  <2>1. CodeAt(s, qm, re, c) = qm * (c * q + (IF c <= c - r THEN 0 ELSE c - (c - r)))
    BY <1>1, <1>2 DEF CodeAt
  <2>2. (IF c <= c - r THEN 0 ELSE c - (c - r)) = r
    <3>1. c \in Nat /\ r \in Nat
      BY <1>1, <1>2
    <3> QED BY <3>1
  <2> QED BY <1>2, <2>1, <2>2
<1> QED BY <1>1, <1>3, <1>4, <1>5, <1>6

\* A size in whole bytes, less a CRC, is whole bytes.
LEMMA WholeBytes ==
  ASSUME NEW k \in Nat, NEW b \in Nat, k % 8 = 0, b = 0 \/ b = 24
  PROVE  \E x \in Int : 8 * x = k - b
<1>1. PICK n \in Nat : k = 8 * n
  <2>1. k \div 8 \in Nat /\ k = 8 * (k \div 8)
    OBVIOUS
  <2> QED BY <2>1
<1>2. 8 * n = k - 0 /\ 8 * (n - 3) = k - 24 /\ n \in Int /\ n - 3 \in Int
  BY <1>1
<1> QED BY <1>2, Zenon

\* A block starts at a whole byte.
LEMMA DataBytes ==
  ASSUME NEW s, IsCut(s), NEW i \in 0 .. s.C - 1
  PROVE  DataAt(s, i) % 8 = 0
<1>1. PICK c2 \in Nat, x \in Int, y \in Int :
        /\ c2 = s.C2 /\ 8 * x = s.K2 - CrcBits(s) /\ 8 * y = s.K1 - CrcBits(s)
  <2>1. s.C2 \in Nat /\ s.K2 \in Nat /\ s.K1 \in Nat /\ s.K2 % 8 = 0 /\ s.K1 % 8 = 0
    BY DEF IsCut
  <2>2. CrcBits(s) = 0 \/ CrcBits(s) = 24
    BY DEF CrcBits
  <2>3. \E x \in Int : 8 * x = s.K2 - CrcBits(s)
    BY <2>1, <2>2, WholeBytes, Zenon
  <2>4. \E y \in Int : 8 * y = s.K1 - CrcBits(s)
    BY <2>1, <2>2, WholeBytes, Zenon
  <2> QED BY <2>1, <2>3, <2>4
<1>2. i \in Nat
  BY DEF IsCut
<1>3. DataAt(s, i) = IF i <= c2 THEN i * (8 * x) ELSE c2 * (8 * x) + (i - c2) * (8 * y)
  BY <1>1 DEF DataAt
<1>4. \E z \in Int : DataAt(s, i) = 8 * z
  <2>1. PICK j \in Int : j = i - c2
    BY <1>1, <1>2
  <2>2. /\ i * (8 * x) = 8 * (i * x) /\ c2 * (8 * x) = 8 * (c2 * x)
        /\ j * (8 * y) = 8 * (j * y)
        /\ i * x \in Int /\ c2 * x \in Int /\ j * y \in Int
    BY <1>1, <1>2
  <2> QED BY <1>3, <2>1, <2>2
<1> QED BY <1>4

\* The decoder's rule for the shares, when all code blocks have one size.
LEMMA DecodedIs ==
  ASSUME NEW s, IsCut(s), s.C2 = 0, NEW qm \in Nat, NEW re \in Nat,
         NEW i \in 0 .. s.C - 1
  PROVE  DecodedPieces(s, qm, re)[i] =
           Piece(DataAt(s, i), DataBits(s, i), CodeAt(s, qm, re, i),
                 IF i = s.C - (re % s.C) THEN qm * (re \div s.C) ELSE CodeBits(s, qm, re, i))
<1>1. PICK c \in Nat, k \in Int : c = s.C /\ c = s.C1 /\ c > 0 /\ k = s.K1 - CrcBits(s)
  <2>1. s.K1 \in Nat /\ CrcBits(s) \in Nat
    BY DEF IsCut, CrcBits
  <2>2. s.K1 - CrcBits(s) \in Int
    BY <2>1
  <2> QED BY <2>2 DEF IsCut
<1>2. PICK q \in Nat, r \in 0 .. c - 1 : q = re \div c /\ r = re % c
  BY <1>1, Division
<1>3. i \in Nat /\ i < c
  BY <1>1
<1>4. DataBits(s, i) = k /\ DataAt(s, i) = i * k
  <2>1. DataBits(s, i) = k
    BY <1>1, <1>3 DEF DataBits
  <2>2. DataAt(s, i) = IF i <= 0 THEN i * (s.K2 - CrcBits(s))
                       ELSE 0 * (s.K2 - CrcBits(s)) + (i - 0) * k
    BY <1>1 DEF DataAt
  <2>3. PICK w \in Int : w = s.K2 - CrcBits(s)
    <3>1. s.K2 \in Nat /\ CrcBits(s) \in Nat
      BY DEF IsCut, CrcBits
    <3> QED BY <3>1
  <2>4. DataAt(s, i) = IF i <= 0 THEN i * w ELSE 0 * w + (i - 0) * k
    BY <2>2, <2>3
  <2>5. (i = 0 => i * w = i * k) /\ 0 * w = 0 /\ i - 0 = i /\ i * k \in Int
    BY <1>1, <1>3, <2>3
  <2>6. DataAt(s, i) = i * k
    BY <1>3, <2>4, <2>5
  <2> QED BY <2>1, <2>6
<1>5. DecodedPieces(s, qm, re)[i] =
        IF i > c - r
        THEN Piece(i * k, k, (c - r) * (qm * q) + (i - (c - r)) * (qm * q + qm), qm * q + qm)
        ELSE Piece(i * k, k, i * (qm * q), qm * q)
  BY <1>1, <1>2, <1>3, Zenon DEF DecodedPieces, CrcBits
<1>6. /\ CodeAt(s, qm, re, i) = qm * (i * q + (IF i <= c - r THEN 0 ELSE i - (c - r)))
      /\ CodeBits(s, qm, re, i) = qm * (q + (IF i < c - r THEN 0 ELSE 1))
  BY <1>1, <1>2 DEF CodeAt, CodeBits
<1>7. PICK n \in Nat : n = c - r
  BY <1>1, <1>2
<1>8. CASE i > n
  <2>1. n * (qm * q) + (i - n) * (qm * q + qm) = qm * (i * q + (i - n))
    BY <1>2, <1>3, <1>7
  <2>2. qm * q + qm = qm * (q + 1)
    BY <1>2
  <2> QED BY <1>1, <1>2, <1>3, <1>4, <1>5, <1>6, <1>7, <1>8, <2>1, <2>2
<1>9. CASE i <= n
  <2>1. i * (qm * q) = qm * (i * q + 0) /\ qm * q = qm * (q + 0)
    BY <1>2, <1>3
  <2> QED BY <1>1, <1>2, <1>3, <1>4, <1>5, <1>6, <1>7, <1>9, <2>1
<1> QED BY <1>3, <1>7, <1>8, <1>9
\* What srslte_cbsegm returns is such a cut, for every size.
LEMMA SegmentCut ==
  ASSUME NEW t \in Nat
  PROVE  IsCut(Segment(t))
<1>1. PICK s : s = Segment(t)
  OBVIOUS
<1>2. /\ s.C = Blocks(t) /\ s.K1 \in CbSizes /\ s.K2 \in Nat /\ s.K2 % 8 = 0
      /\ s.C1 \in Nat /\ s.C2 \in Nat /\ s.C1 + s.C2 = s.C
  BY <1>1, SegmentIs
<1>3. Blocks(t) \in Nat \ {0}
  BY BlocksRoom
<1>4. s.K1 \in Nat /\ s.K1 % 8 = 0
  <2>1. PICK k \in CbSizes : k = s.K1
    BY <1>2
  <2>2. k \in Nat /\ k % 8 = 0
    BY CbSizeBounds
  <2> QED BY <2>1, <2>2
<1> QED BY <1>1, <1>2, <1>3, <1>4 DEF IsCut

\* Without filler bits the blocks, less their CRCs, are the transport block and its
\* CRC.
LEMMA CutEnds ==
  ASSUME NEW t \in Nat, NEW s, s = Segment(t), s.F = 0
  PROVE  (s.C1 * s.K1 + s.C2 * s.K2) - s.C * CrcBits(s) = t + 24
<1>1. s.C = Blocks(t) /\ s.C1 * s.K1 + s.C2 * s.K2 = Cut(t) + 0
  BY SegmentIs
<1>2. PICK c \in Nat : c = Blocks(t) /\ c # 0
  BY BlocksRoom
<1>3. Cut(t) = t + 24 + c * CrcBits(s)
  BY <1>1, <1>2 DEF Cut, CrcBits
<1>4. PICK u \in Nat, d \in Nat, n \in Nat : u = Cut(t) /\ d = CrcBits(s) /\ n = c * d
  <2>1. CrcBits(s) \in Nat /\ Cut(t) \in Nat
    BY BlocksRoom DEF CrcBits
  <2> QED BY <1>2, <2>1
<1>5. s.C * CrcBits(s) = n /\ u = t + 24 + n
  <2>1. s.C * CrcBits(s) = c * d
    BY <1>1, <1>2, <1>4
  <2>2. u = t + 24 + c * d
    BY <1>3, <1>4
  <2> QED BY <1>4, <2>1, <2>2
<1>6. s.C1 * s.K1 + s.C2 * s.K2 = u
  BY <1>1, <1>4
<1>7. u - n = t + 24
  BY <1>4, <1>5
<1> QED BY <1>5, <1>6, <1>7, Zenon

\* The n pieces e are whole bytes and cover so many bits and code bits without gap or
\* overlap.
Tiles(e, n, bits, codeBits) ==
  /\ e[0].data = 0 /\ e[0].code = 0
  /\ e[n - 1].dataEnd = bits /\ e[n - 1].codeEnd = codeBits
  /\ \A i \in 0 .. n - 1 : e[i].data % 8 = 0
  /\ \A i \in 1 .. n - 1 :
       e[i].data = e[i - 1].dataEnd /\ e[i].code = e[i - 1].codeEnd

(***************************************************************************)
(* encode_tb_off, for every size of a transport block that srslte_cbsegm   *)
(* cuts without filler bits, every modulation and every number of REs: the *)
(* code blocks are whole bytes, cover the block and its CRC without gap or *)
(* overlap, and their code bits fill the REs.                              *)
(***************************************************************************)
THEOREM EncoderTiles ==
  ASSUME NEW t \in Nat, NEW s, s = Segment(t), s.F = 0,
         NEW qm \in Nat, NEW re \in Nat, NEW e, e = EncodedPieces(s, qm, re)
  PROVE  Tiles(e, s.C, t + 24, qm * re)
<1>1. IsCut(s)
  BY SegmentCut
<1>2. e = [i \in 0 .. s.C - 1 |->
             Piece(DataAt(s, i), DataBits(s, i), CodeAt(s, qm, re, i), CodeBits(s, qm, re, i))]
  BY <1>1, EncodedIs
<1>3. PICK c \in Nat : c = s.C /\ c > 0
  BY <1>1 DEF IsCut
<1>4. ASSUME NEW i \in 0 .. s.C - 1
      PROVE  /\ e[i].data = DataAt(s, i) /\ e[i].dataEnd = DataAt(s, i + 1)
             /\ e[i].code = CodeAt(s, qm, re, i) /\ e[i].codeEnd = CodeAt(s, qm, re, i + 1)
  <2>1. e[i] = Piece(DataAt(s, i), DataBits(s, i), CodeAt(s, qm, re, i), CodeBits(s, qm, re, i))
    BY <1>2
  <2>2. DataAt(s, i + 1) = DataAt(s, i) + DataBits(s, i)
    BY <1>1, DataStep, Zenon
  <2>3. CodeAt(s, qm, re, i + 1) = CodeAt(s, qm, re, i) + CodeBits(s, qm, re, i)
    BY <1>1, CodeStep, ZenonT(40)
  <2> QED BY <2>1, <2>2, <2>3 DEF Piece
<1>5. /\ DataAt(s, 0) = 0 /\ CodeAt(s, qm, re, 0) = 0
      /\ DataAt(s, s.C) = (s.C1 * s.K1 + s.C2 * s.K2) - s.C * CrcBits(s)
      /\ CodeAt(s, qm, re, s.C) = qm * re
  BY <1>1, ShareEnds, Zenon
<1>6. DataAt(s, s.C) = t + 24
  BY <1>5, CutEnds, Zenon
<1>7. 0 \in 0 .. s.C - 1 /\ s.C - 1 \in 0 .. s.C - 1 /\ s.C - 1 + 1 = s.C
  BY <1>3
<1>8. ASSUME NEW i \in 1 .. s.C - 1
      PROVE  i \in 0 .. s.C - 1 /\ i - 1 \in 0 .. s.C - 1 /\ i - 1 + 1 = i
  BY <1>3
<1>9. ASSUME NEW i \in 1 .. s.C - 1
      PROVE  e[i].data = e[i - 1].dataEnd /\ e[i].code = e[i - 1].codeEnd
  <2>1. e[i].data = DataAt(s, i) /\ e[i].code = CodeAt(s, qm, re, i)
    BY <1>4, <1>8, Zenon
  <2>2. e[i - 1].dataEnd = DataAt(s, i) /\ e[i - 1].codeEnd = CodeAt(s, qm, re, i)
    BY <1>4, <1>8
  <2> QED BY <2>1, <2>2
<1>10. ASSUME NEW i \in 0 .. s.C - 1 PROVE e[i].data % 8 = 0
  <2>1. DataAt(s, i) % 8 = 0
    BY <1>1, DataBytes, Zenon
  <2> QED BY <1>4, <2>1
<1>11. /\ e[s.C - 1].dataEnd = DataAt(s, s.C)
       /\ e[s.C - 1].codeEnd = CodeAt(s, qm, re, s.C)
  BY <1>4, <1>7
<1>12. e[0].data = DataAt(s, 0) /\ e[0].code = CodeAt(s, qm, re, 0)
  BY <1>4, <1>7
<1> QED BY <1>5, <1>6, <1>9, <1>10, <1>11, <1>12 DEF Tiles

\* A transport block that fills blocks of one size is cut into these.
LEMMA EvenCut ==
  ASSUME NEW t \in Nat, NEW s, s = Segment(t), NEW k \in CbSizes, k * Blocks(t) = Cut(t)
  PROVE  s.K1 = k /\ s.C2 = 0 /\ s.F = 0
<1>1. /\ s.C = Blocks(t) /\ s.K1 \in CbSizes /\ s.K2 \in Nat
      /\ \A j \in CbSizes : j * s.C >= Cut(t) => s.K1 <= j
      /\ s.C1 \in Nat /\ s.C2 \in Nat /\ s.C1 + s.C2 = s.C
      /\ s.C2 # 0 => s.K2 < s.K1
      /\ s.F \in Nat /\ s.C1 * s.K1 + s.C2 * s.K2 = Cut(t) + s.F
  BY SegmentIs, Zenon
<1>2. PICK c \in Nat, k1 \in Nat, k2 \in Nat, c1 \in Nat, c2 \in Nat, f \in Nat, u \in Nat :
        /\ c = s.C /\ k1 = s.K1 /\ k2 = s.K2 /\ c1 = s.C1 /\ c2 = s.C2 /\ f = s.F
        /\ u = Cut(t) /\ c > 0
  <2>1. s.K1 \in Nat
    <3>1. PICK j \in CbSizes : j = s.K1
      BY <1>1
    <3>2. j \in Nat
      BY CbSizeBounds
    <3> QED BY <3>1, <3>2
  <2>2. Blocks(t) \in Nat \ {0} /\ Cut(t) \in Nat
    BY BlocksRoom
  <2>3. s.C \in Nat /\ s.C > 0
    BY <1>1, <2>2
  <2> QED BY <1>1, <2>1, <2>2, <2>3, Zenon
<1>3. k \in Nat /\ k * c = u
  BY <1>1, <1>2, CbSizesNat
<1>4. k1 <= k
  BY <1>1, <1>2, <1>3
<1>5. c1 + c2 = c /\ c1 * k1 + c2 * k2 = u + f /\ (c2 # 0 => k2 < k1)
  BY <1>1, <1>2
<1>6. c1 * k1 + c2 * k1 = c * k1
  <2>1. (c1 + c2) * k1 = c1 * k1 + c2 * k1
    <3>1. c1 \in Int /\ c2 \in Int /\ k1 \in Int
      BY <1>2
    <3> QED BY <3>1, Distribute, Zenon
  <2> QED BY <1>2, <1>5, <2>1
<1>7. c * k1 <= u
  <2>1. c * k1 <= c * k
    BY <1>2, <1>3, <1>4
  <2> QED BY <1>2, <1>3, <2>1
<1>8. CASE c2 # 0
  <2>1. c2 * k2 < c2 * k1
    BY <1>2, <1>5, <1>8
  <2>2. c1 * k1 \in Nat /\ c2 * k1 \in Nat /\ c2 * k2 \in Nat
    BY <1>2
  <2> QED BY <1>2, <1>5, <1>6, <1>7, <2>1, <2>2
<1>9. CASE c2 = 0
  <2>1. c * k1 = u + f
    BY <1>2, <1>5, <1>9
  <2>2. f = 0 /\ c * k1 = u
    BY <1>2, <1>7, <2>1
  <2>3. ~ (k1 < k)
    <3> SUFFICES ASSUME k1 < k PROVE FALSE
      OBVIOUS
    <3>1. c * k1 < c * k
      BY <1>2, <1>3
    <3> QED BY <1>2, <1>3, <2>2, <3>1
  <2> QED BY <1>2, <1>3, <1>4, <1>9, <2>2, <2>3
<1> QED BY <1>8, <1>9
---------------------------------------------------------------------------
(* The tables.                                                             *)

\* The table of bits and that of bytes agree on every transport block.
LEMMA GrantIs ==
  \A b \in 1 .. 6, m \in 0 .. 31 :
    Grant(b, m).tbs = 8 * TbSize(b, m) /\ Grant(b, m).qm \in {2, 4, 6}
BY DEF Grant, TbSize, TbsFromIdx, TbsTable, HigherMcs

\* The sizes in the table of bytes, in order.
Sizes == {
  25, 31, 41, 51, 54, 67, 69, 83, 85, 91, 99, 113, 117, 119, 133, 141, 145, 153, 169,
  173, 185, 189, 193, 201, 221, 237, 241, 249, 277, 293, 301, 309, 317, 341, 349, 365,
  373, 381, 389, 413, 437, 453, 461, 485, 509, 517, 533, 557, 581, 589, 597, 605, 613,
  629, 645, 653, 685, 701, 717, 757, 765, 791, 823, 839, 855, 903, 919, 935, 951, 967,
  983, 1015, 1031, 1047, 1063, 1111, 1159, 1175, 1191, 1207, 1223, 1239, 1303, 1319,
  1383, 1415, 1431, 1447, 1479, 1495, 1511, 1527, 1572, 1644, 1668, 1716, 1740, 1788,
  1860, 1884, 2004, 2028, 2100, 2124, 2172, 2268, 2353, 2417, 2449, 2481, 2513, 2545,
  2641, 2833, 2865, 3057, 3262, 3382, 3622, 3662, 3782, 3915, 4059, 4107, 4203, 4395,
  4680, 4904, 4960, 5016, 5072, 5240, 5413, 5861, 6053, 6234, 6810, 7327, 7567, 7647,
  7708, 8236, 8505, 10035, 10147, 10259, 10371}

\* The most code blocks of a transport block, by bandwidth.
Most == <<1, 2, 4, 7, 11, 14>>

\* The fewest REs a subframe with MCS m has, but for the one at the end of a burst.
LeastRe(b, m) == 160 * NofPrb[b] - (IF b = 1 /\ m > 28 THEN 0 ELSE 216)

\* The buffers hold the code blocks of every transport block, and these fit into the
\* REs, with an RE to spare for each.
LEMMA TableBounds ==
  \A b \in 1 .. 6, m \in 0 .. 31 :
    /\ TbSize(b, m) \in Sizes
    /\ MaxCb(b) = Most[b] /\ Most[b] \in 1 .. 14
    /\ 8 * TbSize(b, m) + 24 <= IF b = 1 THEN 6144 ELSE 6120 * Most[b]
    /\ Grant(b, m).qm * (LeastRe(b, m) - Most[b] + 1) >= 8 * TbSize(b, m) + 24
<1>1. \A b \in 1 .. 6, m \in 0 .. 31 : TbSize(b, m) \in Sizes
  BY DEF TbSize, HigherMcs, Sizes
<1>2. \A b \in 1 .. 6 : MaxCb(b) = Most[b] /\ Most[b] \in 1 .. 14
  BY DEF MaxCb, HigherMcs, TbSize, MaxLenCb, Most
<1>3. \A b \in 1 .. 6, m \in 0 .. 31 :
        8 * TbSize(b, m) + 24 <= IF b = 1 THEN 6144 ELSE 6120 * Most[b]
  BY DEF HigherMcs, TbSize, Most
<1>4. ASSUME NEW b \in 1 .. 6, NEW m \in 0 .. 31
      PROVE  Grant(b, m).qm * (LeastRe(b, m) - Most[b] + 1) >= 8 * TbSize(b, m) + 24
  <2> DEFINE r == LeastRe(b, m) - Most[b] + 1
             n == 8 * TbSize(b, m) + 24
  <2>1. IF m < 10 THEN 2 * r >= n ELSE IF m < 17 THEN 4 * r >= n ELSE 6 * r >= n
    BY DEF HigherMcs, TbSize, Most, LeastRe, NofPrb
  <2>2. Grant(b, m).qm = IF m < 10 THEN 2 ELSE IF m < 17 THEN 4 ELSE 6
    BY DEF Grant
  <2> HIDE DEF r, n
  <2>3. Grant(b, m).qm * r >= n
    BY <2>1, <2>2
  <2> QED BY <2>3 DEF r, n
<1> QED BY <1>1, <1>2, <1>3, <1>4

\* A transport block of x bytes, with its CRC and those of n blocks, and when there
\* are n.
CutInto(x, n) == 8 * x + 24 + (IF n = 1 THEN 0 ELSE 24 * n)
CutRange(x, n) ==
  /\ 8 * x + 24 <= IF n = 1 THEN 6144 ELSE 6120 * n
  /\ 8 * x + 24 > IF n = 1 THEN 0 ELSE IF n = 2 THEN 6144 ELSE 6120 * (n - 1)
IsCbSize(k) ==
  \/ 40 <= k /\ k <= 512 /\ k % 8 = 0
  \/ 512 <= k /\ k <= 1024 /\ k % 16 = 0
  \/ 1024 <= k /\ k <= 2048 /\ k % 32 = 0
  \/ 2048 <= k /\ k <= 6144 /\ k % 64 = 0

\* Every size in the table fills code blocks of one size.
LEMMA TableFills ==
  ASSUME NEW x \in Sizes, NEW n \in 1 .. 14, CutRange(x, n)
  PROVE  /\ x \in Nat
         /\ CutInto(x, n) % n = 0 /\ IsCbSize(CutInto(x, n) \div n)
<1>1. x \in Nat
  BY DEF Sizes
<1>2. CutInto(x, n) % n = 0 /\ IsCbSize(CutInto(x, n) \div n)
  BY DEF Sizes, CutRange, CutInto, IsCbSize
<1> QED BY <1>1, <1>2

\* So there is a size of code blocks that cuts it evenly.
LEMMA TableCut ==
  ASSUME NEW b \in 1 .. 6, NEW m \in 0 .. 31, NEW t, t = 8 * TbSize(b, m)
  PROVE  /\ t \in Nat /\ Blocks(t) <= MaxCb(b)
         /\ \E k \in CbSizes : k * Blocks(t) = Cut(t)
<1>1. PICK x \in Sizes : x = TbSize(b, m)
  BY TableBounds
<1>2. x \in Nat /\ t = 8 * x /\ t \in Nat
  <2>1. x \in Nat
    BY DEF Sizes
  <2> QED BY <1>1, <2>1
<1>3. PICK most \in 1 .. 14 :
        /\ most = MaxCb(b)
        /\ 8 * x + 24 <= IF b = 1 THEN 6144 ELSE 6120 * most
  BY <1>1, TableBounds
<1>4. PICK c \in Nat : c = Blocks(t) /\ c > 0
  BY <1>2, BlocksRoom
<1>5. c <= 14 /\ c <= most /\ CutRange(x, c)
  <2>1. CASE 8 * x + 24 <= 6144
    <3>1. c = 1
      BY <1>2, <1>4, <2>1 DEF Blocks
    <3> QED BY <1>2, <1>3, <2>1, <3>1 DEF CutRange
  <2>2. CASE 8 * x + 24 > 6144
    <3>1. PICK a \in Nat, n \in Nat : a = 8 * x + 24 /\ n = 6120
      BY <1>2
    <3>2. c = CeilDiv(a, n)
      BY <1>2, <1>4, <2>2, <3>1 DEF Blocks
    <3>a. n > 0
      BY <3>1
    <3>3. PICK q \in Nat, r \in 0 .. n - 1 : q = a \div n /\ r = a % n /\ a = n * q + r
      <4>1. a \div n \in Nat /\ a % n \in 0 .. n - 1 /\ a = n * (a \div n) + (a % n)
        BY <3>a, Division, Zenon
      <4> QED BY <4>1
    <3>4. c = q + (IF r = 0 THEN 0 ELSE 1)
      <4>1. CeilDiv(a, n) = a \div n + (IF a % n = 0 THEN 0 ELSE 1)
        BY <3>a, CeilIs, Zenon
      <4> QED BY <3>2, <3>3, <4>1
    <3>5. a <= 6120 * c /\ 6120 * (c - 1) < a
      <4>1. a = 6120 * q + r /\ q \in Nat /\ r \in 0 .. 6119
        BY <3>1, <3>3
      <4>2. CASE r = 0
        BY <3>4, <4>1, <4>2
      <4>3. CASE r # 0
        BY <3>4, <4>1, <4>3
      <4> QED BY <4>2, <4>3
    <3>6. c > 1 /\ a > 6144 /\ a <= 6120 * most
      BY <1>2, <1>3, <1>4, <2>2, <3>1, <3>5
    <3>7. c <= most
      BY <1>3, <1>4, <3>1, <3>5, <3>6
    <3> QED BY <1>2, <1>3, <1>4, <3>1, <3>5, <3>6, <3>7 DEF CutRange
  <2> QED BY <1>2, <2>1, <2>2
<1>6. c \in 1 .. 14
  BY <1>4, <1>5
<1>7. PICK u \in Nat : u = Cut(t) /\ u = CutInto(x, c)
  BY <1>2, <1>4 DEF Cut, CutInto
<1>8. u % c = 0 /\ IsCbSize(u \div c)
  BY <1>5, <1>6, <1>7, TableFills
<1>9. PICK k \in Nat : k = u \div c /\ u = c * k
  <2>1. u \div c \in Nat /\ u = c * (u \div c) + (u % c)
    BY <1>4, Division, Zenon
  <2> QED BY <1>4, <1>8, <2>1
<1>10. k \in CbSizes
  <2>1. IsCbSize(k)
    BY <1>8, <1>9
  <2>2. \/ k \in 40 .. 512 /\ k % 8 = 0
        \/ k \in 512 .. 1024 /\ k % 16 = 0
        \/ k \in 1024 .. 2048 /\ k % 32 = 0
        \/ k \in 2048 .. 6144 /\ k % 64 = 0
    BY <2>1 DEF IsCbSize
  <2> QED BY <2>2, CbSizeIs
<1>11. k * c = u
  BY <1>4, <1>9
<1> QED BY <1>2, <1>3, <1>4, <1>5, <1>7, <1>10, <1>11

\* A share of the REs, if they are enough for the block, holds a code block without
\* its CRC.
LEMMA ShareRoom ==
  ASSUME NEW c \in Nat, c > 0, NEW re \in Nat, NEW least \in Int, re >= least,
         NEW qm \in Nat, NEW n \in Int, NEW most \in Nat, c <= most,
         qm * (least - most + 1) >= c * n
  PROVE  qm * (re \div c) >= n
<1>1. PICK q \in Nat, r \in 0 .. c - 1 : q = re \div c /\ re = c * q + r
  BY Division
<1>2. c * q >= least - most + 1
  BY <1>1
<1>3. PICK d \in Int : d = c * q - (least - most + 1) /\ d >= 0
  BY <1>1, <1>2
<1>4. qm * (c * q) >= qm * (least - most + 1)
  <2>1. PICK w \in Int : w = least - most + 1 /\ c * q >= w
    BY <1>2
  <2>2. PICK v \in Int : v = c * q
    BY <1>1
  <2>3. qm * v >= qm * w
    BY <2>1, <2>2
  <2> QED BY <2>1, <2>2, <2>3
<1>5. c * (qm * q) >= c * n
  BY <1>1, <1>4
<1>6. PICK z \in Int : z = qm * q
  BY <1>1
<1>7. z >= n
  <2> SUFFICES ASSUME z < n PROVE FALSE
    BY <1>6
  <2>1. c * z < c * n
    BY <1>6
  <2> QED BY <1>5, <1>6, <2>1
<1> QED BY <1>1, <1>6, <1>7

\* What srslte_cbsegm makes of each transport block of the tables.
LEMMA GrantFits ==
  ASSUME NEW b \in 1 .. 6, NEW m \in 0 .. 31, NEW s, s = Segment(Grant(b, m).tbs)
  PROVE  /\ IsCut(s) /\ s.C2 = 0 /\ s.F = 0 /\ Accepted(b, s)
         /\ \A re \in Nat :
              re >= LeastRe(b, m) => Grant(b, m).qm * (re \div s.C) >= s.K1 - CrcBits(s)
<1>1. PICK t : t = 8 * TbSize(b, m) /\ t = Grant(b, m).tbs
  BY GrantIs
<1>2. t \in Nat /\ Blocks(t) <= MaxCb(b)
  BY <1>1, TableCut
<1>3. PICK k \in CbSizes : k * Blocks(t) = Cut(t)
  BY <1>1, TableCut
<1>4. s.K1 = k /\ s.C2 = 0 /\ s.F = 0
  BY <1>1, <1>2, <1>3, EvenCut
<1>5. s.C = Blocks(t)
  BY <1>1, <1>2, SegmentIs
<1>6. IsCut(s)
  BY <1>1, <1>2, SegmentCut
<1>7. Accepted(b, s)
  BY <1>2, <1>4, <1>5 DEF Accepted
<1>8. ASSUME NEW re \in Nat, re >= LeastRe(b, m)
      PROVE  Grant(b, m).qm * (re \div s.C) >= s.K1 - CrcBits(s)
  <2>1. PICK most \in Nat, qm \in Nat, least \in Int :
          /\ most = MaxCb(b) /\ qm = Grant(b, m).qm /\ least = LeastRe(b, m)
          /\ qm * (least - most + 1) >= t + 24
    <3>1. /\ MaxCb(b) = Most[b] /\ Most[b] \in 1 .. 14
          /\ Grant(b, m).qm * (LeastRe(b, m) - Most[b] + 1) >= 8 * TbSize(b, m) + 24
      BY TableBounds
    <3>2. Grant(b, m).qm \in Nat
      BY GrantIs
    <3>3. LeastRe(b, m) \in Int
      BY DEF LeastRe, NofPrb
    <3> QED BY <1>1, <3>1, <3>2, <3>3
  <2>2. PICK c \in Nat, n \in Int : c = s.C /\ c > 0 /\ c <= most /\ n = s.K1 - CrcBits(s)
    <3>1. s.C \in Nat /\ s.C > 0 /\ s.K1 \in Nat /\ CrcBits(s) \in Nat
      BY <1>6 DEF IsCut, CrcBits
    <3> QED BY <1>2, <1>5, <2>1, <3>1
  <2>3. c * n = t + 24
    <3>1. (s.C1 * s.K1 + s.C2 * s.K2) - s.C * CrcBits(s) = t + 24
      BY <1>1, <1>2, <1>4, CutEnds
    <3>2. PICK k1 \in Int, d \in Int : k1 = s.K1 /\ d = CrcBits(s) /\ n = k1 - d
      BY <1>6, <2>2 DEF IsCut, CrcBits
    <3>3. s.C1 = c /\ s.C2 = 0 /\ s.K2 \in Nat
      BY <1>4, <1>6, <2>2 DEF IsCut
    <3>4. (c * k1 + 0 * s.K2) - c * d = t + 24
      BY <2>2, <3>1, <3>2, <3>3
    <3>5. c * (k1 - d) = c * k1 - c * d
      <4>1. c \in Int /\ k1 \in Int /\ d \in Int
        BY <2>2, <3>2
      <4> QED BY <4>1, Distribute, Zenon
    <3> QED BY <2>2, <3>2, <3>3, <3>4, <3>5
  <2>4. qm * (re \div c) >= n
    <3>1. qm * (least - most + 1) >= c * n
      BY <2>1, <2>3
    <3>2. re >= least
      BY <1>8, <2>1
    <3> QED BY <2>1, <2>2, <3>1, <3>2, ShareRoom, Zenon
  <2> QED BY <2>1, <2>2, <2>4
<1> QED BY <1>4, <1>6, <1>7, <1>8
---------------------------------------------------------------------------
(* A subframe that is encoded, and decoded.                                *)

\* The REs of a subframe of bandwidth b, as they are counted and copied.
LEMMA ReIs ==
  ASSUME NEW b \in Bws, NEW sf \in {5, 6, 7}, NEW front \in BOOLEAN,
         NEW c, c = <<NofPrb[b], sf, front>>
  PROVE  /\ Counted[c] \in 0 .. 2 * Nsymb * Nre * NofPrb[b]
         /\ sf # 7 => Mapped[c] = Counted[c]
         /\ \A m \in 0 .. 31 :
              sf = 6 \/ (sf = 5 /\ ~ (b = 1 /\ m > 28)) => Counted[c] >= LeastRe(b, m)
<1>1. b \in 1 .. 6
  BY TransportBlockAssumption
<1>2. PICK p \in Nat : p = NofPrb[b] /\ p >= 7
  BY <1>1 DEF NofPrb
<1>3. c \in Cases /\ c[1] = p /\ c[2] = sf /\ c[3] = front
  <2>1. NofPrb[b] \in {NofPrb[x] : x \in Bws}
    OBVIOUS
  <2> QED BY <1>2, <2>1 DEF Cases
<1>4. /\ Counted[c] = NofRe(p, sf, front)
      /\ Mapped[c] = Cardinality(MappedRes(p, sf, front))
  BY <1>3 DEF Counted, Mapped
<1>5. Counted[c] = 160 * p - SyncRes(sf, front) - (IF sf = 7 THEN PssLen ELSE 0)
  <2>1. NofRe(p, sf, front) = 160 * p - SyncRes(sf, front) - (IF sf = 7 THEN PssLen ELSE 0)
    BY <1>2, NofRes
  <2> QED BY <1>4, <2>1
<1>6. PssLen \in 1 .. 72
  BY TransportBlockAssumption
<1>7. sf # 7 => Mapped[c] = Counted[c]
  <2> SUFFICES ASSUME sf # 7 PROVE Mapped[c] = Counted[c]
    OBVIOUS
  <2>1. sf \in {5, 6}
    OBVIOUS
  <2>2. Cardinality(MappedRes(p, sf, front)) = NofRe(p, sf, front)
    BY <1>2, <2>1, CopiedAsCounted, Zenon
  <2> QED BY <1>4, <2>2
<1>8. Counted[c] \in 0 .. 168 * p
  BY <1>2, <1>5, <1>6 DEF SyncRes
<1>9. ASSUME NEW m \in 0 .. 31, sf = 6 \/ (sf = 5 /\ ~ (b = 1 /\ m > 28))
      PROVE  Counted[c] >= LeastRe(b, m)
  BY <1>2, <1>5, <1>9 DEF SyncRes, LeastRe
<1>10. 2 * Nsymb * Nre * NofPrb[b] = 168 * p
  BY <1>2 DEF Nsymb, Nre
<1> QED BY <1>7, <1>8, <1>9, <1>10

\* Both sides cut alike, but for one share that the decoder takes shorter.
LEMMA PiecesAlike ==
  ASSUME NEW s, IsCut(s), s.C2 = 0, NEW qm \in Nat, NEW re \in Nat,
         NEW e, e = EncodedPieces(s, qm, re), NEW d, d = DecodedPieces(s, qm, re),
         NEW i \in 0 .. s.C - 1
  PROVE  /\ i # s.C - (re % s.C) => d[i] = e[i]
         /\ i = s.C - (re % s.C) => d[i] = [e[i] EXCEPT !.codeEnd = @ - qm]
<1>1. e[i] = Piece(DataAt(s, i), DataBits(s, i), CodeAt(s, qm, re, i), CodeBits(s, qm, re, i))
  <2>1. e = [j \in 0 .. s.C - 1 |->
              Piece(DataAt(s, j), DataBits(s, j), CodeAt(s, qm, re, j), CodeBits(s, qm, re, j))]
    BY EncodedIs, Zenon
  <2> QED BY <2>1
<1>2. d[i] = Piece(DataAt(s, i), DataBits(s, i), CodeAt(s, qm, re, i),
               IF i = s.C - (re % s.C) THEN qm * (re \div s.C) ELSE CodeBits(s, qm, re, i))
  BY DecodedIs
<1>3. CASE i # s.C - (re % s.C)
  BY <1>1, <1>2, <1>3
<1>4. CASE i = s.C - (re % s.C)
  <2>1. PICK c \in Nat, q \in Nat, r \in Nat :
          c = s.C /\ c > 0 /\ q = re \div c /\ r = re % c
    <3>1. s.C \in Nat /\ s.C > 0
      BY DEF IsCut
    <3>2. re \div s.C \in Nat /\ re % s.C \in 0 .. s.C - 1
      BY <3>1, Division
    <3> QED BY <3>1, <3>2
  <2>2. CodeBits(s, qm, re, i) = qm * (q + 1)
    BY <1>4, <2>1 DEF CodeBits
  <2>3. qm * (q + 1) = qm * q + qm
    BY <2>1
  <2>4. PICK a \in Nat : a = CodeAt(s, qm, re, i)
    BY CodeStep
  <2>5. d[i] = Piece(DataAt(s, i), DataBits(s, i), a, qm * q)
    BY <1>2, <1>4, <2>1, <2>4
  <2>6. e[i] = Piece(DataAt(s, i), DataBits(s, i), a, qm * q + qm)
    BY <1>1, <2>2, <2>3, <2>4
  <2>7. (a + (qm * q + qm)) - qm = a + qm * q
    BY <2>1
  <2>8. [e[i] EXCEPT !.codeEnd = @ - qm] = d[i]
    BY <2>5, <2>6, <2>7 DEF Piece
  <2> QED BY <1>4, <2>8
<1> QED BY <1>3, <1>4

\* A block is found again if its share has room for it.
LEMMA PiecesRecovered ==
  ASSUME NEW s, IsCut(s), s.C2 = 0, NEW qm \in Nat, NEW re \in Nat,
         qm * (re \div s.C) >= s.K1 - CrcBits(s),
         NEW e, e = EncodedPieces(s, qm, re), NEW d, d = DecodedPieces(s, qm, re)
  PROVE  /\ DOMAIN d = DOMAIN e
         /\ \A i \in DOMAIN d : Recovered(d[i], e[i])
<1>1. DOMAIN d = 0 .. s.C - 1 /\ DOMAIN e = 0 .. s.C - 1
  <2>1. DOMAIN e = 0 .. s.C - 1
    BY EncodedIs
  <2>2. DOMAIN d = 0 .. s.C - 1
    BY DEF DecodedPieces
  <2> QED BY <2>1, <2>2
<1>2. e = [i \in 0 .. s.C - 1 |->
             Piece(DataAt(s, i), DataBits(s, i), CodeAt(s, qm, re, i), CodeBits(s, qm, re, i))]
  BY EncodedIs, Zenon
<1>3. ASSUME NEW i \in 0 .. s.C - 1
      PROVE  d[i] = Piece(DataAt(s, i), DataBits(s, i), CodeAt(s, qm, re, i),
                      IF i = s.C - (re % s.C) THEN qm * (re \div s.C)
                      ELSE CodeBits(s, qm, re, i))
  BY DecodedIs
<1>4. ASSUME NEW i \in 0 .. s.C - 1 PROVE Recovered(d[i], e[i])
  <2>1. PICK c \in Nat, q \in Nat, r \in Nat, k \in Int :
          /\ c = s.C /\ c > 0 /\ q = re \div c /\ r = re % c
          /\ k = s.K1 - CrcBits(s) /\ qm * q >= k
    <3>1. s.C \in Nat /\ s.C > 0 /\ s.K1 \in Nat /\ CrcBits(s) \in Nat
      BY DEF IsCut, CrcBits
    <3>2. re \div s.C \in Nat /\ re % s.C \in 0 .. s.C - 1
      BY <3>1, Division
    <3> QED BY <3>1, <3>2
  <2>2. PICK a \in Int, n \in Int, w \in Nat, l \in Nat :
          /\ a = DataAt(s, i) /\ n = DataBits(s, i)
          /\ w = CodeAt(s, qm, re, i) /\ l = CodeBits(s, qm, re, i)
    <3>1. DataBits(s, i) \in Int /\ DataAt(s, i) \in Int
      BY DataStep, Zenon
    <3>2. CodeBits(s, qm, re, i) \in Nat /\ CodeAt(s, qm, re, i) \in Nat
      BY CodeStep, Zenon
    <3> QED BY <3>1, <3>2
  <2>3. n = k
    BY <2>1, <2>2 DEF DataBits, IsCut
  <2>4. PICK v \in Nat : v = qm * q /\ v + qm = qm * (q + 1)
    BY <2>1
  <2>5. l = v \/ l = v + qm
    <3>1. l = qm * (q + (IF i < c - r THEN 0 ELSE 1))
      BY <2>1, <2>2 DEF CodeBits
    <3>2. CASE i < c - r
      BY <2>1, <2>4, <3>1, <3>2
    <3>3. CASE ~ (i < c - r)
      BY <2>1, <2>4, <3>1, <3>3
    <3> QED BY <3>2, <3>3
  <2>6. e[i] = Piece(a, n, w, l)
    <3>1. e[i] = Piece(DataAt(s, i), DataBits(s, i), CodeAt(s, qm, re, i),
                       CodeBits(s, qm, re, i))
      BY <1>2
    <3> QED BY <2>2, <3>1
  <2>7. d[i] = Piece(a, n, w, IF i = c - r THEN v ELSE l)
    <3>1. d[i] = Piece(DataAt(s, i), DataBits(s, i), CodeAt(s, qm, re, i),
                   IF i = s.C - (re % s.C) THEN qm * (re \div s.C)
                   ELSE CodeBits(s, qm, re, i))
      BY <1>3
    <3>2. s.C - (re % s.C) = c - r /\ qm * (re \div s.C) = v
      BY <2>1, <2>4
    <3> QED BY <2>2, <3>1, <3>2
  <2> QED BY <2>1, <2>2, <2>3, <2>4, <2>5, <2>6, <2>7 DEF Recovered, Piece
<1> QED BY <1>1, <1>4
---------------------------------------------------------------------------
(* The two loops.                                                          *)

\* The indices: those of the Tx thread and of the subframe on the air, and that of
\* the Rx thread, which lags by one until it decodes.
Indices ==
  /\ cnt = 0 => pc = "encode" /\ txSf = 5 /\ rxSf = 9
  /\ cnt > 0 => txSf \in {6, 7} /\ IF cnt = 1 THEN tx.sf = 5 ELSE tx.sf \in {6, 7}
  /\ cnt > 0 /\ pc = "decode" =>
       rxSf = IF cnt = 1 THEN 9 ELSE IF cnt = 2 THEN 5 ELSE 6
  /\ cnt > 0 /\ pc # "decode" => rxSf = IF cnt = 1 THEN 5 ELSE 6

\* The subframe on the air.
OnAir ==
  IF cnt = 0 THEN tx = NoSubframe
  ELSE /\ tx.mcs = TxMcs(cnt)
       /\ tx.re = Counted[<<NofPrb[bw], tx.sf, sch>>]

Typed ==
  /\ bw \in Bws /\ mcs \in Mcss /\ sch \in BOOLEAN /\ eobPss \in BOOLEAN
  /\ nof \in 1 .. MaxNof /\ cnt \in 0 .. nof
  /\ pc \in {"encode", "decode", "end"} /\ (pc = "decode" => cnt > 0)
  /\ got \in Nat

\* The inductive invariant.
Inv == Typed /\ Indices /\ OnAir /\ Delivered

\* The tables have the bandwidths and the MCSs.
LEMMA InTables ==
  ASSUME Typed
  PROVE  /\ bw \in Bws /\ bw \in 1 .. 6 /\ mcs \in 0 .. 31
         /\ \A n \in Nat : TxMcs(n) \in 0 .. 31
<1>1. bw \in Bws /\ bw \in 1 .. 6 /\ mcs \in 0 .. 31
  BY TransportBlockAssumption DEF Typed
<1>2. \A n \in Nat : TxMcs(n) \in 0 .. 31
  BY <1>1 DEF TxMcs, FirstMcsLimit
<1> QED BY <1>1, <1>2

\* A subframe that the decoder takes for what it is, and that is not the one with the
\* PSS at the end, is found.
LEMMA FoundAll ==
  ASSUME NEW b \in Bws, b = bw, NEW m \in 0 .. 31, tx.mcs = m, NEW sf \in {5, 6},
         tx.sf = sf, sch \in BOOLEAN, sf = 5 => ~ (b = 1 /\ m > 28),
         tx.re = Counted[<<NofPrb[b], sf, sch>>]
  PROVE  Found(sf, m)
<1>1. b \in 1 .. 6
  BY TransportBlockAssumption
<1>2. PICK re \in Nat : re = tx.re /\ re >= LeastRe(b, m)
                        /\ Mapped[<<NofPrb[b], sf, sch>>] = re
                        /\ Counted[<<NofPrb[b], sf, sch>>] = re
  <2>1. PICK c : c = <<NofPrb[b], sf, sch>>
    OBVIOUS
  <2>2. sf \in {5, 6, 7} /\ sf # 7
    OBVIOUS
  <2>3. Counted[c] \in 0 .. 2 * Nsymb * Nre * NofPrb[b]
    BY <2>1, <2>2, ReIs
  <2>4. Mapped[c] = Counted[c]
    BY <2>1, <2>2, ReIs
  <2>5. \A k \in 0 .. 31 :
          sf = 6 \/ (sf = 5 /\ ~ (b = 1 /\ k > 28)) => Counted[c] >= LeastRe(b, k)
    BY <2>1, <2>2, ReIs
  <2>6. Counted[c] >= LeastRe(b, m)
    BY <2>5
  <2>7. Counted[c] \in Nat
    BY <2>3
  <2> QED BY <2>1, <2>4, <2>6, <2>7
<1>3. PICK s : s = Segment(Grant(b, m).tbs)
  OBVIOUS
<1>4. /\ IsCut(s) /\ s.C2 = 0 /\ Accepted(b, s)
      /\ Grant(b, m).qm * (re \div s.C) >= s.K1 - CrcBits(s)
  <2>1. IsCut(s) /\ s.C2 = 0 /\ Accepted(b, s)
    BY <1>1, <1>3, GrantFits, Zenon
  <2>2. \A x \in Nat :
          x >= LeastRe(b, m) => Grant(b, m).qm * (x \div s.C) >= s.K1 - CrcBits(s)
    BY <1>1, <1>3, GrantFits, Zenon
  <2> QED BY <1>2, <2>1, <2>2
<1>5. PICK qm \in Nat : qm = Grant(b, m).qm
  BY <1>1, GrantIs
<1>6. PICK e, d : e = EncodedPieces(s, qm, re) /\ d = DecodedPieces(s, qm, re)
  OBVIOUS
<1>7. DOMAIN d = DOMAIN e /\ \A i \in DOMAIN d : Recovered(d[i], e[i])
  <2>1. qm * (re \div s.C) >= s.K1 - CrcBits(s)
    BY <1>4, <1>5
  <2> QED BY <1>4, <1>6, <2>1, PiecesRecovered
<1> QED BY <1>2, <1>3, <1>4, <1>5, <1>6, <1>7 DEF Found

\* What has been sent is what the tables have.
LEMMA Fitting ==
  ASSUME Typed, NEW n \in Nat, NEW m, m = TxMcs(n)
  PROVE  Accepted(bw, Segment(Grant(bw, m).tbs))
<1>1. bw \in 1 .. 6 /\ m \in 0 .. 31
  BY InTables
<1> QED BY <1>1, GrantFits, Zenon

\* The invariant holds before the first subframe.
LEMMA InitInv == Init => Inv
<1> SUFFICES ASSUME Init PROVE Inv
  OBVIOUS
<1>1. Typed
  BY TransportBlockAssumption DEF Init, Typed
<1>2. Indices /\ OnAir /\ Delivered
  BY DEF Init, Indices, OnAir, Delivered, Decoded, InitialSf
<1> QED BY <1>1, <1>2 DEF Inv

\* It holds of a subframe that is encoded: nothing is refused.
LEMMA EncodeInv ==
  ASSUME Inv, Encode
  PROVE  Inv'
<1>1. Typed /\ Indices /\ OnAir
  BY DEF Inv
<1>2. PICK crc \in {0, 1}, ok \in BOOLEAN :
        /\ tx' = [sf |-> txSf, mcs |-> TxMcs(cnt'), re |-> Counted[<<NofPrb[bw], txSf, sch>>],
                  crc |-> crc, refused |-> ~ok]
        /\ ok = Accepted(bw, Segment(Grant(bw, TxMcs(cnt')).tbs))
        /\ pc' = IF ok THEN "decode" ELSE "end"
  BY Zenon DEF Encode, Accepted
<1>3. /\ pc = "encode" /\ cnt < nof /\ cnt' = cnt + 1
      /\ txSf' = IF eobPss /\ cnt' = nof - 1 THEN 7 ELSE 6
      /\ got' = 0
      /\ bw' = bw /\ mcs' = mcs /\ sch' = sch /\ eobPss' = eobPss /\ nof' = nof
      /\ rxSf' = rxSf
  BY DEF Encode, burst, InitialSf
<1>4. cnt \in Nat /\ cnt' \in Nat /\ cnt' > 0 /\ cnt' \in 0 .. nof /\ nof \in Nat
  BY <1>1, <1>3 DEF Typed
<1>5. ok
  BY <1>1, <1>2, <1>4, Fitting
<1>6. pc' = "decode"
  BY <1>2, <1>5
<1>7. Typed'
  BY <1>1, <1>3, <1>4, <1>6 DEF Typed
<1>8. Indices'
  <2>1. tx'.sf = txSf
    BY <1>2
  <2>2. CASE cnt = 0
    BY <1>1, <1>3, <1>4, <1>6, <2>1, <2>2 DEF Indices
  <2>3. CASE cnt > 0
    BY <1>1, <1>3, <1>4, <1>6, <2>1, <2>3 DEF Indices
  <2> QED BY <1>4, <2>2, <2>3
<1>9. OnAir'
  <2>1. TxMcs(cnt)' = TxMcs(cnt')
    BY <1>3 DEF TxMcs
  <2> QED BY <1>2, <1>3, <1>4, <2>1 DEF OnAir
<1>10. Delivered'
  BY <1>6 DEF Delivered, Decoded
<1> QED BY <1>7, <1>8, <1>9, <1>10 DEF Inv

\* It holds of a subframe that is decoded: the indices and the MCS agree.
LEMMA DecodeInv ==
  ASSUME Inv, Decode
  PROVE  Inv'
<1>1. Typed /\ Indices /\ OnAir
  BY DEF Inv
<1>2. /\ pc = "decode" /\ rxSf' = RxSubframe
      /\ got' = IF Found(rxSf', RxMcs) /\ tx.crc # 0 THEN Grant(bw, RxMcs).tbs ELSE 0
      /\ pc' = IF cnt < nof THEN "encode" ELSE "end"
      /\ bw' = bw /\ mcs' = mcs /\ sch' = sch /\ eobPss' = eobPss /\ nof' = nof
      /\ cnt' = cnt /\ txSf' = txSf /\ tx' = tx
  BY DEF Decode, burst
<1>3. cnt \in Nat /\ cnt > 0
  BY <1>1, <1>2 DEF Typed
<1>4. rxSf' = IF cnt = 1 THEN 5 ELSE 6
  BY <1>1, <1>2, <1>3 DEF Indices, RxSubframe, InitialSf
<1>5. RxMcs = TxMcs(cnt)
  BY <1>3, <1>4 DEF RxMcs, TxMcs, InitialSf
<1>6. bw \in Bws /\ bw \in 1 .. 6 /\ mcs \in 0 .. 31 /\ TxMcs(cnt) \in 0 .. 31
  BY <1>1, <1>3, InTables
<1>7. Grant(bw, RxMcs).tbs = 8 * TbSize(bw, TxMcs(cnt)) /\ Grant(bw, RxMcs).tbs \in Nat
  <2>1. Grant(bw, RxMcs).tbs = 8 * TbSize(bw, TxMcs(cnt))
    BY <1>5, <1>6, GrantIs
  <2>2. 8 * TbSize(bw, TxMcs(cnt)) \in Nat
    BY <1>6, TableCut
  <2> QED BY <2>1, <2>2
<1>8. Typed'
  BY <1>1, <1>2, <1>7 DEF Typed
<1>9. Indices'
  BY <1>1, <1>2, <1>3, <1>4 DEF Indices
<1>10. OnAir'
  <2>1. TxMcs(cnt)' = TxMcs(cnt)
    BY <1>2 DEF TxMcs
  <2> QED BY <1>1, <1>2, <2>1 DEF OnAir
<1>11. Delivered'
  <2> SUFFICES ASSUME tx.sf # 7, tx.crc # 0 PROVE got' = 8 * TbSize(bw, TxMcs(cnt))
    <3>1. TxMcs(cnt)' = TxMcs(cnt)
      BY <1>2 DEF TxMcs
    <3> QED BY <1>2, <3>1 DEF Delivered
  <2>1. tx.sf = rxSf' /\ rxSf' \in {5, 6}
    BY <1>1, <1>3, <1>4 DEF Indices
  <2>2. tx.mcs = TxMcs(cnt) /\ tx.re = Counted[<<NofPrb[bw], rxSf', sch>>]
    BY <1>1, <1>3, <2>1 DEF OnAir
  <2>3. rxSf' = 5 => ~ (bw = 1 /\ TxMcs(cnt) > 28)
    BY <1>3, <1>4, <1>6 DEF TxMcs, OneDotFour, FirstMcsLimit
  <2>4. sch \in BOOLEAN
    BY <1>1 DEF Typed
  <2>5. Found(rxSf', TxMcs(cnt))
    <3>1. PICK b \in Bws, m \in 0 .. 31, sf \in {5, 6} :
            b = bw /\ m = TxMcs(cnt) /\ sf = rxSf'
      BY <1>6, <2>1
    <3>2. tx.mcs = m /\ tx.sf = sf /\ (sf = 5 => ~ (b = 1 /\ m > 28))
          /\ tx.re = Counted[<<NofPrb[b], sf, sch>>]
      BY <2>1, <2>2, <2>3, <3>1
    <3>3. Found(sf, m)
      BY <2>4, <3>1, <3>2, FoundAll, Zenon
    <3> QED BY <3>1, <3>3
  <2> QED BY <1>2, <1>5, <1>7, <2>5
<1> QED BY <1>8, <1>9, <1>10, <1>11 DEF Inv

\* So every step keeps it.
LEMMA NextInv == Inv /\ [Next]_vars => Inv'
<1> SUFFICES ASSUME Inv, [Next]_vars PROVE Inv'
  OBVIOUS
<1>1. CASE Encode
  BY <1>1, EncodeInv
<1>2. CASE Decode
  BY <1>2, DecodeInv
<1>3. CASE UNCHANGED vars
  BY <1>3 DEF vars, burst, Inv, Typed, Indices, OnAir, Delivered, Decoded, TxMcs
<1> QED BY <1>1, <1>2, <1>3 DEF Next

\* And it always holds.
LEMMA Invariant == Spec => []Inv
BY InitInv, NextInv, PTL DEF Spec
---------------------------------------------------------------------------
(* The properties.                                                         *)

\* The REs of the subframe on the air.
LEMMA OnAirRe ==
  ASSUME Inv, cnt > 0
  PROVE  tx.re \in 0 .. 2 * Nsymb * Nre * NofPrb[bw] /\ tx.re \in Nat
<1>1. Typed /\ Indices /\ OnAir
  BY DEF Inv
<1>2. bw \in Bws /\ sch \in BOOLEAN /\ cnt \in Nat
  BY <1>1 DEF Typed
<1>3. tx.re = Counted[<<NofPrb[bw], tx.sf, sch>>] /\ tx.sf \in {5, 6, 7}
  BY <1>1, <1>2 DEF OnAir, Indices
<1>4. PICK sf \in {5, 6, 7} : sf = tx.sf
  BY <1>3
<1>5. PICK c : c = <<NofPrb[bw], sf, sch>>
  BY Zenon
<1>6. Counted[c] \in 0 .. 2 * Nsymb * Nre * NofPrb[bw]
  BY <1>2, <1>5, ReIs
<1>7. Counted[c] \in Nat
  BY <1>6
<1> QED BY <1>3, <1>4, <1>5, <1>6, <1>7

(***************************************************************************)
(* Types: in particular the indices of the two threads, and that the REs   *)
(* counted are no more than a subframe of the bandwidth has.               *)
(***************************************************************************)
THEOREM TypeCorrect == Spec => []TypeOK
<1>1. Inv => TypeOK
  <2> SUFFICES ASSUME Inv PROVE TypeOK
    OBVIOUS
  <2>1. Typed /\ Indices /\ OnAir
    BY DEF Inv
  <2>2. cnt \in Nat /\ bw \in Bws /\ bw \in 1 .. 6
    BY <2>1, InTables DEF Typed
  <2>3. txSf \in {5, 6, 7} /\ rxSf \in (IF cnt <= 1 THEN {5, 9} ELSE {5, 6})
    BY <2>1, <2>2 DEF Typed, Indices
  <2>4. tx.re \in 0 .. 2 * Nsymb * Nre * NofPrb[bw]
    <3>1. CASE cnt = 0
      <4>1. tx.re = 0
        BY <2>1, <3>1 DEF OnAir, NoSubframe
      <4>2. 2 * Nsymb * Nre * NofPrb[bw] \in Nat
        BY <2>2 DEF Nsymb, Nre, NofPrb
      <4> QED BY <4>1, <4>2
    <3>2. CASE cnt > 0
      BY <3>2, OnAirRe
    <3> QED BY <2>2, <3>1, <3>2
  <2> QED BY <2>1, <2>3, <2>4 DEF TypeOK, Typed
<1> QED BY <1>1, Invariant, PTL

(***************************************************************************)
(* Two size tables, two counts of REs, two ways of taking the pieces and   *)
(* two rules for the first MCS agree, whatever the bandwidth, the MCS, the *)
(* second SCH and the length of the burst: a subframe that does not carry  *)
(* the PSS of the end of the burst and whose block does not have the CRC 0 *)
(* is decoded, and to exactly the bytes the MAC put there.                 *)
(***************************************************************************)
THEOREM BlocksDelivered == Spec => []Delivered
<1>1. Inv => Delivered
  BY DEF Inv
<1> QED BY <1>1, Invariant, PTL

(***************************************************************************)
(* encode_tb_off cuts every transport block into whole bytes, without gap  *)
(* or overlap, and fills the REs counted; decode_tb_cb looks for each code *)
(* block where it is, leaving out the code bits of one RE of one block at  *)
(* most.  Of a subframe at the end of a burst too.                         *)
(***************************************************************************)
THEOREM CutAlike == Spec => []PiecesMatch
<1>1. Inv => PiecesMatch
  <2> SUFFICES ASSUME Inv, pc = "decode" PROVE PiecesMatch
    BY DEF PiecesMatch, PiecesTile, PiecesFound
  <2>1. Typed /\ Indices /\ OnAir
    BY DEF Inv
  <2>2. cnt \in Nat /\ cnt > 0
    BY <2>1 DEF Typed
  <2>3. bw \in 1 .. 6 /\ tx.mcs \in 0 .. 31
    <3>1. bw \in 1 .. 6 /\ TxMcs(cnt) \in 0 .. 31
      BY <2>1, <2>2, InTables
    <3> QED BY <2>1, <2>2, <3>1 DEF OnAir
  <2>4. PICK t, s : t = Grant(bw, tx.mcs).tbs /\ s = Segment(t)
    OBVIOUS
  <2>5. t \in Nat
    <3>1. t = 8 * TbSize(bw, tx.mcs)
      BY <2>3, <2>4, GrantIs
    <3> QED BY <2>3, <3>1, TableCut
  <2>6. IsCut(s) /\ s.C2 = 0 /\ s.F = 0
    BY <2>3, <2>4, GrantFits, Zenon
  <2>7. PICK qm \in Nat : qm = Grant(bw, tx.mcs).qm
    BY <2>3, GrantIs
  <2>8. PICK re \in Nat : re = tx.re
    <3>1. tx.re \in Nat
      BY <2>2, OnAirRe
    <3> QED BY <3>1
  <2>9. PICK e, d : e = EncodedPieces(s, qm, re) /\ d = DecodedPieces(s, qm, re)
    OBVIOUS
  <2>10. PiecesTile
    <3>1. Tiles(e, s.C, t + 24, qm * re)
      BY <2>4, <2>5, <2>6, <2>9, EncoderTiles, Zenon
    <3> QED BY <2>4, <2>7, <2>8, <2>9, <3>1, Zenon DEF PiecesTile, Tiles
  <2>11. PiecesFound
    <3> DEFINE last  == s.C - (re % s.C)
               short == {i \in 0 .. s.C - 1 : d[i] # e[i]}
    <3>1. ASSUME NEW i \in 0 .. s.C - 1
          PROVE  (i # last => d[i] = e[i])
                 /\ (i = last => d[i] = [e[i] EXCEPT !.codeEnd = @ - qm])
      BY <2>6, <2>9, PiecesAlike
    <3>2. short \subseteq {last}
      BY <3>1, Zenon
    <3>3. Cardinality(short) <= 1
      <4> HIDE DEF short, last
      <4>1. short = {} \/ short = {last}
        BY <3>2
      <4>2. Cardinality({}) = 0 /\ Cardinality({last}) = 1
        BY FS_EmptySet, FS_Singleton
      <4> QED BY <4>1, <4>2
    <3>4. \A i \in short : d[i] = [e[i] EXCEPT !.codeEnd = @ - qm]
      BY <3>1
    <3> QED BY <2>4, <2>7, <2>8, <2>9, <3>3, <3>4, Zenon DEF PiecesFound
  <2> QED BY <2>10, <2>11 DEF PiecesMatch
<1> QED BY <1>1, Invariant, PTL
=============================================================================

------------------------- MODULE BdtunListingProofs -------------------------
(***************************************************************************)
(* Proofs about BdtunListing, for any number of devices, any lengths of    *)
(* their names and any limits of a page.                                   *)
(***************************************************************************)
EXTENDS BdtunListing, ListFacts

-----------------------------------------------------------------------------
(* The bytes of no name and of one name. *)

\* What the fold of a list of numbers is computed by.
Sums(s, f) ==
  f = [S \in SUBSET DOMAIN s |->
         IF S = {} THEN 0 ELSE f[S \ {Max(S)}] + s[Max(S)]]

LEMMA FoldBySums ==
  ASSUME NEW s
  PROVE  FoldLeft(+, 0, s) = (CHOOSE f : Sums(s, f))[DOMAIN s]
BY DEF FoldLeft, MapThenFoldSet, Sums

LEMMA FoldOfNone ==
  ASSUME NEW s, DOMAIN s = {}
  PROVE  FoldLeft(+, 0, s) = 0
<1> DEFINE g == [S \in SUBSET DOMAIN s |-> 0]
<1>1. Sums(s, g)
  <2>1. \A S \in SUBSET DOMAIN s : S = {}
    OBVIOUS
  <2> QED BY <2>1 DEF Sums
<1> HIDE DEF g
<1>2. PICK f : f = (CHOOSE h : Sums(s, h)) /\ Sums(s, f)
  BY <1>1
<1>3. f[DOMAIN s] = 0
  BY <1>2 DEF Sums
<1> QED BY <1>2, <1>3, FoldBySums

LEMMA FoldOfOne ==
  ASSUME NEW s, DOMAIN s = {1}, s[1] \in Int
  PROVE  FoldLeft(+, 0, s) = s[1]
<1>0. Max({1}) = 1 /\ {1} \ {1} = {} /\ {1} # {}
  BY DEF Max
<1> DEFINE g == [S \in SUBSET DOMAIN s |-> IF S = {} THEN 0 ELSE s[1]]
<1>1. Sums(s, g)
  <2>1. \A S \in SUBSET DOMAIN s : S = {} \/ S = {1}
    OBVIOUS
  <2>2. {} \in SUBSET DOMAIN s
    OBVIOUS
  <2>3. g[{} ] = 0
    BY <2>2
  <2>4. 0 + s[1] = s[1]
    OBVIOUS
  <2> DEFINE rhs(S) == IF S = {} THEN 0 ELSE g[S \ {Max(S)}] + s[Max(S)]
  <2>5. rhs({1}) = s[1]
    <3> HIDE DEF g
    <3> QED BY <1>0, <2>3, <2>4
  <2>6. \A S \in SUBSET DOMAIN s : (IF S = {} THEN 0 ELSE s[1]) = rhs(S)
    <3> SUFFICES ASSUME NEW S \in SUBSET DOMAIN s
                 PROVE  (IF S = {} THEN 0 ELSE s[1]) = rhs(S)
      OBVIOUS
    <3>1. CASE S = {}
      BY <3>1
    <3>2. CASE S = {1}
      <4> HIDE DEF rhs
      <4> QED BY <3>2, <2>5, <1>0
    <3> QED BY <2>1, <3>1, <3>2
  <2>7. g = [S \in SUBSET DOMAIN s |-> rhs(S)]
    <3> HIDE DEF rhs
    <3> QED BY <2>6
  <2> QED BY <2>7 DEF Sums
<1> HIDE DEF g
<1>2. PICK f : f = (CHOOSE h : Sums(s, h)) /\ Sums(s, f)
  BY <1>1
<1>3. {} \in SUBSET DOMAIN s /\ {1} \in SUBSET DOMAIN s
  OBVIOUS
<1>4. f[{}] = 0
  BY <1>2, <1>3 DEF Sums
<1>5. f[{1}] = f[{1} \ {Max({1})}] + s[Max({1})]
  BY <1>0, <1>2, <1>3 DEF Sums
<1>6. f[{1}] = s[1]
  BY <1>0, <1>4, <1>5
<1> QED BY <1>2, <1>6, FoldBySums

\* The greatest element of a set of numbers that has a bound is in the set.
LEMMA MaxIsMember ==
  ASSUME NEW n \in Nat, NEW K \in SUBSET (0 .. n), K # {}
  PROVE  Max(K) \in K /\ \A k \in K : k <= Max(K)
<1> DEFINE T == {n - k : k \in K}
           R == {p \in Nat \X Nat : p[1] < p[2]}
<1>0. \A k \in K : k \in Int /\ 0 <= k /\ k <= n
  OBVIOUS
<1>1. T # {} /\ T \in SUBSET Nat
  <2>1. \A k \in K : n - k \in Nat
    BY <1>0
  <2> QED BY <2>1
<1>2. IsWellFoundedOn(R, Nat)
  BY NatLessThanWellFounded DEF OpToRel
<1>3. PICK t \in T : \A u \in T : ~(<<u, t>> \in R)
  <2> HIDE DEF R, T
  <2> QED BY <1>1, <1>2, WFMin
<1>4. \A u \in T : t <= u
  <2> SUFFICES ASSUME NEW u \in T PROVE t <= u
    OBVIOUS
  <2>1. u \in Nat /\ t \in Nat /\ <<u, t>> \notin R
    BY <1>1, <1>3
  <2>2. ~(u < t)
    BY <2>1, Zenon
  <2> QED BY <2>1, <2>2
<1>5. PICK x \in K : t = n - x
  OBVIOUS
<1>6. ASSUME NEW k \in K PROVE k <= x
  <2>1. n - x <= n - k
    BY <1>4, <1>5
  <2>2. k \in Int /\ x \in Int
    BY <1>0
  <2> QED BY <2>1, <2>2
<1>7. x \in K /\ \A k \in K : x >= k
  BY <1>6
<1> HIDE DEF T
<1>8. Max(K) \in K /\ \A k \in K : Max(K) >= k
  BY <1>7 DEF Max
<1> QED BY <1>8
-----------------------------------------------------------------------------
(* A page. *)

LEMMA Limits ==
  /\ ResponseSize \in Nat /\ DevNames \in Nat /\ MaxDevices \in Nat /\ MostDevices \in Nat
  /\ \A n \in Sizes : n \in Nat /\ n <= ResponseSize
<1>1. ResponseSize \in Nat /\ DevNames \in Nat /\ MaxDevices \in Nat /\ MostDevices \in Nat
  BY ListingAssumption
<1>2. \A n \in Sizes : n \in 1 .. ResponseSize
  BY ListingAssumption
<1> QED BY <1>1, <1>2

LEMMA BytesOfNone ==
  ASSUME NEW o \in Nat, sizes \in Seq(Sizes)
  PROVE  Bytes(o, 0) = 0
<1>1. SubSeq(sizes, o + 1, o + 0) = <<>>
  OBVIOUS
<1>2. DOMAIN <<>> = {}
  OBVIOUS
<1> QED BY <1>1, <1>2, FoldOfNone DEF Bytes

LEMMA BytesOfOne ==
  ASSUME NEW o \in Nat, sizes \in Seq(Sizes), o < Len(sizes)
  PROVE  Bytes(o, 1) = sizes[o + 1] /\ sizes[o + 1] \in Sizes
<1> DEFINE s == SubSeq(sizes, o + 1, o + 1)
<1>1. o + 1 \in 1 .. Len(sizes) /\ sizes[o + 1] \in Sizes
  OBVIOUS
<1>2. DOMAIN s = {1} /\ s[1] = sizes[o + 1]
  BY <1>1
<1> HIDE DEF s
<1>3. s[1] \in Int
  BY <1>1, <1>2, Limits
<1>4. FoldLeft(+, 0, s) = s[1]
  BY <1>2, <1>3, FoldOfOne
<1> QED BY <1>1, <1>2, <1>4 DEF Bytes, s

\* A page has no more names than there are left, and none only if none is left.
LEMMA PageProperties ==
  ASSUME NEW o \in Nat, sizes \in Seq(Sizes), o <= Len(sizes)
  PROVE  /\ PageFrom(o) \in 0 .. Len(sizes) - o
         /\ PageFrom(o) = 0 => o = Len(sizes)
<1> DEFINE L == {Len(sizes) - o, MaxDevices + 1, DevNames + 1}
           limit == Min(L)
           K == {k \in 0 .. limit : Bytes(o, k) <= ResponseSize}
<1>1. MaxDevices \in Nat /\ DevNames \in Nat /\ ResponseSize \in Nat /\ Len(sizes) \in Nat
  BY Limits
<1>2. L \in SUBSET Nat /\ L # {}
  BY <1>1
<1>3. limit \in L
  <2> HIDE DEF L
  <2> QED BY <1>2, MinIsMember
<1>4. limit <= Len(sizes) - o
  <2>1. PICK x \in L : \A y \in L : x <= y
    BY <1>1
  <2>2. \A y \in L : Min(L) <= y
    <3> HIDE DEF L
    <3> QED BY <2>1 DEF Min
  <2> QED BY <2>2
<1>5. limit \in Nat /\ (o < Len(sizes) => limit >= 1)
  <2> HIDE DEF limit
  <2> QED BY <1>1, <1>3
<1> HIDE DEF limit
<1>6. 0 \in K
  BY <1>1, <1>5, BytesOfNone
<1>7. o < Len(sizes) => 1 \in K
  <2> SUFFICES ASSUME o < Len(sizes) PROVE 1 \in K
    OBVIOUS
  <2>1. Bytes(o, 1) <= ResponseSize
    BY BytesOfOne, Limits
  <2> QED BY <1>5, <2>1
<1>8. Max(K) \in K /\ \A k \in K : k <= Max(K)
  <2>1. K \in SUBSET (0 .. limit) /\ K # {}
    BY <1>6
  <2> HIDE DEF K
  <2> QED BY <1>5, <2>1, MaxIsMember
<1>9. PageFrom(o) = Max(K)
  BY DEF PageFrom, limit
<1>10. Max(K) \in 0 .. limit
  BY <1>8
<1>11. o < Len(sizes) => Max(K) >= 1
  BY <1>7, <1>8, <1>10
<1> HIDE DEF K
<1> QED BY <1>1, <1>4, <1>5, <1>9, <1>10, <1>11
-----------------------------------------------------------------------------
(* The loop. *)

\* An offset never passes the end of the list, and comes there with the last name.
ListInv ==
  /\ sizes \in Seq(Sizes) /\ off \in 0 .. Len(sizes)
  /\ pc \in {"ask", "print", "done"}
  /\ pc = "print" => ret \in 0 .. Len(sizes) - off /\ (ret = 0 => off = Len(sizes))
  /\ pc = "done" => off = Len(sizes)
  /\ off = Len(sizes) /\ sizes # <<>> => Len(sizes) \in printed

LEMMA InitList == Init => ListInv
<1> SUFFICES ASSUME Init PROVE ListInv
  OBVIOUS
<1>1. PICK n \in 0 .. MostDevices : sizes \in [1 .. n -> Sizes]
  BY DEF Init
<1>2. n \in Nat
  BY Limits
<1>3. sizes \in Seq(Sizes)
  BY <1>1, <1>2
<1>4. off = 0 /\ pc = "ask"
  BY DEF Init
<1>5. Len(sizes) \in Nat /\ (sizes # <<>> => Len(sizes) # 0)
  BY <1>3
<1> QED BY <1>3, <1>4, <1>5 DEF ListInv

LEMMA NextList == ListInv /\ [Next]_vars => ListInv'
<1> SUFFICES ASSUME ListInv, [Next]_vars PROVE ListInv'
  OBVIOUS
<1>0. sizes \in Seq(Sizes) /\ Len(sizes) \in Nat /\ off \in 0 .. Len(sizes)
  BY DEF ListInv
<1>1. CASE AskPage
  BY <1>0, <1>1, PageProperties DEF AskPage, ListInv
<1>2. CASE PrintPage
  <2>1. /\ ret \in 1 .. Len(sizes) - off /\ sizes' = sizes /\ pc' = "ask"
        /\ off' = off + (ret + 1) \div 2 /\ printed' = printed \cup Shown
    BY <1>0, <1>2 DEF PrintPage, ListInv
  <2>2. (ret + 1) \div 2 \in 1 .. ret /\ ((ret + 1) \div 2 = ret => ret = 1)
    BY <1>0, <2>1
  <2>3. off' \in 0 .. Len(sizes)
    BY <1>0, <2>1, <2>2
  <2>4. ASSUME off' = Len(sizes) PROVE Len(sizes) \in printed'
    <3>1. ret = 1 /\ off + 1 = Len(sizes)
      BY <1>0, <2>1, <2>2, <2>4
    <3>2. 0 \in {j \in 0 .. ret - 1 : j % 2 = 0}
      BY <3>1
    <3>3. off + 0 + 1 \in Shown
      BY <3>2 DEF Shown
    <3> QED BY <1>0, <2>1, <3>1, <3>3
  <2> QED BY <1>0, <2>1, <2>3, <2>4 DEF ListInv
<1>3. CASE Finish
  BY <1>0, <1>3 DEF Finish, ListInv
<1>4. CASE UNCHANGED vars
  BY <1>4 DEF vars, ListInv
<1> QED BY <1>1, <1>2, <1>3, <1>4 DEF Next

\* The loop of the tool ends behind the last device and with its name printed, however
\* the pages fall: no page before that is empty, and no step passes the end.
THEOREM ListingComplete == Spec => []DoneAtEnd
<1>1. ListInv => DoneAtEnd
  BY DEF ListInv, DoneAtEnd
<1> QED BY <1>1, InitList, NextList, PTL DEF Spec
=============================================================================

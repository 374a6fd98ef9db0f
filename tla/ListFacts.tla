----------------------------- MODULE ListFacts -----------------------------
(***************************************************************************)
(* What the list operations of the driver do to lists without repetition:  *)
(* list_del() (RemoveFirst), list_add_tail() (Append), taking the head     *)
(* (Tail) and list_splice_tail() (\o).                                     *)
(***************************************************************************)
EXTENDS Integers, Sequences, SequencesExt, SequenceTheorems,
        WellFoundedInduction, TLAPS

\* The least element of a set of numbers is in the set.
LEMMA MinIsMember ==
  ASSUME NEW S \in SUBSET Nat, S # {}
  PROVE  Min(S) \in S
<1> DEFINE R == {p \in Nat \X Nat : p[1] < p[2]}
<1>1. IsWellFoundedOn(R, Nat)
  BY NatLessThanWellFounded DEF OpToRel
<1>2. PICK x \in S : \A y \in S : ~ (<<y, x>> \in R)
  BY <1>1, WFMin
<1>3. \A y \in S : x =< y
  <2> SUFFICES ASSUME NEW y \in S PROVE x =< y
    OBVIOUS
  <2>1. x \in Nat /\ y \in Nat /\ <<y, x>> \notin R
    BY <1>2
  <2>2. ~ (y < x)
    BY <2>1, Zenon
  <2> QED BY <2>1, <2>2
<1> QED
  BY <1>2, <1>3 DEF Min

\* list_del() of a linked entry cuts the list at one position of that entry.
LEMMA RemoveFirstPosition ==
  ASSUME NEW S, NEW s \in Seq(S), NEW e \in Range(s)
  PROVE  \E k \in 1 .. Len(s) : s[k] = e /\ RemoveFirst(s, e) = RemoveAt(s, k)
<1> DEFINE I == {i \in 1 .. Len(s) : s[i] = e}
<1>1. I # {}
  BY DEF Range
<1>2. I \in SUBSET Nat
  OBVIOUS
<1>3. Min(I) \in I
  <2> HIDE DEF I
  <2> QED BY <1>1, <1>2, MinIsMember
<1>4. SelectInSeq(s, LAMBDA v : v = e) = Min(I)
  BY <1>1 DEF SelectInSeq
<1> QED
  BY <1>1, <1>3, <1>4 DEF RemoveFirst

\* Cutting a list at a position keeps the entries before and after it.
LEMMA RemoveAtProperties ==
  ASSUME NEW S, NEW s \in Seq(S), NEW k \in 1 .. Len(s)
  PROVE  /\ RemoveAt(s, k) \in Seq(S)
         /\ Len(RemoveAt(s, k)) = Len(s) - 1
         /\ \A i \in 1 .. Len(s) - 1 :
              RemoveAt(s, k)[i] = IF i < k THEN s[i] ELSE s[i + 1]
<1> DEFINE l == SubSeq(s, 1, k - 1)
           r == SubSeq(s, k + 1, Len(s))
<1>0. k \in Nat /\ Len(s) \in Nat /\ 1 <= k /\ k <= Len(s)
  OBVIOUS
<1>1. /\ l \in Seq(S) /\ Len(l) = k - 1
      /\ \A i \in 1 .. k - 1 : l[i] = s[i]
  <2>1. \A i \in 1 .. k - 1 : s[i] \in S
    OBVIOUS
  <2>2. /\ l \in Seq(S)
        /\ Len(l) = IF 1 <= k - 1 THEN (k - 1) - 1 + 1 ELSE 0
        /\ \A i \in 1 .. (k - 1) - 1 + 1 : l[i] = s[1 + i - 1]
    BY <2>1, SubSeqProperties
  <2> HIDE DEF l
  <2> QED BY <1>0, <2>2
<1>2. /\ r \in Seq(S) /\ Len(r) = Len(s) - k
      /\ \A i \in 1 .. Len(s) - k : r[i] = s[k + i]
  <2>1. \A i \in k + 1 .. Len(s) : s[i] \in S
    OBVIOUS
  <2>2. /\ r \in Seq(S)
        /\ Len(r) = IF k + 1 <= Len(s) THEN Len(s) - (k + 1) + 1 ELSE 0
        /\ \A i \in 1 .. Len(s) - (k + 1) + 1 : r[i] = s[(k + 1) + i - 1]
    BY <2>1, SubSeqProperties
  <2>3. Len(s) - (k + 1) + 1 = Len(s) - k
    BY <1>0
  <2>4. \A i \in 1 .. Len(s) - k : (k + 1) + i - 1 = k + i
    BY <1>0
  <2> HIDE DEF r
  <2>5. Len(r) = Len(s) - k
    <3>1. CASE k + 1 <= Len(s)
      BY <3>1, <2>2, <2>3
    <3>2. CASE ~ (k + 1 <= Len(s))
      BY <3>2, <1>0, <2>2
    <3> QED BY <3>1, <3>2
  <2>6. \A i \in 1 .. Len(s) - k : r[i] = s[k + i]
    BY <2>2, <2>3, <2>4
  <2> QED BY <2>2, <2>5, <2>6
<1>3. RemoveAt(s, k) = l \o r
  BY DEF RemoveAt
<1> HIDE DEF l, r
<1>4. /\ l \o r \in Seq(S)
      /\ Len(l \o r) = Len(l) + Len(r)
      /\ \A i \in 1 .. Len(l) + Len(r) :
           (l \o r)[i] = IF i <= Len(l) THEN l[i] ELSE r[i - Len(l)]
  BY <1>1, <1>2, ConcatProperties
<1> QED
  BY <1>1, <1>2, <1>3, <1>4

\* list_del() yields a list again, whatever the entry.
LEMMA RemoveFirstType ==
  ASSUME NEW S, NEW s \in Seq(S), NEW e
  PROVE  RemoveFirst(s, e) \in Seq(S)
<1>1. CASE e \in Range(s)
  BY <1>1, RemoveFirstPosition, RemoveAtProperties
<1>2. CASE e \notin Range(s)
  BY <1>2 DEF RemoveFirst, Range
<1> QED BY <1>1, <1>2

\* A list without repetition: equal entries are at equal positions.
LEMMA InjectiveList ==
  ASSUME NEW S, NEW s \in Seq(S)
  PROVE  IsInjective(s) <=> \A i, j \in 1 .. Len(s) : s[i] = s[j] => i = j
BY DEF IsInjective

\* list_del() on a list without repetition takes out that entry alone.
LEMMA RemoveFirstProperties ==
  ASSUME NEW S, NEW s \in Seq(S), IsInjective(s), NEW e
  PROVE  /\ IsInjective(RemoveFirst(s, e))
         /\ Range(RemoveFirst(s, e)) = Range(s) \ {e}
<1>1. CASE e \notin Range(s)
  <2>1. RemoveFirst(s, e) = s
    BY <1>1 DEF RemoveFirst, Range
  <2> QED BY <1>1, <2>1
<1>2. CASE e \in Range(s)
  <2>1. PICK k \in 1 .. Len(s) : s[k] = e /\ RemoveFirst(s, e) = RemoveAt(s, k)
    BY <1>2, RemoveFirstPosition
  <2> DEFINE t == RemoveAt(s, k)
  <2>2. /\ t \in Seq(S) /\ Len(t) = Len(s) - 1
        /\ \A i \in 1 .. Len(s) - 1 : t[i] = IF i < k THEN s[i] ELSE s[i + 1]
    BY RemoveAtProperties
  <2> HIDE DEF t
  <2>3. k \in Nat /\ Len(s) \in Nat /\ 1 <= k /\ k <= Len(s)
    OBVIOUS
  <2>4. \A i, j \in 1 .. Len(s) : s[i] = s[j] => i = j
    BY InjectiveList
  <2>5. IsInjective(t)
    <3> SUFFICES ASSUME NEW i \in 1 .. Len(t), NEW j \in 1 .. Len(t), t[i] = t[j]
                 PROVE  i = j
      BY <2>2, InjectiveList
    <3> QED BY <2>2, <2>3, <2>4
  <2>6. Range(t) \subseteq Range(s) \ {e}
    <3> SUFFICES ASSUME NEW i \in 1 .. Len(t) PROVE t[i] \in Range(s) \ {e}
      BY <2>2 DEF Range
    <3>1. PICK j \in 1 .. Len(s) : t[i] = s[j] /\ j # k
      BY <2>2, <2>3
    <3> QED BY <3>1, <2>1, <2>4 DEF Range
  <2>7. Range(s) \ {e} \subseteq Range(t)
    <3> SUFFICES ASSUME NEW j \in 1 .. Len(s), s[j] # e PROVE s[j] \in Range(t)
      BY DEF Range
    <3>1. PICK i \in 1 .. Len(t) : t[i] = s[j]
      <4>1. CASE j < k
        BY <4>1, <2>2, <2>3
      <4>2. CASE j > k
        <5>1. j - 1 \in 1 .. Len(t) /\ ~ (j - 1 < k) /\ (j - 1) + 1 = j
          BY <4>2, <2>2, <2>3
        <5> QED BY <5>1, <2>2
      <4> QED BY <4>1, <4>2, <2>1
    <3> QED BY <3>1, <2>2 DEF Range
  <2> QED BY <2>1, <2>5, <2>6, <2>7 DEF t
<1> QED BY <1>1, <1>2

\* list_add_tail() of an entry that is not on the list.
LEMMA AppendFresh ==
  ASSUME NEW S, NEW s \in Seq(S), IsInjective(s), NEW e \in S, e \notin Range(s)
  PROVE  IsInjective(Append(s, e))
<1> DEFINE t == Append(s, e)
<1>1. /\ t \in Seq(S) /\ Len(t) = Len(s) + 1 /\ t[Len(s) + 1] = e
      /\ \A i \in 1 .. Len(s) : t[i] = s[i]
  BY AppendProperties
<1> HIDE DEF t
<1>2. \A i, j \in 1 .. Len(s) : s[i] = s[j] => i = j
  BY InjectiveList
<1>3. \A i \in 1 .. Len(s) : s[i] # e
  BY DEF Range
<1>4. ASSUME NEW i \in 1 .. Len(t), NEW j \in 1 .. Len(t), t[i] = t[j]
      PROVE  i = j
  <2>1. Len(s) \in Nat
    OBVIOUS
  <2>2. (i = Len(s) + 1 \/ i \in 1 .. Len(s)) /\ (j = Len(s) + 1 \/ j \in 1 .. Len(s))
    BY <1>1, <2>1
  <2> QED BY <1>1, <1>2, <1>3, <1>4, <2>2
<1>5. IsInjective(t)
  BY <1>1, <1>4, InjectiveList
<1> QED BY <1>5 DEF t

\* The entries of a list after list_add_tail().
LEMMA RangeAppend ==
  ASSUME NEW S, NEW s \in Seq(S), NEW e \in S
  PROVE  Range(Append(s, e)) = Range(s) \cup {e}
<1>1. Append(s, e) = s \o <<e>>
  BY AppendIsConcat
<1>2. Range(<<e>>) = {e}
  BY DEF Range
<1>3. <<e>> \in Seq(S)
  OBVIOUS
<1>4. Range(s \o <<e>>) = Range(s) \cup Range(<<e>>)
  BY <1>3, RangeConcatenation
<1> QED BY <1>1, <1>2, <1>4

\* Taking the head of a list without repetition.
LEMMA TailProperties ==
  ASSUME NEW S, NEW s \in Seq(S), IsInjective(s), s # << >>
  PROVE  /\ Tail(s) \in Seq(S)
         /\ IsInjective(Tail(s))
         /\ Head(s) \in Range(s)
         /\ Range(Tail(s)) = Range(s) \ {Head(s)}
<1> DEFINE t == Tail(s)
<1>1. /\ t \in Seq(S) /\ Len(t) = Len(s) - 1
      /\ \A i \in 1 .. Len(t) : t[i] = s[i + 1]
  BY HeadTailProperties
<1>2. Len(s) \in Nat \ {0} /\ Head(s) = s[1]
  OBVIOUS
<1> HIDE DEF t
<1>3. \A i, j \in 1 .. Len(s) : s[i] = s[j] => i = j
  BY InjectiveList
<1>4. IsInjective(t)
  <2> SUFFICES ASSUME NEW i \in 1 .. Len(t), NEW j \in 1 .. Len(t), t[i] = t[j]
               PROVE  i = j
    BY <1>1, InjectiveList
  <2>1. i + 1 \in 1 .. Len(s) /\ j + 1 \in 1 .. Len(s)
    BY <1>1, <1>2
  <2>2. i + 1 = j + 1
    BY <1>1, <1>3, <2>1
  <2> QED BY <2>2
<1>5. Head(s) \in Range(s)
  BY <1>2 DEF Range
<1>6. Range(t) \subseteq Range(s) \ {Head(s)}
  <2> SUFFICES ASSUME NEW i \in 1 .. Len(t) PROVE t[i] \in Range(s) \ {Head(s)}
    BY <1>1 DEF Range
  <2>1. i + 1 \in 1 .. Len(s) /\ 1 \in 1 .. Len(s) /\ i + 1 # 1
    BY <1>1, <1>2
  <2> QED BY <1>1, <1>2, <1>3, <2>1 DEF Range
<1>7. Range(s) \ {Head(s)} \subseteq Range(t)
  <2> SUFFICES ASSUME NEW j \in 1 .. Len(s), s[j] # s[1] PROVE s[j] \in Range(t)
    BY <1>2 DEF Range
  <2>1. j - 1 \in 1 .. Len(t) /\ (j - 1) + 1 = j
    BY <1>1, <1>2
  <2>2. t[j - 1] = s[j]
    BY <1>1, <2>1
  <2>3. DOMAIN t = 1 .. Len(t)
    BY <1>1
  <2> QED BY <2>1, <2>2, <2>3 DEF Range
<1> QED BY <1>1, <1>4, <1>5, <1>6, <1>7 DEF t

\* list_splice_tail() of two lists that share no entry.
LEMMA ConcatDisjoint ==
  ASSUME NEW S, NEW s \in Seq(S), NEW t \in Seq(S), IsInjective(s), IsInjective(t),
         Range(s) \cap Range(t) = {}
  PROVE  IsInjective(s \o t)
<1> DEFINE u == s \o t
<1>1. /\ u \in Seq(S) /\ Len(u) = Len(s) + Len(t)
      /\ \A i \in 1 .. Len(s) + Len(t) : u[i] = IF i <= Len(s) THEN s[i] ELSE t[i - Len(s)]
  BY ConcatProperties
<1> HIDE DEF u
<1>2. \A i, j \in 1 .. Len(s) : s[i] = s[j] => i = j
  BY InjectiveList
<1>3. \A i, j \in 1 .. Len(t) : t[i] = t[j] => i = j
  BY InjectiveList
<1>4. \A i \in 1 .. Len(s), j \in 1 .. Len(t) : s[i] # t[j]
  BY DEF Range
<1>5. Len(s) \in Nat /\ Len(t) \in Nat
  OBVIOUS
<1>6. ASSUME NEW i \in 1 .. Len(u), NEW j \in 1 .. Len(u), u[i] = u[j]
      PROVE  i = j
  <2>1. \A k \in 1 .. Len(u) : \/ k \in 1 .. Len(s) /\ u[k] = s[k]
                               \/ k - Len(s) \in 1 .. Len(t) /\ u[k] = t[k - Len(s)]
    BY <1>1, <1>5
  <2>2. CASE i \in 1 .. Len(s) /\ u[i] = s[i]
    BY <1>2, <1>4, <1>6, <2>1, <2>2
  <2>3. CASE i - Len(s) \in 1 .. Len(t) /\ u[i] = t[i - Len(s)]
    <3>1. j - Len(s) \in 1 .. Len(t) /\ u[j] = t[j - Len(s)]
      BY <1>4, <1>6, <2>1, <2>3
    <3>2. i - Len(s) = j - Len(s)
      BY <1>3, <1>6, <2>3, <3>1
    <3> QED BY <1>1, <1>5, <3>2
  <2> QED BY <2>1, <2>2, <2>3
<1>7. IsInjective(u)
  BY <1>1, <1>6, InjectiveList
<1> QED BY <1>7 DEF u

\* list_del() keeps the order of the entries that stay.
LEMMA RemoveFirstOrder ==
  ASSUME NEW S, NEW s \in Seq(S), NEW e,
         NEW p \in 1 .. Len(RemoveFirst(s, e)), NEW q \in 1 .. Len(RemoveFirst(s, e)), p < q
  PROVE  \E x, y \in 1 .. Len(s) :
           x < y /\ s[x] = RemoveFirst(s, e)[p] /\ s[y] = RemoveFirst(s, e)[q]
<1>1. CASE e \in Range(s)
  <2>1. PICK k \in 1 .. Len(s) : s[k] = e /\ RemoveFirst(s, e) = RemoveAt(s, k)
    BY <1>1, RemoveFirstPosition
  <2> DEFINE t == RemoveAt(s, k)
  <2>2. /\ t \in Seq(S) /\ Len(t) = Len(s) - 1
        /\ \A i \in 1 .. Len(s) - 1 : t[i] = IF i < k THEN s[i] ELSE s[i + 1]
    BY RemoveAtProperties
  <2>3. Len(s) \in Nat /\ p \in 1 .. Len(s) - 1 /\ q \in 1 .. Len(s) - 1
    BY <2>1, <2>2
  <2> HIDE DEF t
  <2> DEFINE at(i) == IF i < k THEN i ELSE i + 1
  <2>4. /\ at(p) \in 1 .. Len(s) /\ at(q) \in 1 .. Len(s) /\ at(p) < at(q)
        /\ s[at(p)] = t[p] /\ s[at(q)] = t[q]
    BY <2>2, <2>3
  <2> QED BY <2>1, <2>4 DEF t
<1>2. CASE e \notin Range(s)
  <2>1. RemoveFirst(s, e) = s
    BY <1>2 DEF RemoveFirst, Range
  <2> QED BY <2>1
<1> QED BY <1>1, <1>2
=============================================================================

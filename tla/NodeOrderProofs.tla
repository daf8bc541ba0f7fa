--------------------------- MODULE NodeOrderProofs ---------------------------
(***************************************************************************)
(* What the orders of NodeOrder return, for lists of any length.           *)
(***************************************************************************)
EXTENDS NodeOrder, FiniteSetTheorems, FunctionTheorems, SequenceTheorems, TLAPS

(* A set of positions, and for each those it goes behind: a strict order    *)
(* in which any two positions compare.                                      *)
Ranking(I, before) ==
    /\ before \in [I -> SUBSET I]
    /\ \A i \in I : i \notin before[i]
    /\ \A i, j \in I : i # j => i \in before[j] \/ j \in before[i]
    /\ \A i, j \in I : i \in before[j] => before[i] \subseteq before[j]

(* Of two positions, the one that goes behind the other has more before it. *)
LEMMA BehindHasMore ==
    ASSUME NEW I, IsFiniteSet(I), NEW before, Ranking(I, before),
           NEW i \in I, NEW j \in I, i \in before[j]
    PROVE  Cardinality(before[i]) < Cardinality(before[j])
<1>1. before[i] \subseteq before[j] /\ before[j] \subseteq I /\ i \notin before[i]
  BY DEF Ranking
<1>2. IsFiniteSet(before[j])
  BY <1>1, FS_Subset
<1>3. /\ Cardinality(before[i]) <= Cardinality(before[j])
      /\ Cardinality(before[j]) = Cardinality(before[i]) => before[j] = before[i]
  BY <1>1, <1>2, FS_Subset
<1>4. IsFiniteSet(before[i])
  BY <1>1, <1>2, FS_Subset
<1>5. Cardinality(before[i]) \in Nat /\ Cardinality(before[j]) \in Nat
  BY <1>2, <1>4, FS_CardinalityType
<1> QED
  BY <1>1, <1>3, <1>5

(* Counting what goes before a position numbers the positions, without a    *)
(* gap and none twice.                                                      *)
LEMMA RanksAreNumbers ==
    ASSUME NEW I, IsFiniteSet(I), NEW before, Ranking(I, before)
    PROVE  /\ Cardinality(I) \in Nat
           /\ \A k \in 1..Cardinality(I) :
                \E i \in I : Cardinality(before[i]) = k - 1
           /\ \A i, j \in I : Cardinality(before[i]) = Cardinality(before[j]) => i = j
           /\ \A i \in I : Cardinality(before[i]) + 1 \in 1..Cardinality(I)
<1> DEFINE N == Cardinality(I)
           rank == [i \in I |-> Cardinality(before[i]) + 1]
<1>1. N \in Nat
  BY FS_CardinalityType
<1>2. ASSUME NEW i \in I
      PROVE  /\ Cardinality(before[i]) \in Nat
             /\ Cardinality(before[i]) + 1 \in 1..N
  <2>1. before[i] \subseteq I \ {i}
    BY DEF Ranking
  <2>2. IsFiniteSet(I \ {i}) /\ Cardinality(I \ {i}) = N - 1
    BY FS_RemoveElement
  <2>3. IsFiniteSet(before[i]) /\ Cardinality(before[i]) <= N - 1
    BY <2>1, <2>2, FS_Subset
  <2>4. Cardinality(before[i]) \in Nat
    BY <2>3, FS_CardinalityType
  <2> QED
    BY <1>1, <2>3, <2>4
<1>3. ASSUME NEW i \in I, NEW j \in I, Cardinality(before[i]) = Cardinality(before[j])
      PROVE  i = j
  <2>1. i # j => i \in before[j] \/ j \in before[i]
    BY DEF Ranking
  <2> QED
    BY <1>2, <1>3, <2>1, BehindHasMore
<1>4. rank \in [I -> 1..N]
  BY <1>2
<1>5. \A i, j \in I : rank[i] = rank[j] => i = j
  BY <1>2, <1>3
<1>6. rank \in Injection(I, 1..N)
  BY <1>4, <1>5, Fun_IsInj
<1>7. IsFiniteSet(1..N) /\ Cardinality(1..N) = N
  BY <1>1, FS_Interval
<1>8. rank \in Surjection(I, 1..N)
  BY <1>6, <1>7, FS_Injection
<1>9. \A k \in 1..N : \E i \in I : rank[i] = k
  BY <1>8 DEF Surjection
<1>10. \A k \in 1..N : \E i \in I : Cardinality(before[i]) = k - 1
  BY <1>1, <1>2, <1>9
<1> QED
  BY <1>1, <1>2, <1>3, <1>10

(* Arrange takes each of the positions once, those that go before another   *)
(* ahead of it.                                                             *)
LEMMA ArrangeTakesEach ==
    ASSUME NEW S, NEW s \in Seq(S), NEW I \in SUBSET DOMAIN s,
           NEW before, Ranking(I, before)
    PROVE  /\ Arrange(s, before) \in Seq(S)
           /\ Len(Arrange(s, before)) = Cardinality(I)
           /\ DOMAIN Arrange(s, before) = 1..Cardinality(I)
           /\ \E p \in Bijection(1..Cardinality(I), I) :
                /\ \A k \in 1..Cardinality(I) : Arrange(s, before)[k] = s[p[k]]
                /\ \A k, l \in 1..Cardinality(I) : k < l => p[k] \in before[p[l]]
<1> DEFINE N == Cardinality(I)
           At(k) == CHOOSE i \in I : Cardinality(before[i]) = k - 1
           p == [k \in 1..N |-> At(k)]
           a == Arrange(s, before)
<1>1. DOMAIN before = I
  BY DEF Ranking
<1>2. IsFiniteSet(I) /\ DOMAIN s = 1..Len(s) /\ Len(s) \in Nat
  BY LenProperties, FS_Interval, FS_Subset
<1>3. N \in Nat
  BY <1>2, FS_CardinalityType
<1>4. \A k \in 1..N : At(k) \in I /\ Cardinality(before[At(k)]) = k - 1
  BY <1>2, RanksAreNumbers
<1>5. a = [k \in 1..N |-> s[At(k)]]
  BY <1>1 DEF Arrange
<1>6. \A k \in 1..N : s[At(k)] \in S
  BY <1>2, <1>4, ElementOfSeq
<1>7. a \in Seq(S) /\ Len(a) = N /\ DOMAIN a = 1..N
  <2>1. a \in [1..N -> S]
    BY <1>5, <1>6
  <2> HIDE DEF a
  <2> QED
    BY <1>3, <2>1
<1>8. p \in [1..N -> I] /\ \A k \in 1..N : a[k] = s[p[k]]
  BY <1>4, <1>5
<1>9. \A k, l \in 1..N : p[k] = p[l] => k = l
  BY <1>3, <1>4
<1>10. \A i \in I : \E k \in 1..N : p[k] = i
  <2> SUFFICES ASSUME NEW i \in I PROVE \E k \in 1..N : p[k] = i
    OBVIOUS
  <2>1. Cardinality(before[i]) \in Nat
    <3>1. before[i] \subseteq I
      BY DEF Ranking
    <3> QED
      BY <1>2, <3>1, FS_Subset, FS_CardinalityType
  <2>2. PICK k \in 1..N : k = Cardinality(before[i]) + 1
    BY <1>2, RanksAreNumbers
  <2>3. At(k) \in I /\ Cardinality(before[At(k)]) = Cardinality(before[i])
    <3> HIDE DEF At
    <3> QED
      BY <1>3, <1>4, <2>1, <2>2
  <2>4. At(k) = i
    BY <1>2, <2>3, RanksAreNumbers
  <2> QED
    BY <2>4
<1>11. p \in Bijection(1..N, I)
  BY <1>8, <1>9, <1>10, Fun_IsBij, Fun_IsSurj
<1>12. \A k, l \in 1..N : k < l => p[k] \in before[p[l]]
  <2> SUFFICES ASSUME NEW k \in 1..N, NEW l \in 1..N, k < l
               PROVE  p[k] \in before[p[l]]
    OBVIOUS
  <2>1. p[k] \in I /\ p[l] \in I /\ p[k] # p[l]
    BY <1>3, <1>8, <1>9
  <2>2. p[k] \in before[p[l]] \/ p[l] \in before[p[k]]
    BY <2>1 DEF Ranking
  <2>3. Cardinality(before[p[k]]) = k - 1 /\ Cardinality(before[p[l]]) = l - 1
    BY <1>4
  <2>4. ASSUME p[l] \in before[p[k]] PROVE FALSE
    <3>1. l - 1 < k - 1
      BY <1>2, <2>1, <2>3, <2>4, BehindHasMore
    <3> QED
      BY <1>3, <3>1
  <2> QED
    BY <2>2, <2>4
<1>13. \E q \in Bijection(1..N, I) :
         /\ \A k \in 1..N : a[k] = s[q[k]]
         /\ \A k, l \in 1..N : k < l => q[k] \in before[q[l]]
  <2> HIDE DEF p, a, N
  <2> QED
    BY <1>8, <1>11, <1>12
<1> QED
  BY <1>7, <1>13

-----------------------------------------------------------------------------
(* The records of state.json, as far as the orders look at them.            *)
Records == [role : Roles, idx : Nat]

(* orderByRole sorts, and is stable: it returns the nodes it is given, those *)
(* of a lesser rank first, and those of one rank as it was given them.      *)
THEOREM SortIsStable ==
    ASSUME NEW S \in SUBSET Records, NEW s \in Seq(S), NEW reversed \in BOOLEAN
    PROVE  LET o == OrderByRole(s, reversed)
           IN  /\ o \in Seq(S) /\ Len(o) = Len(s) /\ InOrder(o, reversed)
               /\ \E p \in Bijection(DOMAIN s, DOMAIN s) :
                    /\ \A k \in DOMAIN s : o[k] = s[p[k]]
                    /\ \A k, l \in DOMAIN s :
                         k < l /\ o[k].role = o[l].role => p[k] < p[l]
<1> DEFINE I == DOMAIN s
           before == Behind(s, reversed)
           o == OrderByRole(s, reversed)
<1>1. I = 1..Len(s) /\ Len(s) \in Nat /\ Cardinality(I) = Len(s)
  <2>1. I = 1..Len(s) /\ Len(s) \in Nat
    BY LenProperties
  <2>2. \A n \in Nat : Cardinality(1..n) = n
    BY FS_Interval
  <2> QED
    BY <2>1, <2>2
<1>2. \A i \in I : s[i].role \in Roles
  BY <1>1, ElementOfSeq DEF Records
<1>3. \A i, j \in I : i \in before[j] <=>
         \/ Less(s[i], s[j], reversed)
         \/ i < j /\ ~Less(s[j], s[i], reversed)
  BY DEF Behind
<1>4. Ranking(I, before)
  <2>1. before \in [I -> SUBSET I]
    BY DEF Behind
  <2>2. \A i \in I : i \notin before[i]
    BY <1>1, <1>2, <1>3 DEF Less, StopRank, Roles
  <2>3. \A i, j \in I : i # j => i \in before[j] \/ j \in before[i]
    BY <1>1, <1>2, <1>3 DEF Less, StopRank, Roles
  <2>4. ASSUME NEW i \in I, NEW j \in I, i \in before[j], NEW h \in before[i]
        PROVE  h \in before[j]
    <3>1. h \in I
      BY <2>1
    <3> QED
      BY <1>1, <1>2, <1>3, <2>4, <3>1 DEF Less, StopRank, Roles
  <2> QED
    BY <2>1, <2>2, <2>3, <2>4 DEF Ranking
<1>5. /\ o \in Seq(S) /\ Len(o) = Len(s) /\ DOMAIN o = I
      /\ \E p \in Bijection(I, I) :
           /\ \A k \in I : o[k] = s[p[k]]
           /\ \A k, l \in I : k < l => p[k] \in before[p[l]]
  BY <1>1, <1>4, ArrangeTakesEach DEF OrderByRole
<1>6. PICK p \in Bijection(I, I) :
           /\ \A k \in I : o[k] = s[p[k]]
           /\ \A k, l \in I : k < l => p[k] \in before[p[l]]
  BY <1>5
<1>7. \A k \in I : p[k] \in I
  BY <1>6, Fun_BijectionProperties
<1>8. InOrder(o, reversed)
  <2> SUFFICES ASSUME NEW k \in I, NEW l \in I, k < l
               PROVE  ~Less(o[l], o[k], reversed)
    BY <1>5 DEF InOrder
  <2>1. p[k] \in I /\ p[l] \in I /\ p[k] \in before[p[l]]
    BY <1>6, <1>7
  <2>2. ~Less(s[p[l]], s[p[k]], reversed)
    BY <1>2, <1>3, <2>1 DEF Less, StopRank, Roles
  <2> QED
    BY <1>6, <2>2
<1>9. \A k, l \in I : k < l /\ o[k].role = o[l].role => p[k] < p[l]
  BY <1>1, <1>2, <1>3, <1>6, <1>7 DEF Less, StopRank, Roles
<1> QED
  BY <1>5, <1>6, <1>8, <1>9

(* So a sorted list holds what it held, once if it held it once.            *)
LEMMA OrderByRoleKeeps ==
    ASSUME NEW S \in SUBSET Records, NEW s \in Seq(S), NEW reversed \in BOOLEAN
    PROVE  /\ OrderByRole(s, reversed) \in Seq(S)
           /\ Range(OrderByRole(s, reversed)) = Range(s)
           /\ InOrder(OrderByRole(s, reversed), reversed)
           /\ IsInjective(s) => IsInjective(OrderByRole(s, reversed))
<1> DEFINE o == OrderByRole(s, reversed)
<1>1. /\ o \in Seq(S) /\ Len(o) = Len(s) /\ InOrder(o, reversed)
      /\ \E p \in Bijection(DOMAIN s, DOMAIN s) : \A k \in DOMAIN s : o[k] = s[p[k]]
  BY SortIsStable
<1>2. PICK p \in Bijection(DOMAIN s, DOMAIN s) : \A k \in DOMAIN s : o[k] = s[p[k]]
  BY <1>1
<1>3. DOMAIN o = DOMAIN s
  BY <1>1, LenProperties
<1>4. /\ \A k \in DOMAIN s : p[k] \in DOMAIN s
      /\ \A k, l \in DOMAIN s : p[k] = p[l] => k = l
      /\ \A i \in DOMAIN s : \E k \in DOMAIN s : p[k] = i
  <2> HIDE DEF o
  <2> QED
    BY DEF Bijection, Injection, IsInjective, Surjection
<1> HIDE DEF o
<1>5. Range(o) = Range(s)
  <2>1. \A k \in DOMAIN s : o[k] \in Range(s)
    BY <1>2, <1>4 DEF Range
  <2>2. \A i \in DOMAIN s : \E k \in DOMAIN o : o[k] = s[i]
    <3> SUFFICES ASSUME NEW i \in DOMAIN s PROVE \E k \in DOMAIN o : o[k] = s[i]
      OBVIOUS
    <3>1. PICK k \in DOMAIN s : p[k] = i
      BY <1>4
    <3> QED
      BY <1>2, <1>3, <3>1
  <2> QED
    BY <1>3, <2>1, <2>2 DEF Range
<1>6. ASSUME IsInjective(s) PROVE IsInjective(o)
  <2> SUFFICES ASSUME NEW k \in DOMAIN s, NEW l \in DOMAIN s, o[k] = o[l]
               PROVE  k = l
    BY <1>3 DEF IsInjective
  <2>1. s[p[k]] = s[p[l]] /\ p[k] \in DOMAIN s /\ p[l] \in DOMAIN s
    BY <1>2, <1>4
  <2>2. p[k] = p[l]
    BY <1>6, <2>1 DEF IsInjective
  <2> QED
    BY <1>4, <2>2
<1> QED
  BY <1>1, <1>5, <1>6 DEF o

(* A filter goes through the positions of the nodes of its roles, upwards.  *)
LEMMA WithRolesTakes ==
    ASSUME NEW S, NEW s \in Seq(S), NEW roles
    PROVE  /\ WithRoles(s, roles) \in Seq(S)
           /\ \E p \in [DOMAIN WithRoles(s, roles) -> DOMAIN s] :
                /\ \A k \in DOMAIN WithRoles(s, roles) :
                     WithRoles(s, roles)[k] = s[p[k]] /\ s[p[k]].role \in roles
                /\ \A i \in DOMAIN s : s[i].role \in roles =>
                     \E k \in DOMAIN WithRoles(s, roles) : p[k] = i
                /\ \A k, l \in DOMAIN WithRoles(s, roles) : k < l => p[k] < p[l]
                /\ \A k, l \in DOMAIN WithRoles(s, roles) : p[k] = p[l] => k = l
<1> DEFINE I == {i \in DOMAIN s : s[i].role \in roles}
           before == [i \in I |-> {j \in I : j < i}]
           w == WithRoles(s, roles)
           N == Cardinality(I)
<1>1. DOMAIN s = 1..Len(s) /\ Len(s) \in Nat
  BY LenProperties
<1>2. Ranking(I, before)
  BY <1>1 DEF Ranking
<1>3. /\ w \in Seq(S) /\ DOMAIN w = 1..N
      /\ \E p \in Bijection(1..N, I) :
           /\ \A k \in 1..N : w[k] = s[p[k]]
           /\ \A k, l \in 1..N : k < l => p[k] \in before[p[l]]
  <2>1. w = Arrange(s, before) /\ I \in SUBSET DOMAIN s
    BY DEF WithRoles
  <2> HIDE DEF w, I, before
  <2>2. DOMAIN w = 1..N
    BY <1>2, <2>1, ArrangeTakesEach
  <2>3. w \in Seq(S)
    BY <1>2, <2>1, ArrangeTakesEach
  <2>4. \E p \in Bijection(1..N, I) :
           /\ \A k \in 1..N : w[k] = s[p[k]]
           /\ \A k, l \in 1..N : k < l => p[k] \in before[p[l]]
    <3>1. \A J \in SUBSET DOMAIN s : \A b : Ranking(J, b) =>
            \E p \in Bijection(1..Cardinality(J), J) :
               /\ \A k \in 1..Cardinality(J) : Arrange(s, b)[k] = s[p[k]]
               /\ \A k, l \in 1..Cardinality(J) : k < l => p[k] \in b[p[l]]
      <4> SUFFICES ASSUME NEW J \in SUBSET DOMAIN s, NEW b, Ranking(J, b)
                   PROVE  \E p \in Bijection(1..Cardinality(J), J) :
               /\ \A k \in 1..Cardinality(J) : Arrange(s, b)[k] = s[p[k]]
               /\ \A k, l \in 1..Cardinality(J) : k < l => p[k] \in b[p[l]]
        OBVIOUS
      <4> HIDE DEF N
      <4> QED
        BY ArrangeTakesEach
    <3> QED
      BY <1>2, <2>1, <3>1
  <2> QED
    BY <2>2, <2>3, <2>4
<1>4. PICK p \in Bijection(1..N, I) :
           /\ \A k \in 1..N : w[k] = s[p[k]]
           /\ \A k, l \in 1..N : k < l => p[k] \in before[p[l]]
  BY <1>3
<1>5. /\ \A k \in 1..N : p[k] \in I
      /\ \A k, l \in 1..N : p[k] = p[l] => k = l
      /\ \A i \in I : \E k \in 1..N : p[k] = i
  BY DEF Bijection, Injection, IsInjective, Surjection
<1>6. \A k, l \in 1..N : k < l => p[k] < p[l]
  BY <1>4, <1>5
<1>7. \A k \in 1..N : p[k] \in DOMAIN s /\ s[p[k]].role \in roles
  BY <1>5
<1>8. \A i \in DOMAIN s : s[i].role \in roles => \E k \in 1..N : p[k] = i
  BY <1>5
<1>9. p \in [1..N -> DOMAIN s]
  <2>1. p \in [1..N -> I] /\ I \subseteq DOMAIN s
    BY Fun_BijectionProperties
  <2> HIDE DEF I
  <2> QED
    BY <2>1
<1> HIDE DEF w, I, N, before
<1>10. DOMAIN w = 1..N
  BY <1>3
<1>11. \E q \in [DOMAIN w -> DOMAIN s] :
         /\ \A k \in DOMAIN w : w[k] = s[q[k]] /\ s[q[k]].role \in roles
         /\ \A i \in DOMAIN s : s[i].role \in roles => \E k \in DOMAIN w : q[k] = i
         /\ \A k, l \in DOMAIN w : k < l => q[k] < q[l]
         /\ \A k, l \in DOMAIN w : q[k] = q[l] => k = l
  <2> SUFFICES
         /\ p \in [DOMAIN w -> DOMAIN s]
         /\ \A k \in DOMAIN w : w[k] = s[p[k]] /\ s[p[k]].role \in roles
         /\ \A i \in DOMAIN s : s[i].role \in roles => \E k \in DOMAIN w : p[k] = i
         /\ \A k, l \in DOMAIN w : k < l => p[k] < p[l]
         /\ \A k, l \in DOMAIN w : p[k] = p[l] => k = l
    OBVIOUS
  <2> QED
    BY <1>4, <1>5, <1>6, <1>7, <1>8, <1>9, <1>10
<1> QED
  BY <1>3, <1>11 DEF w

(* So it keeps the nodes of its roles, in their order.                      *)
LEMMA WithRolesKeeps ==
    ASSUME NEW S, NEW s \in Seq(S), NEW roles
    PROVE  /\ WithRoles(s, roles) \in Seq(S)
           /\ Range(WithRoles(s, roles)) = {n \in Range(s) : n.role \in roles}
           /\ IsInjective(s) => IsInjective(WithRoles(s, roles))
<1> DEFINE w == WithRoles(s, roles)
<1>1. PICK p \in [DOMAIN w -> DOMAIN s] :
        /\ \A k \in DOMAIN w : w[k] = s[p[k]] /\ s[p[k]].role \in roles
        /\ \A i \in DOMAIN s : s[i].role \in roles => \E k \in DOMAIN w : p[k] = i
        /\ \A k, l \in DOMAIN w : k < l => p[k] < p[l]
        /\ \A k, l \in DOMAIN w : p[k] = p[l] => k = l
  BY WithRolesTakes
<1>2. w \in Seq(S)
  BY WithRolesTakes
<1> HIDE DEF w
<1>3. Range(w) = {n \in Range(s) : n.role \in roles}
  BY <1>1 DEF Range
<1>4. IsInjective(s) => IsInjective(w)
  BY <1>1 DEF IsInjective
<1> QED
  BY <1>2, <1>3, <1>4 DEF w

(* A filter of a list in order is in order.                                 *)
LEMMA WithRolesInOrder ==
    ASSUME NEW S, NEW s \in Seq(S), NEW roles, NEW reversed \in BOOLEAN,
           InOrder(s, reversed)
    PROVE  InOrder(WithRoles(s, roles), reversed)
<1> DEFINE w == WithRoles(s, roles)
<1>1. PICK p \in [DOMAIN w -> DOMAIN s] :
        /\ \A k \in DOMAIN w : w[k] = s[p[k]]
        /\ \A k, l \in DOMAIN w : k < l => p[k] < p[l]
  BY WithRolesTakes
<1> HIDE DEF w
<1>2. InOrder(w, reversed)
  BY <1>1 DEF InOrder
<1> QED
  BY <1>2 DEF w

(* Two lists that name different nodes, the second only such as may come    *)
(* after all of the first, make one that is in order.                       *)
LEMMA ConcatKeeps ==
    ASSUME NEW S, NEW s \in Seq(S), NEW t \in Seq(S), NEW reversed \in BOOLEAN,
           IsInjective(s), IsInjective(t), Range(s) \cap Range(t) = {},
           InOrder(s, reversed), InOrder(t, reversed),
           \A m \in Range(s), n \in Range(t) : ~Less(n, m, reversed)
    PROVE  /\ s \o t \in Seq(S) /\ Range(s \o t) = Range(s) \cup Range(t)
           /\ IsInjective(s \o t) /\ InOrder(s \o t, reversed)
<1> DEFINE c == s \o t
           M == Len(s)
           N == Len(t)
<1>1. /\ M \in Nat /\ N \in Nat /\ DOMAIN s = 1..M /\ DOMAIN t = 1..N
      /\ c \in Seq(S) /\ Len(c) = M + N /\ DOMAIN c = 1..(M + N)
  BY LenProperties, ConcatProperties
<1>2. \A i \in 1..(M + N) : c[i] = IF i <= M THEN s[i] ELSE t[i - M]
  BY ConcatProperties
<1>3. \A i \in DOMAIN s : i \in DOMAIN c /\ c[i] = s[i] /\ i <= M
  BY <1>1, <1>2
<1>4. \A i \in DOMAIN t : i + M \in DOMAIN c /\ c[i + M] = t[i] /\ i + M > M
  BY <1>1, <1>2
<1>5. \A i \in DOMAIN c : i \in DOMAIN s \/ \E j \in DOMAIN t : i = j + M
  <2>1. \A i \in 1..(M + N) : i \in 1..M \/ (i - M \in 1..N /\ i = (i - M) + M)
    BY <1>1
  <2> HIDE DEF c, M, N
  <2> QED
    BY <1>1, <2>1
<1> HIDE DEF c
<1>6. Range(c) = Range(s) \cup Range(t)
  BY RangeConcatenation DEF c
<1>7. (\A i \in DOMAIN s : s[i] \in Range(s)) /\ (\A i \in DOMAIN t : t[i] \in Range(t))
  BY DEF Range
<1>8. ASSUME NEW i \in DOMAIN c, NEW j \in DOMAIN c
      PROVE  (c[i] = c[j] => i = j) /\ (i < j => ~Less(c[j], c[i], reversed))
  <2>1. CASE i \in DOMAIN s /\ j \in DOMAIN s
    BY <1>3, <2>1 DEF IsInjective, InOrder
  <2>2. CASE i \in DOMAIN s /\ \E k \in DOMAIN t : j = k + M
    BY <1>3, <1>4, <1>7, <2>2
  <2>3. CASE j \in DOMAIN s /\ \E k \in DOMAIN t : i = k + M
    BY <1>1, <1>3, <1>4, <1>7, <2>3
  <2>4. CASE (\E k \in DOMAIN t : i = k + M) /\ (\E k \in DOMAIN t : j = k + M)
    BY <1>1, <1>4, <2>4 DEF IsInjective, InOrder
  <2> QED
    BY <1>5, <2>1, <2>2, <2>3, <2>4
<1>9. IsInjective(c) /\ InOrder(c, reversed)
  BY <1>8 DEF IsInjective, InOrder
<1> QED
  BY <1>1, <1>6, <1>9 DEF c

(* Taking the first node off a list.                                        *)
LEMMA TailKeeps ==
    ASSUME NEW S, NEW s \in Seq(S), s # <<>>
    PROVE  /\ Head(s) \in S /\ Tail(s) \in Seq(S) /\ Head(s) \in Range(s)
           /\ Range(s) = {Head(s)} \cup Range(Tail(s))
           /\ IsInjective(s) => IsInjective(Tail(s)) /\ Head(s) \notin Range(Tail(s))
           /\ \A reversed \in BOOLEAN : InOrder(s, reversed) =>
                /\ InOrder(Tail(s), reversed)
                /\ \A n \in Range(Tail(s)) : ~Less(n, Head(s), reversed)
           /\ (Len(s) > 1) <=> (Tail(s) # <<>>)
<1> DEFINE t == Tail(s)
<1>1. /\ Len(s) \in Nat \ {0} /\ DOMAIN s = 1..Len(s)
      /\ t \in Seq(S) /\ Len(t) = Len(s) - 1 /\ DOMAIN t = 1..(Len(s) - 1)
      /\ Head(s) \in S /\ Head(s) = s[1]
  BY LenProperties, EmptySeq, HeadTailProperties
<1>2. \A i \in DOMAIN t : t[i] = s[i + 1] /\ i + 1 \in DOMAIN s /\ i \in Nat
  BY <1>1, HeadTailProperties
<1>3. \A i \in DOMAIN s : i = 1 \/ \E j \in DOMAIN t : i = j + 1
  <2>1. \A i \in 1..Len(s) : i = 1 \/ (i - 1 \in 1..(Len(s) - 1) /\ i = (i - 1) + 1)
    BY <1>1
  <2> HIDE DEF t
  <2> QED
    BY <1>1, <2>1
<1>4. 1 \in DOMAIN s /\ \A i \in DOMAIN t : 1 < i + 1
  BY <1>1
<1>5. (Len(s) > 1) <=> (t # <<>>)
  <2>1. (Len(t) = 0) <=> (t = <<>>)
    BY <1>1, EmptySeq
  <2> QED
    BY <1>1, <2>1
<1> HIDE DEF t
<1>6. Range(s) = {s[1]} \cup Range(t)
  BY <1>2, <1>3, <1>4 DEF Range
<1>7. IsInjective(s) => IsInjective(t)
  BY <1>2 DEF IsInjective
<1>8. IsInjective(s) => s[1] \notin Range(t)
  BY <1>2, <1>4 DEF IsInjective, Range
<1>9. ASSUME NEW reversed \in BOOLEAN, InOrder(s, reversed)
      PROVE  /\ InOrder(t, reversed)
             /\ \A n \in Range(t) : ~Less(n, s[1], reversed)
  <2>1. \A i, j \in DOMAIN t : i < j => i + 1 < j + 1
    BY <1>1
  <2>2. InOrder(t, reversed)
    BY <1>2, <1>9, <2>1 DEF InOrder
  <2>3. \A n \in Range(t) : ~Less(n, s[1], reversed)
    BY <1>2, <1>4, <1>9 DEF InOrder, Range
  <2> QED
    BY <2>2, <2>3
<1> QED
  BY <1>1, <1>5, <1>6, <1>7, <1>8, <1>9 DEF t

(* A list is empty when it names no node.                                   *)
LEMMA EmptyRange ==
    ASSUME NEW S, NEW s \in Seq(S)
    PROVE  (s = <<>>) <=> (Range(s) = {})
<1>1. Range(s) = {s[i] : i \in 1..Len(s)} /\ Len(s) \in Nat
  BY RangeEquality, LenProperties
<1>2. ASSUME s # <<>> PROVE Range(s) # {}
  <2>1. Len(s) \in Nat \ {0}
    BY <1>2, EmptySeq
  <2> QED
    BY <1>1, <2>1
<1>3. ASSUME s = <<>> PROVE Range(s) = {}
  BY <1>1, <1>3, EmptySeq
<1> QED
  BY <1>2, <1>3

(* Adding a node at the end of a list.                                      *)
LEMMA AppendKeeps ==
    ASSUME NEW S, NEW s \in Seq(S), NEW n \in S
    PROVE  /\ Append(s, n) \in Seq(S) /\ Append(s, n) # <<>>
           /\ Range(Append(s, n)) = Range(s) \cup {n}
           /\ IsInjective(s) /\ n \notin Range(s) => IsInjective(Append(s, n))
<1> DEFINE a == Append(s, n)
           N == Len(s)
<1>1. /\ N \in Nat /\ DOMAIN s = 1..N
      /\ a \in Seq(S) /\ Len(a) = N + 1 /\ DOMAIN a = 1..(N + 1)
  BY LenProperties, AppendProperties
<1>2. \A i \in DOMAIN a : i \in DOMAIN s \/ i = N + 1
  BY <1>1
<1>3. /\ \A i \in DOMAIN s : i \in DOMAIN a /\ a[i] = s[i]
      /\ N + 1 \in DOMAIN a /\ a[N + 1] = n
  BY <1>1, AppendProperties
<1>4. a # <<>>
  BY <1>1, EmptySeq
<1> HIDE DEF a
<1>5. Range(a) = Range(s) \cup {n}
  BY <1>2, <1>3 DEF Range
<1>6. IsInjective(s) /\ n \notin Range(s) => IsInjective(a)
  BY <1>2, <1>3 DEF IsInjective, Range
<1> QED
  BY <1>1, <1>4, <1>5, <1>6 DEF a

-----------------------------------------------------------------------------
(* The order of rollingReplace *)

(* As state.json lists them: within a role by index.                        *)
ByIndex(s) ==
    \A i, j \in DOMAIN s : i < j /\ s[i].role = s[j].role => s[i].idx < s[j].idx

(* That a node is rolled before another.                                    *)
RollsBefore(m, n) ==
    \/ m.role = "server" /\ n.role = "agent"
    \/ m.role = n.role /\ m.idx < n.idx

(* A command that appends a node under an index above those of its role     *)
(* keeps the list so.                                                       *)
LEMMA AppendByIndex ==
    ASSUME NEW s \in Seq(Records), NEW n \in Records, ByIndex(s),
           \A m \in Range(s) : m.role = n.role => m.idx < n.idx
    PROVE  ByIndex(Append(s, n))
<1> DEFINE a == Append(s, n)
           N == Len(s)
<1>1. N \in Nat /\ DOMAIN s = 1..N /\ DOMAIN a = 1..(N + 1)
  BY LenProperties, AppendProperties
<1>2. \A i \in DOMAIN s : a[i] = s[i] /\ s[i] \in Range(s)
  BY <1>1, AppendProperties DEF Range
<1>3. a[N + 1] = n
  BY AppendProperties
<1>4. \A i, j \in DOMAIN a : i < j => i \in DOMAIN s /\ (j \in DOMAIN s \/ j = N + 1)
  BY <1>1
<1> HIDE DEF a, N
<1>5. ByIndex(a)
  BY <1>2, <1>3, <1>4 DEF ByIndex
<1> QED
  BY <1>5 DEF a

(* So is the list of the nodes of some roles.                               *)
LEMMA FilterByIndex ==
    ASSUME NEW S, NEW s \in Seq(S), NEW roles, ByIndex(s)
    PROVE  ByIndex(WithRoles(s, roles))
<1> DEFINE w == WithRoles(s, roles)
<1>1. PICK p \in [DOMAIN w -> DOMAIN s] :
        /\ \A k \in DOMAIN w : w[k] = s[p[k]]
        /\ \A k, l \in DOMAIN w : k < l => p[k] < p[l]
  BY WithRolesTakes
<1> HIDE DEF w
<1>2. ByIndex(w)
  BY <1>1 DEF ByIndex
<1> QED
  BY <1>2 DEF w

(* Of the list that UpgradeOrder returns, each node is rolled before those  *)
(* behind it.                                                               *)
LEMMA UpgradeOrderRolls ==
    ASSUME NEW s \in Seq(Records), ByIndex(s)
    PROVE  /\ UpgradeOrder(s) \in Seq(Records)
           /\ Range(UpgradeOrder(s)) = {n \in Range(s) : n.role \in {"server", "agent"}}
           /\ \A i, j \in DOMAIN UpgradeOrder(s) :
                i < j => RollsBefore(UpgradeOrder(s)[i], UpgradeOrder(s)[j])
<1> DEFINE v == NodesWithRole(s, "server")
           a == NodesWithRole(s, "agent")
           c == v \o a
           M == Len(v)
           N == Len(a)
<1>1. /\ v \in Seq(Records) /\ Range(v) = {n \in Range(s) : n.role = "server"}
      /\ ByIndex(v)
  BY WithRolesKeeps, FilterByIndex DEF NodesWithRole
<1>2. /\ a \in Seq(Records) /\ Range(a) = {n \in Range(s) : n.role = "agent"}
      /\ ByIndex(a)
  BY WithRolesKeeps, FilterByIndex DEF NodesWithRole
<1> HIDE DEF v, a
<1>3. /\ M \in Nat /\ N \in Nat /\ DOMAIN v = 1..M /\ DOMAIN a = 1..N
      /\ c \in Seq(Records) /\ DOMAIN c = 1..(M + N)
  BY <1>1, <1>2, LenProperties, ConcatProperties
<1>4. \A i \in 1..(M + N) : c[i] = IF i <= M THEN v[i] ELSE a[i - M]
  BY <1>1, <1>2, ConcatProperties
<1>5. Range(c) = Range(v) \cup Range(a)
  BY <1>1, <1>2, RangeConcatenation
<1>6. /\ \A i \in DOMAIN v : v[i].role = "server"
      /\ \A i \in DOMAIN a : a[i].role = "agent"
  BY <1>1, <1>2 DEF Range
<1>7. ASSUME NEW i \in DOMAIN c, NEW j \in DOMAIN c, i < j
      PROVE  RollsBefore(c[i], c[j])
  <2>1. CASE j <= M
    <3>1. i \in DOMAIN v /\ j \in DOMAIN v /\ c[i] = v[i] /\ c[j] = v[j]
      BY <1>3, <1>4, <1>7, <2>1
    <3> QED
      BY <1>1, <1>6, <1>7, <3>1 DEF ByIndex, RollsBefore
  <2>2. CASE i <= M /\ ~(j <= M)
    <3>1. i \in DOMAIN v /\ j - M \in DOMAIN a /\ c[i] = v[i] /\ c[j] = a[j - M]
      BY <1>3, <1>4, <1>7, <2>2
    <3> QED
      BY <1>6, <3>1 DEF RollsBefore
  <2>3. CASE ~(i <= M)
    <3>1. /\ i - M \in DOMAIN a /\ j - M \in DOMAIN a /\ i - M < j - M
          /\ c[i] = a[i - M] /\ c[j] = a[j - M]
      BY <1>3, <1>4, <1>7, <2>3
    <3> QED
      BY <1>2, <1>6, <3>1 DEF ByIndex, RollsBefore
  <2> QED
    BY <1>3, <2>1, <2>2, <2>3
<1>8. UpgradeOrder(s) = c
  BY DEF UpgradeOrder, v, a
<1> HIDE DEF c
<1>9. Range(c) = {n \in Range(s) : n.role \in {"server", "agent"}}
  BY <1>1, <1>2, <1>5
<1> QED
  BY <1>3, <1>7, <1>8, <1>9

(* rollingReplace goes through that list; RollingReplace has the set of the *)
(* nodes it is not done with instead, and takes the first of them to roll.  *)
(* It is the same: what is left of the list from any place on has the node  *)
(* at that place as its first.                                              *)
THEOREM RollsTheList ==
    ASSUME NEW s \in Seq(Records), ByIndex(s)
    PROVE  LET o == UpgradeOrder(s)
           IN  \A i \in DOMAIN o : FirstToRoll({o[j] : j \in i..Len(o)}) = {o[i]}
<1> DEFINE o == UpgradeOrder(s)
<1>1. o \in Seq(Records) /\ \A i, j \in DOMAIN o : i < j => RollsBefore(o[i], o[j])
  BY UpgradeOrderRolls
<1>2. DOMAIN o = 1..Len(o) /\ Len(o) \in Nat /\ \A i \in DOMAIN o : o[i] \in Records
  BY <1>1, LenProperties, ElementOfSeq
<1> HIDE DEF o
<1>3. \A m, n \in Records : RollsBefore(m, n) => m # n /\ ~RollsBefore(n, m)
  BY DEF RollsBefore, Records
<1>4. ASSUME NEW i \in DOMAIN o
      PROVE  FirstToRoll({o[j] : j \in i..Len(o)}) = {o[i]}
  <2> DEFINE rest == {o[j] : j \in i..Len(o)}
  <2>1. \A j \in i..Len(o) : j \in DOMAIN o /\ (j = i \/ i < j)
    BY <1>2, <1>4
  <2>2. o[i] \in rest
    BY <1>2, <1>4
  <2>3. \A m \in rest \ {o[i]} : RollsBefore(o[i], m) /\ m \in Records
    BY <1>1, <1>2, <1>4, <2>1
  <2>4. o[i] \in Records
    BY <1>2, <1>4
  <2> HIDE DEF rest
  <2>5. \A n \in FirstToRoll(rest) : n = o[i]
    BY <1>3, <2>2, <2>3, <2>4 DEF FirstToRoll, RollsBefore
  <2>6. o[i] \in FirstToRoll(rest)
    BY <2>2, <2>3 DEF FirstToRoll, RollsBefore
  <2> QED
    BY <2>5, <2>6 DEF rest
<1> QED
  BY <1>4 DEF o
=============================================================================

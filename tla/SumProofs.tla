------------------------------ MODULE SumProofs ------------------------------
(***************************************************************************)
(* What the sums of the trackers' statistics compute.  MapThenSumSet is a  *)
(* recursive function on the subsets of its argument; that the function    *)
(* exists and what it says of every subset follows by induction on the     *)
(* size of the subset, in the form of the least-number principle: a set of *)
(* naturals that is not empty has a least element.                         *)
(***************************************************************************)
EXTENDS Integers, FiniteSets, FiniteSetTheorems, WellFoundedInduction, TLAPS

LEMMA LeastNumber ==
    ASSUME NEW T, T \subseteq Nat, T # {}
    PROVE  \E x \in T : \A y \in T : x <= y
  <1>1. PICK R : R = OpToRel(<, Nat)
    BY Zenon
  <1>2. IsWellFoundedOn(R, Nat)
    BY <1>1, NatLessThanWellFounded, Zenon
  <1>3. PICK x \in T : \A y \in T : ~ (<<y, x>> \in R)
    BY <1>2, WFMin
  <1>4. \A a, b \in Nat : a < b => <<a, b>> \in R
    BY <1>1 DEF OpToRel
  <1>5. ASSUME NEW y \in T PROVE x <= y
    <2>1. ~ (y < x)
      BY <1>3, <1>4
    <2> QED BY <2>1
  <1> QED BY <1>5

(* Induction over a set of naturals                                        *)
LEMMA Induction ==
    ASSUME NEW Good, 0 \in Good, \A n \in Nat : n \in Good => n + 1 \in Good
    PROVE  Nat \subseteq Good
  <1> SUFFICES ASSUME Nat \ Good # {} PROVE FALSE
    OBVIOUS
  <1>1. PICK n \in Nat \ Good : \A m \in Nat \ Good : n <= m
    BY LeastNumber
  <1>2. n # 0
    BY <1>1
  <1>3. n - 1 \in Nat /\ n - 1 < n
    BY <1>2
  <1>4. n - 1 \in Good
    BY <1>1, <1>3
  <1>5. (n - 1) + 1 \in Good
    BY <1>3, <1>4
  <1> QED BY <1>1, <1>5

-----------------------------------------------------------------------------
(* Sums by choosing one element after the other                            *)

Pick(s) == CHOOSE x \in s : TRUE
Rest(s) == s \ {Pick(s)}

(* it adds up g over every subset of S                                     *)
Sums(it, g, S) ==
    it = [s \in SUBSET S |-> IF s = {} THEN 0 ELSE g[Pick(s)] + it[s \ {Pick(s)}]]

LEMMA RestIsSmaller ==
    ASSUME NEW S, IsFiniteSet(S), NEW s \in SUBSET S, s # {}
    PROVE  /\ Pick(s) \in s /\ Rest(s) \in SUBSET S
           /\ Cardinality(s) \in Nat \ {0}
           /\ Cardinality(Rest(s)) = Cardinality(s) - 1
           /\ Rest(s) \subseteq s
  <1>1. Pick(s) \in s
    BY DEF Pick
  <1>2. IsFiniteSet(s)
    BY FS_Subset
  <1>3. Cardinality(s) \in Nat /\ Cardinality(s) # 0
    BY <1>2, FS_CardinalityType, FS_EmptySet
  <1>4. Cardinality(s \ {Pick(s)}) = Cardinality(s) - 1
    BY <1>1, <1>2, FS_RemoveElement
  <1> QED BY <1>1, <1>3, <1>4 DEF Rest

(* it adds up g over the subsets of at most n elements                     *)
SumsUpTo(it, g, S, n) ==
    \A s \in SUBSET S : Cardinality(s) <= n =>
        it[s] = IF s = {} THEN 0 ELSE g[Pick(s)] + it[Rest(s)]

LEMMA SumExists ==
    ASSUME NEW S, IsFiniteSet(S), NEW g
    PROVE  \E it : Sums(it, g, S)
  <1>s. \A s \in SUBSET S : Cardinality(s) \in Nat /\ (Cardinality(s) = 0 <=> s = {})
    BY FS_Subset, FS_CardinalityType, FS_EmptySet
  <1> DEFINE Good == {n \in Nat : \E it : SumsUpTo(it, g, S, n)}
  <1>1. 0 \in Good
    <2>1. PICK it : it = [s \in SUBSET S |-> 0]
      OBVIOUS
    <2>2. SumsUpTo(it, g, S, 0)
      BY <1>s, <2>1 DEF SumsUpTo
    <2> QED BY <2>2
  <1>2. ASSUME NEW n \in Nat, n \in Good PROVE n + 1 \in Good
    <2>1. PICK old : SumsUpTo(old, g, S, n)
      BY <1>2
    <2>2. PICK new : new = [s \in SUBSET S |->
                              IF Cardinality(s) <= n THEN old[s] ELSE g[Pick(s)] + old[Rest(s)]]
      OBVIOUS
    <2>3. ASSUME NEW s \in SUBSET S, Cardinality(s) <= n + 1
          PROVE  new[s] = IF s = {} THEN 0 ELSE g[Pick(s)] + new[Rest(s)]
      <3>1. CASE s = {}
        <4>1. Cardinality(s) <= n
          BY <1>s, <3>1
        <4> QED BY <2>1, <2>2, <3>1, <4>1 DEF SumsUpTo
      <3>2. CASE s # {}
        <4>1. Rest(s) \in SUBSET S /\ Cardinality(Rest(s)) = Cardinality(s) - 1
          BY <3>2, RestIsSmaller
        <4>2. Cardinality(Rest(s)) <= n
          BY <1>s, <2>3, <4>1
        <4>3. new[Rest(s)] = old[Rest(s)]
          BY <2>2, <4>1, <4>2
        <4>4. new[s] = g[Pick(s)] + old[Rest(s)]
          BY <2>1, <2>2, <3>2 DEF SumsUpTo
        <4> QED BY <3>2, <4>3, <4>4
      <3> QED BY <3>1, <3>2
    <2>4. SumsUpTo(new, g, S, n + 1)
      BY <2>3 DEF SumsUpTo
    <2> QED BY <2>4
  <1>3. Nat \subseteq Good
    <2> HIDE DEF Good
    <2> QED BY <1>1, <1>2, Induction
  <1>4. PICK it : SumsUpTo(it, g, S, Cardinality(S))
    BY <1>3, FS_CardinalityType
  <1>5. PICK sum : sum = [s \in SUBSET S |-> it[s]]
    OBVIOUS
  <1>6. ASSUME NEW s \in SUBSET S
        PROVE  sum[s] = IF s = {} THEN 0 ELSE g[Pick(s)] + sum[s \ {Pick(s)}]
    <2>1. Cardinality(s) <= Cardinality(S)
      BY FS_Subset
    <2>2. it[s] = IF s = {} THEN 0 ELSE g[Pick(s)] + it[Rest(s)]
      BY <1>4, <2>1 DEF SumsUpTo
    <2>3. Rest(s) = s \ {Pick(s)} /\ Rest(s) \in SUBSET S
      BY DEF Rest
    <2> QED BY <1>5, <2>2, <2>3
  <1> QED BY <1>5, <1>6 DEF Sums

-----------------------------------------------------------------------------
(* A sum lies between its size times the smallest and the largest summand  *)

Between(it, g, s) ==
    /\ it[s] \in Int
    /\ s # {} => /\ \E x \in s : g[x] * Cardinality(s) <= it[s]
                 /\ \E x \in s : it[s] <= g[x] * Cardinality(s)

LEMMA OneMore ==
    ASSUME NEW a \in Int, NEW b \in Int, NEW n \in Nat, NEW t \in Int
    PROVE  /\ a <= b /\ t <= b * n => a + t <= b * (n + 1)
           /\ b <= a /\ t <= b * n => a + t <= a * (n + 1)
           /\ b <= a /\ b * n <= t => b * (n + 1) <= a + t
           /\ a <= b /\ b * n <= t => a * (n + 1) <= a + t
  <1>1. b * (n + 1) = b * n + b /\ a * (n + 1) = a * n + a
    OBVIOUS
  <1>2. a <= b => a * n <= b * n
    OBVIOUS
  <1>3. b <= a => b * n <= a * n
    OBVIOUS
  <1>4. b * n \in Int /\ a * n \in Int
    OBVIOUS
  <1> QED BY <1>1, <1>2, <1>3, <1>4

LEMMA SumIsBetween ==
    ASSUME NEW S, IsFiniteSet(S), NEW g \in [S -> Int], NEW it, Sums(it, g, S)
    PROVE  \A s \in SUBSET S : Between(it, g, s)
  <1>s. \A s \in SUBSET S : Cardinality(s) \in Nat /\ (Cardinality(s) = 0 <=> s = {})
    BY FS_Subset, FS_CardinalityType, FS_EmptySet
  <1>i. \A s \in SUBSET S : it[s] = IF s = {} THEN 0 ELSE g[Pick(s)] + it[Rest(s)]
    BY DEF Sums, Rest
  <1> DEFINE Good == {n \in Nat : \A s \in SUBSET S : Cardinality(s) <= n => Between(it, g, s)}
  <1>1. 0 \in Good
    <2>1. ASSUME NEW s \in SUBSET S, Cardinality(s) <= 0 PROVE Between(it, g, s)
      <3>1. s = {}
        BY <1>s, <2>1
      <3> QED BY <1>i, <3>1 DEF Between
    <2> QED BY <2>1
  <1>2. ASSUME NEW n \in Nat, n \in Good PROVE n + 1 \in Good
    <2>1. ASSUME NEW s \in SUBSET S, Cardinality(s) = n + 1 PROVE Between(it, g, s)
      <3>1. s # {}
        BY <1>s, <2>1
      <3>2. /\ Pick(s) \in s /\ Rest(s) \in SUBSET S /\ Rest(s) \subseteq s
            /\ Cardinality(Rest(s)) = n
        BY <2>1, <3>1, RestIsSmaller
      <3>3. Between(it, g, Rest(s))
        BY <1>2, <3>2
      <3>4. PICK a \in Int : a = g[Pick(s)]
        BY <3>2
      <3>5. PICK t \in Int : t = it[Rest(s)]
        BY <3>3 DEF Between
      <3>6. it[s] = a + t
        BY <1>i, <3>1, <3>4, <3>5
      <3>7. CASE Rest(s) = {}
        <4>1. t = 0 /\ n = 0
          BY <1>i, <1>s, <3>2, <3>5, <3>7
        <4>2. it[s] = a /\ Cardinality(s) = 1
          BY <2>1, <3>6, <4>1
        <4>3. g[Pick(s)] * Cardinality(s) = it[s]
          BY <3>4, <4>2
        <4> QED BY <3>2, <4>2, <4>3 DEF Between
      <3>8. CASE Rest(s) # {}
        <4>1. PICK x \in Rest(s) : g[x] * n <= t
          BY <3>2, <3>3, <3>5, <3>8 DEF Between
        <4>2. PICK y \in Rest(s) : t <= g[y] * n
          BY <3>2, <3>3, <3>5, <3>8 DEF Between
        <4>3. PICK b \in Int : b = g[x]
          BY <3>2
        <4>4. PICK c \in Int : c = g[y]
          BY <3>2
        <4>5. \E z \in s : g[z] * (n + 1) <= a + t
          <5>1. CASE b <= a
            BY <3>2, <4>1, <4>3, <5>1, OneMore
          <5>2. CASE a <= b
            <6>1. a * (n + 1) <= a + t
              BY <4>1, <4>3, <5>2, OneMore
            <6> QED BY <3>2, <3>4, <6>1
          <5> QED BY <5>1, <5>2
        <4>6. \E z \in s : a + t <= g[z] * (n + 1)
          <5>1. CASE a <= c
            BY <3>2, <4>2, <4>4, <5>1, OneMore
          <5>2. CASE c <= a
            <6>1. a + t <= a * (n + 1)
              BY <4>2, <4>4, <5>2, OneMore
            <6> QED BY <3>2, <3>4, <6>1
          <5> QED BY <5>1, <5>2
        <4> QED BY <2>1, <3>6, <4>5, <4>6 DEF Between
      <3> QED BY <3>7, <3>8
    <2>2. ASSUME NEW s \in SUBSET S, Cardinality(s) <= n + 1 PROVE Between(it, g, s)
      <3>1. Cardinality(s) <= n \/ Cardinality(s) = n + 1
        BY <1>s, <2>2
      <3> QED BY <1>2, <2>1, <3>1
    <2> QED BY <2>2
  <1>3. Nat \subseteq Good
    <2> HIDE DEF Good
    <2> QED BY <1>1, <1>2, Induction
  <1> QED BY <1>3, <1>s

(* An average that is rounded down lies between two summands too           *)
LEMMA Average ==
    ASSUME NEW a \in Nat, NEW n \in Nat \ {0}, NEW lo \in Nat, NEW hi \in Nat,
           lo * n <= a, a <= hi * n
    PROVE  lo <= a \div n /\ a \div n <= hi
  <1>1. PICK d \in Nat : d = a \div n /\ n * d <= a /\ a < n * d + n
    OBVIOUS
  <1>2. ~(d < lo)
    <2>1. d < lo => (d + 1) * n <= lo * n
      OBVIOUS
    <2>2. (d + 1) * n = n * d + n
      OBVIOUS
    <2> QED BY <1>1, <2>1, <2>2
  <1>3. ~(hi < d)
    <2>1. hi < d => (hi + 1) * n <= d * n
      OBVIOUS
    <2>2. (hi + 1) * n = hi * n + n /\ d * n = n * d
      OBVIOUS
    <2> QED BY <1>1, <2>1, <2>2
  <1> QED BY <1>1, <1>2, <1>3
=============================================================================

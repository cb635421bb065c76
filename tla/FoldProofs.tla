------------------------------ MODULE FoldProofs ------------------------------
(***************************************************************************)
(* Induction over the natural numbers, stated with sets, and what it says  *)
(* of the function by which a fold of SequencesExt is computed: that it    *)
(* exists.  The facts are about no code in particular.                     *)
(***************************************************************************)
EXTENDS FiniteSetsExt, WellFoundedInduction, TLAPS

\* A set of natural numbers that is not empty has a least member.
LEMMA SmallestOf ==
  ASSUME NEW T \in SUBSET Nat, T # {}
  PROVE  \E m \in T : \A n \in T : m <= n
<1> DEFINE R == {ss \in Nat \X Nat : ss[1] < ss[2]}
<1>1. IsWellFoundedOn(R, Nat)
  BY NatLessThanWellFounded DEF OpToRel
<1>2. \A m, n \in Nat : <<m, n>> \in R <=> m < n
  OBVIOUS
<1> HIDE DEF R
<1>3. PICK m \in T : \A n \in T : ~ (<<n, m>> \in R)
  BY <1>1, WFMin
<1>4. m \in Nat /\ \A n \in T : n \in Nat /\ ~ (n < m)
  BY <1>2, <1>3
<1>5. \A n \in T : m <= n
  BY <1>4
<1> QED BY <1>5

\* A set that 0 is in, and with each number the next, has all of them.
LEMMA SetInduction ==
  ASSUME NEW S, 0 \in S, \A n \in Nat : n \in S => n + 1 \in S
  PROVE  Nat \subseteq S
<1> DEFINE T == Nat \ S
<1> SUFFICES ASSUME T # {} PROVE FALSE
  OBVIOUS
<1>1. PICK m \in T : \A n \in T : m <= n
  BY SmallestOf
<1>2. m # 0 /\ m \in Nat
  OBVIOUS
<1>3. m - 1 \in Nat /\ m - 1 \notin T
  BY <1>1, <1>2
<1>4. (m - 1) + 1 \in S
  BY <1>3
<1> QED BY <1>2, <1>4

\* A set of numbers up to n that is not empty has a greatest member.
LEMMA MaxFacts ==
  ASSUME NEW n \in Nat, NEW s \in SUBSET (1 .. n), s # {}
  PROVE  Max(s) \in s /\ \A y \in s : y <= Max(s)
<1> DEFINE T == {m \in Nat : \A y \in s : y <= m}
<1>1. n \in T
  OBVIOUS
<1>2. PICK m \in T : \A k \in T : m <= k
  <2> HIDE DEF T
  <2>1. T \in SUBSET Nat
    BY DEF T
  <2> QED BY <1>1, <2>1, SmallestOf
<1>3. m \in s
  <2> SUFFICES ASSUME m \notin s PROVE FALSE
    OBVIOUS
  <2>1. \A y \in s : y \in Nat /\ y >= 1 /\ y < m
    BY <1>2
  <2>2. m - 1 \in Nat
    <3>1. PICK y \in s : TRUE
      OBVIOUS
    <3>2. y \in Nat /\ y >= 1 /\ y < m /\ m \in Nat
      BY <2>1, <3>1
    <3> QED BY <3>2
  <2>3. \A y \in s : y <= m - 1
    BY <2>1, <2>2
  <2> QED BY <1>2, <2>2, <2>3
<1>4. \A y \in s : m >= y
  BY <1>2
<1>5. Max(s) \in s /\ \A y \in s : Max(s) >= y
  BY <1>3, <1>4 DEF Max
<1> QED BY <1>5

\* g is what the fold of F over each set of numbers up to n is, the greatest last.
FoldsBy(g, n, base, F) ==
  g = [s \in SUBSET (1 .. n) |-> IF s = {} THEN base ELSE F[<<Max(s), g[s \ {Max(s)}]>>]]

\* A fold whose steps stay in a set V is a function to V.
LEMMA FoldExists ==
  ASSUME NEW V, NEW base \in V, NEW N \in Nat, NEW F \in [(1 .. N) \X V -> V]
  PROVE  \E g \in [SUBSET (1 .. N) -> V] : FoldsBy(g, N, base, F)
<1> DEFINE Exists(n) == \E g \in [SUBSET (1 .. n) -> V] : FoldsBy(g, n, base, F)
           S == {n \in Nat : n <= N => Exists(n)}
<1>1. 0 \in S
  <2> DEFINE g == [s \in SUBSET (1 .. 0) |-> base]
  <2>1. \A s \in SUBSET (1 .. 0) : s = {}
    OBVIOUS
  <2>2. g \in [SUBSET (1 .. 0) -> V]
    OBVIOUS
  <2>3. \A s \in SUBSET (1 .. 0) :
          g[s] = IF s = {} THEN base ELSE F[<<Max(s), g[s \ {Max(s)}]>>]
    BY <2>1
  <2>4. FoldsBy(g, 0, base, F)
    <3> HIDE DEF g
    <3> QED BY <2>2, <2>3 DEF FoldsBy
  <2>5. Exists(0)
    BY <2>2, <2>4
  <2> QED BY <2>5
<1>2. ASSUME NEW n \in Nat, n \in S, n + 1 <= N PROVE Exists(n + 1)
  <2>0. Exists(n)
    <3> HIDE DEF Exists
    <3> QED BY <1>2
  <2>1. PICK g \in [SUBSET (1 .. n) -> V] : FoldsBy(g, n, base, F)
    BY <2>0
  <2> DEFINE h == [s \in SUBSET (1 .. (n + 1)) |->
                     IF n + 1 \in s THEN F[<<n + 1, g[s \ {n + 1}]>>] ELSE g[s]]
  <2>2. \A s \in SUBSET (1 .. (n + 1)) : s \ {n + 1} \in SUBSET (1 .. n)
    OBVIOUS
  <2>3. \A s \in SUBSET (1 .. (n + 1)) : n + 1 \notin s => s \in SUBSET (1 .. n)
    OBVIOUS
  <2>4. n + 1 \in 1 .. N
    BY <1>2
  <2>5. h \in [SUBSET (1 .. (n + 1)) -> V]
    BY <2>2, <2>3, <2>4
  <2>6. ASSUME NEW s \in SUBSET (1 .. (n + 1))
        PROVE  h[s] = IF s = {} THEN base ELSE F[<<Max(s), h[s \ {Max(s)}]>>]
    <3>1. CASE n + 1 \in s
      <4>1. Max(s) = n + 1
        <5>1. Max(s) \in s /\ \A y \in s : y <= Max(s)
          BY <3>1, MaxFacts, n + 1 \in Nat
        <5>2. Max(s) \in 1 .. n + 1 /\ n + 1 <= Max(s)
          BY <3>1, <5>1
        <5> QED BY <5>2
      <4>2. h[s \ {n + 1}] = g[s \ {n + 1}]
        BY <2>2
      <4> QED BY <3>1, <4>1, <4>2
    <3>2. CASE n + 1 \notin s /\ s # {}
      <4>1. s \in SUBSET (1 .. n) /\ Max(s) \in s
        BY <3>2, <2>3, MaxFacts
      <4>2. g[s] = F[<<Max(s), g[s \ {Max(s)}]>>]
        BY <2>1, <3>2, <4>1 DEF FoldsBy
      <4>3. h[s \ {Max(s)}] = g[s \ {Max(s)}]
        BY <3>2, <4>1
      <4> QED BY <3>2, <4>2, <4>3
    <3>3. CASE s = {}
      BY <2>1, <3>3 DEF FoldsBy
    <3> QED BY <3>1, <3>2, <3>3
  <2>7. FoldsBy(h, n + 1, base, F)
    <3> HIDE DEF h
    <3> QED BY <2>5, <2>6 DEF FoldsBy
  <2> QED BY <2>5, <2>7
<1>3. \A n \in Nat : n \in S => n + 1 \in S
  <2> HIDE DEF Exists
  <2> QED BY <1>2
<1>4. N \in S
  <2> HIDE DEF S
  <2> QED BY <1>1, <1>3, SetInduction
<1>5. Exists(N)
  <2> HIDE DEF Exists
  <2> QED BY <1>4
<1> QED BY <1>5

\* The numbers up to the next.
LEMMA UpToNext ==
  ASSUME NEW k \in Nat
  PROVE  /\ 1 .. 0 = {}
         /\ 1 .. (k + 1) # {}
         /\ Max(1 .. (k + 1)) = k + 1
         /\ (1 .. (k + 1)) \ {k + 1} = 1 .. k
<1>1. 1 .. (k + 1) \in SUBSET (1 .. (k + 1)) /\ k + 1 \in 1 .. (k + 1)
  OBVIOUS
<1>2. Max(1 .. (k + 1)) \in 1 .. (k + 1) /\ k + 1 <= Max(1 .. (k + 1))
  BY <1>1, MaxFacts, k + 1 \in Nat
<1> QED BY <1>2
=============================================================================

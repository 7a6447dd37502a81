----------------------------- MODULE Induction -----------------------------
(***************************************************************************)
(* Induction without operator parameters: what the proofs about the folds  *)
(* of the model rest on.  A property of the naturals is stated as the set  *)
(* of those that have it, and a fold by a function of the elements.        *)
(***************************************************************************)
EXTENDS Integers, SequencesExt, FiniteSetTheorems, WellFoundedInduction, TLAPS

\* The intervals from 1 to what is not in T would have no least one.
LEMMA NatSetInduction ==
  ASSUME NEW T \in SUBSET Nat, 0 \in T, \A n \in T : n + 1 \in T
  PROVE T = Nat
<1> DEFINE U == Nat \ T
           B == {1 .. n : n \in U}
           R == StrictSubsetOrdering(Nat)
<1>1. SUFFICES ASSUME U # {} PROVE FALSE
  OBVIOUS
<1>2. B \subseteq FiniteSubsetsOf(Nat) /\ B # {}
  <2>1. ASSUME NEW n \in U PROVE 1 .. n \in FiniteSubsetsOf(Nat)
    <3>1. IsFiniteSet(1 .. n)
      BY FS_Interval
    <3> QED BY <3>1 DEF FiniteSubsetsOf
  <2> QED BY <1>1, <2>1
<1>3. IsWellFoundedOn(R, FiniteSubsetsOf(Nat))
  BY FS_StrictSubsetOrderingWellFounded
<1>4. PICK b \in B : \A y \in B : ~ (<<y, b>> \in R)
  <2> HIDE DEF B, R
  <2> QED BY <1>2, <1>3, WFMin
<1>5. PICK n \in U : b = 1 .. n
  OBVIOUS
<1>6. n # 0 /\ n - 1 \in Nat
  OBVIOUS
<1>7. n - 1 \in U
  BY <1>6
<1>8. 1 .. n - 1 \subseteq 1 .. n /\ n \in 1 .. n /\ n \notin 1 .. n - 1
  BY <1>6
<1>9. <<1 .. n - 1, b>> \in R
  BY <1>8, <1>5, <1>6 DEF StrictSubsetOrdering
<1> QED BY <1>4, <1>7, <1>9

\* Greatest and least positions; FoldLeft takes the last one that is left.
LEMMA MaxOfInterval ==
  ASSUME NEW n \in Nat, NEW s \in SUBSET (1 .. n), s # {}
  PROVE  Max(s) \in s /\ \A y \in s : y <= Max(s)
<1> DEFINE P(m) == (\E y \in s : y <= m)
                     => \E x \in s : x <= m /\ \A y \in s : y <= m => y <= x
           T == {m \in Nat : P(m)}
<1>1. P(0)
  OBVIOUS
<1>2. ASSUME NEW m \in Nat, P(m) PROVE P(m + 1)
  <2>1. CASE m + 1 \in s
    BY <2>1
  <2>2. CASE m + 1 \notin s
    <3>1. \A y \in s : y <= m + 1 <=> y <= m
      BY <2>2
    <3> QED BY <3>1, <1>2
  <2> QED BY <2>1, <2>2
<1>3. T = Nat
  <2>1. T \in SUBSET Nat
    OBVIOUS
  <2>2. 0 \in T
    BY <1>1
  <2>3. \A m \in T : m + 1 \in T
    <3> HIDE DEF P
    <3> QED BY <1>2
  <2> HIDE DEF T
  <2> QED BY <2>1, <2>2, <2>3, NatSetInduction
<1>4. P(n)
  <2> HIDE DEF P
  <2> QED BY <1>3
<1>5. PICK x \in s : \A y \in s : y <= x
  <2>1. \A y \in s : y \in Nat /\ y <= n
    OBVIOUS
  <2>2. \E y \in s : y <= n
    BY <2>1
  <2>3. \E x \in s : x <= n /\ \A y \in s : y <= n => y <= x
    BY <1>4, <2>2
  <2> QED BY <2>1, <2>3
<1>6. \E z \in s : \A y \in s : z >= y
  BY <1>5
<1> QED BY <1>6 DEF Max

LEMMA MinOfInterval ==
  ASSUME NEW n \in Nat, NEW s \in SUBSET (1 .. n), s # {}
  PROVE  Min(s) \in s /\ \A y \in s : Min(s) <= y
<1> DEFINE P(m) == (\E y \in s : y <= m) => \E x \in s : \A y \in s : x <= y
           T == {m \in Nat : P(m)}
<1>1. P(0)
  OBVIOUS
<1>2. ASSUME NEW m \in Nat, P(m) PROVE P(m + 1)
  <2>1. CASE \E y \in s : y <= m
    BY <1>2, <2>1
  <2>2. CASE \A y \in s : ~(y <= m)
    <3>1. \A y \in s : m + 1 <= y
      BY <2>2
    <3>2. ASSUME NEW y \in s, y <= m + 1 PROVE y = m + 1
      BY <3>1, <3>2
    <3> QED BY <3>1, <3>2
  <2> QED BY <2>1, <2>2
<1>3. T = Nat
  <2>1. T \in SUBSET Nat
    OBVIOUS
  <2>2. 0 \in T
    BY <1>1
  <2>3. \A m \in T : m + 1 \in T
    <3> HIDE DEF P
    <3> QED BY <1>2
  <2> HIDE DEF T
  <2> QED BY <2>1, <2>2, <2>3, NatSetInduction
<1>4. P(n)
  <2> HIDE DEF P
  <2> QED BY <1>3
<1>5. \E y \in s : y <= n
  <2>1. \A y \in s : y \in Nat /\ y <= n
    OBVIOUS
  <2> QED BY <2>1
<1>6. \E x \in s : \A y \in s : x <= y
  BY <1>4, <1>5
<1> QED BY <1>6 DEF Min

LEMMA MaxOfPrefix ==
  ASSUME NEW n \in Nat, NEW i \in 0 .. n - 1
  PROVE  /\ 1 .. i \in SUBSET (1 .. n) /\ 1 .. i + 1 \in SUBSET (1 .. n)
         /\ 1 .. i + 1 # {} /\ Max(1 .. i + 1) = i + 1
         /\ (1 .. i + 1) \ {i + 1} = 1 .. i
<1>1. /\ 1 .. i + 1 \in SUBSET (1 .. i + 1) /\ i + 1 \in Nat
      /\ i + 1 \in 1 .. i + 1
  OBVIOUS
<1>2. Max(1 .. i + 1) \in 1 .. i + 1 /\ i + 1 <= Max(1 .. i + 1)
  BY <1>1, MaxOfInterval
<1>3. Max(1 .. i + 1) = i + 1
  BY <1>2
<1> QED BY <1>1, <1>3

\* g is the function that FoldLeft is defined by: Step[i] is what the i-th
\* element does to a value.
IsFold(n, base, Step, g) ==
  /\ g[{}] = base
  /\ \A s \in SUBSET (1 .. n) :
       s # {} => g[s] = Step[Max(s)][g[s \ {Max(s)}]]

LEMMA FoldExists ==
  ASSUME NEW n \in Nat, NEW A, NEW base \in A, NEW Step \in [1 .. n -> [A -> A]]
  PROVE  \E g \in [SUBSET (1 .. n) -> A] : IsFold(n, base, Step, g)
<1> DEFINE Good(m, g) ==
             /\ g[{}] = base
             /\ \A s \in SUBSET (1 .. m) :
                  s # {} => g[s] = Step[Max(s)][g[s \ {Max(s)}]]
           P(m) == m <= n => \E g \in [SUBSET (1 .. m) -> A] : Good(m, g)
           T == {m \in Nat : P(m)}
<1>1. P(0)
  <2>1. SUBSET (1 .. 0) = {{}}
    OBVIOUS
  <2>2. [s \in SUBSET (1 .. 0) |-> base] \in [SUBSET (1 .. 0) -> A]
    OBVIOUS
  <2>3. Good(0, [s \in SUBSET (1 .. 0) |-> base])
    BY <2>1
  <2> QED BY <2>2, <2>3
<1>2. ASSUME NEW m \in Nat, P(m) PROVE P(m + 1)
  <2> SUFFICES ASSUME m + 1 <= n
               PROVE  \E g \in [SUBSET (1 .. m + 1) -> A] : Good(m + 1, g)
    OBVIOUS
  <2>1. PICK g \in [SUBSET (1 .. m) -> A] : Good(m, g)
    <3>1. m <= n
      OBVIOUS
    <3> HIDE DEF Good
    <3> QED BY <1>2, <3>1
  <2> DEFINE h == [s \in SUBSET (1 .. m + 1) |->
                     IF m + 1 \in s THEN Step[m + 1][g[s \ {m + 1}]] ELSE g[s]]
  <2>2. ASSUME NEW s \in SUBSET (1 .. m + 1)
        PROVE  s \ {m + 1} \in SUBSET (1 .. m)
    OBVIOUS
  <2>3. ASSUME NEW s \in SUBSET (1 .. m + 1)
        PROVE  h[s] \in A
    <3>1. g[s \ {m + 1}] \in A /\ (m + 1 \notin s => s \ {m + 1} = s)
      BY <2>2
    <3>2. Step[m + 1] \in [A -> A]
      BY <3>1
    <3> QED BY <3>1, <3>2
  <2>4. h \in [SUBSET (1 .. m + 1) -> A]
    BY <2>3
  <2>5. h[{}] = base
    BY <2>1
  <2>6. ASSUME NEW s \in SUBSET (1 .. m + 1), s # {}
        PROVE  h[s] = Step[Max(s)][h[s \ {Max(s)}]]
    <3>0. m + 1 \in Nat
      OBVIOUS
    <3>1. Max(s) \in s /\ \A y \in s : y <= Max(s)
      BY <2>6, <3>0, MaxOfInterval
    <3>1a. Max(s) \in 1 .. m + 1
      BY <3>1
    <3>2. CASE m + 1 \in s
      <4>1. Max(s) = m + 1
        BY <3>1, <3>1a, <3>2
      <4>2a. s \ {m + 1} \in SUBSET (1 .. m + 1) /\ m + 1 \notin s \ {m + 1}
        BY <2>2
      <4>2. h[s \ {m + 1}] = g[s \ {m + 1}]
        BY <4>2a
      <4>3. h[s] = Step[m + 1][g[s \ {m + 1}]]
        BY <3>2
      <4> HIDE DEF h
      <4> QED BY <4>1, <4>2, <4>3
    <3>3. CASE m + 1 \notin s
      <4>1. s \in SUBSET (1 .. m) /\ s \ {Max(s)} \in SUBSET (1 .. m)
        <5>1. \A y \in s : y \in 1 .. m + 1 /\ y # m + 1
          BY <3>3
        <5>2. \A y \in s : y \in 1 .. m
          BY <5>1
        <5> QED BY <5>2
      <4>2. h[s] = g[s]
        BY <4>1, <3>3
      <4>3. h[s \ {Max(s)}] = g[s \ {Max(s)}]
        <5>1. s \ {Max(s)} \in SUBSET (1 .. m + 1) /\ m + 1 \notin s \ {Max(s)}
          BY <3>3
        <5> QED BY <5>1
      <4> HIDE DEF h
      <4> QED BY <4>1, <4>2, <4>3, <2>1, <2>6
    <3> QED BY <3>2, <3>3
  <2>7. Good(m + 1, h)
    <3> HIDE DEF h
    <3> QED BY <2>5, <2>6
  <2> HIDE DEF h, Good
  <2> QED BY <2>4, <2>7
<1>3. T = Nat
  <2>1. T \in SUBSET Nat
    OBVIOUS
  <2>2. 0 \in T
    BY <1>1
  <2>3. \A m \in T : m + 1 \in T
    <3> HIDE DEF P
    <3> QED BY <1>2
  <2> HIDE DEF T
  <2> QED BY <2>1, <2>2, <2>3, NatSetInduction
<1>4. P(n)
  <2> HIDE DEF P
  <2> QED BY <1>3
<1>5. n <= n
  OBVIOUS
<1>6. PICK g \in [SUBSET (1 .. n) -> A] : Good(n, g)
  <2> HIDE DEF Good
  <2> QED BY <1>4, <1>5
<1> QED BY <1>6 DEF IsFold
=============================================================================

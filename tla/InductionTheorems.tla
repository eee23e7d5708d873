--------------------------- MODULE InductionTheorems ---------------------------
(***************************************************************************)
(* Induction and recursion over the naturals, stated with sets and         *)
(* functions instead of predicates, so that the provers can instantiate    *)
(* them: they open the recursive functions of the components (FlattenSeq,  *)
(* FoldLeft, OutputLoop, Behind) for every length.                         *)
(***************************************************************************)
EXTENDS Integers, SequencesExt, WellFoundedInduction, TLAPS

\* Induction: a set that has 0 and every successor has all naturals.
LEMMA NatInSet ==
  ASSUME NEW S, 0 \in S, \A n \in Nat : n \in S => n + 1 \in S
  PROVE  Nat \subseteq S
<1> DEFINE T == Nat \ S
<1>1. CASE T = {}  BY <1>1
<1>2. CASE T # {}
  <2>1. PICK m \in T : \A k \in T : <<k, m>> \notin OpToRel(<, Nat)
    BY <1>2, NatLessThanWellFounded, WFMin, Zenon
  <2>2. \A k \in T : ~(k < m)  BY <2>1 DEF OpToRel
  <2>3. m # 0 /\ m \in Nat /\ m \notin S  OBVIOUS
  <2>4. m - 1 \in Nat  BY <2>3
  <2>5. m - 1 \in S  BY <2>2, <2>4
  <2>6. (m - 1) + 1 \in S  BY <2>4, <2>5
  <2> QED  BY <2>3, <2>6
<1> QED  BY <1>1, <1>2

\* f starts with a and goes on, along 1 .. n, as F says, which takes the value
\* before and the index.
Follows(f, n, a, F) ==
  f[0] = a /\ \A k \in 1 .. n : f[k] = F[<<f[k - 1], k>>]

\* A recursion along 1 .. n has a solution.
LEMMA Recursion ==
  ASSUME NEW n \in Nat, NEW A, NEW a \in A, NEW F \in [A \X (1 .. n) -> A]
  PROVE  \E f \in [0 .. n -> A] : Follows(f, n, a, F)
<1> DEFINE Solved(k) ==
      \E f \in [0 .. k -> A] :
        f[0] = a /\ \A j \in 1 .. k : f[j] = F[<<f[j - 1], j>>]
           S == {k \in Nat : k <= n => Solved(k)}
<1>1. 0 \in S
  <2> SUFFICES Solved(0)  OBVIOUS
  <2> DEFINE f == [j \in 0 .. 0 |-> a]
  <2>1. f \in [0 .. 0 -> A] /\ f[0] = a  OBVIOUS
  <2>2. \A j \in 1 .. 0 : f[j] = F[<<f[j - 1], j>>]  OBVIOUS
  <2> QED  BY <2>1, <2>2, Zenon
<1>2. ASSUME NEW k \in Nat, k \in S PROVE k + 1 \in S
  <2> SUFFICES ASSUME k + 1 <= n PROVE Solved(k + 1)
    BY <1>2
  <2>1. PICK f \in [0 .. k -> A] :
          f[0] = a /\ \A j \in 1 .. k : f[j] = F[<<f[j - 1], j>>]
    BY <1>2
  <2> DEFINE g == [j \in 0 .. k + 1 |-> IF j = k + 1 THEN F[<<f[k], k + 1>>] ELSE f[j]]
  <2>2. F[<<f[k], k + 1>>] \in A
    <3>1. f[k] \in A /\ k + 1 \in 1 .. n  BY <1>2, <2>1
    <3> QED  BY <3>1
  <2>3. g \in [0 .. k + 1 -> A]  BY <2>1, <2>2
  <2>4. g[0] = a  BY <2>1
  <2>5. ASSUME NEW j \in 1 .. k + 1 PROVE g[j] = F[<<g[j - 1], j>>]
    <3>1. CASE j = k + 1
      <4>1. g[j - 1] = f[k] /\ g[j] = F[<<f[k], k + 1>>]  BY <3>1
      <4> QED  BY <3>1, <4>1
    <3>2. CASE j \in 1 .. k
      <4>1. g[j] = f[j] /\ g[j - 1] = f[j - 1]  BY <3>2
      <4> QED  BY <2>1, <3>2, <4>1
    <3> QED  BY <3>1, <3>2
  <2> HIDE DEF g
  <2> QED  BY <2>3, <2>4, <2>5, Zenon
<1>3. n \in S
  <2> HIDE DEF S
  <2> QED  BY <1>1, <1>2, NatInSet, Zenon
<1> HIDE DEF Solved
<1>4. n <= n  OBVIOUS
<1>5. Solved(n)  BY <1>3, <1>4
<1> QED  BY <1>5 DEF Solved, Follows

\* f and g agree at 0, and at every other place if they do at the one before.
AgreeInTurn(f, g, n) ==
  f[0] = g[0] /\ \A k \in 1 .. n : f[k - 1] = g[k - 1] => f[k] = g[k]

Agree(f, g, n) == \A k \in 0 .. n : f[k] = g[k]

\* It has only one.
LEMMA RecursionUnique ==
  ASSUME NEW n \in Nat, NEW f, NEW g, AgreeInTurn(f, g, n)
  PROVE  Agree(f, g, n)
<1> DEFINE S == {k \in Nat : k <= n => f[k] = g[k]}
<1>1. 0 \in S  BY DEF AgreeInTurn
<1>2. ASSUME NEW k \in Nat, k \in S PROVE k + 1 \in S
  <2> SUFFICES ASSUME k + 1 <= n PROVE f[k + 1] = g[k + 1]
    BY <1>2
  <2>1. f[k] = g[k] /\ k + 1 \in 1 .. n /\ (k + 1) - 1 = k  BY <1>2
  <2> QED  BY <2>1 DEF AgreeInTurn
<1>3. Nat \subseteq S
  <2> HIDE DEF S
  <2> QED  BY <1>1, <1>2, NatInSet
<1> QED  BY <1>3 DEF Agree

-----------------------------------------------------------------------------
(* FoldLeft goes through a set of positions from the greatest one down.    *)

LEMMA MaxFacts ==
  ASSUME NEW n \in Nat, NEW s \in SUBSET (1 .. n), s # {}
  PROVE  Max(s) \in s /\ \A y \in s : y <= Max(s)
<1> DEFINE S == {k \in Nat : \A t \in SUBSET (1 .. k) :
                  t # {} => \E x \in t : \A y \in t : x >= y}
<1>1. 0 \in S
  <2>1. \A t \in SUBSET (1 .. 0) : t = {}  OBVIOUS
  <2> QED  BY <2>1
<1>2. ASSUME NEW k \in Nat, k \in S PROVE k + 1 \in S
  <2> SUFFICES ASSUME NEW t \in SUBSET (1 .. k + 1), t # {}
               PROVE  \E x \in t : \A y \in t : x >= y
    OBVIOUS
  <2>1. CASE k + 1 \in t  BY <2>1
  <2>2. CASE k + 1 \notin t
    <3>1. t \in SUBSET (1 .. k)  BY <2>2
    <3> QED  BY <1>2, <3>1
  <2> QED  BY <2>1, <2>2
<1>3. n \in S
  <2> HIDE DEF S
  <2> QED  BY <1>1, <1>2, NatInSet
<1>4. \E x \in s : \A y \in s : x >= y  BY <1>3
<1>5. Max(s) \in s /\ \A y \in s : Max(s) >= y  BY <1>4 DEF Max
<1> QED  BY <1>5

LEMMA MinFacts ==
  ASSUME NEW s \in SUBSET Nat, s # {}
  PROVE  Min(s) \in s /\ \A y \in s : Min(s) <= y
<1>1. PICK m \in s : \A y \in s : <<y, m>> \notin OpToRel(<, Nat)
  BY NatLessThanWellFounded, WFMin, Zenon
<1>2. \A y \in s : ~(y < m)  BY <1>1 DEF OpToRel
<1>3. \A y \in s : m <= y  BY <1>2
<1> QED  BY <1>3 DEF Min

\* it folds F over every set of positions.
FoldsSets(it, n, a, F) ==
  \A s \in SUBSET (1 .. n) :
    it[s] = IF s = {} THEN a ELSE F[<<it[s \ {Max(s)}], Max(s)>>]

\* The recursion behind FoldLeft has a solution.
LEMMA FoldExists ==
  ASSUME NEW n \in Nat, NEW A, NEW a \in A, NEW F \in [A \X (1 .. n) -> A]
  PROVE  \E it \in [SUBSET (1 .. n) -> A] : FoldsSets(it, n, a, F)
<1> DEFINE Solved(k) == \E it \in [SUBSET (1 .. k) -> A] : FoldsSets(it, k, a, F)
           S == {k \in Nat : k <= n => Solved(k)}
<1>1. 0 \in S
  <2> DEFINE it == [s \in SUBSET (1 .. 0) |-> a]
  <2>1. it \in [SUBSET (1 .. 0) -> A]  OBVIOUS
  <2>2. FoldsSets(it, 0, a, F)
    <3>1. \A s \in SUBSET (1 .. 0) : s = {}  OBVIOUS
    <3> QED  BY <3>1 DEF FoldsSets
  <2> HIDE DEF it
  <2> QED  BY <2>1, <2>2
<1>2. ASSUME NEW k \in Nat, k \in S PROVE k + 1 \in S
  <2> SUFFICES ASSUME k + 1 <= n PROVE Solved(k + 1)
    <3> HIDE DEF Solved
    <3> QED  BY <1>2
  <2>1. PICK it \in [SUBSET (1 .. k) -> A] : FoldsSets(it, k, a, F)
    <3>1. Solved(k)
      <4> HIDE DEF Solved
      <4> QED  BY <1>2
    <3> QED  BY <3>1, Zenon
  <2> DEFINE more == [s \in SUBSET (1 .. k + 1) |->
                       IF k + 1 \in s THEN F[<<it[s \ {k + 1}], k + 1>>] ELSE it[s]]
  <2>2. ASSUME NEW s \in SUBSET (1 .. k + 1)
        PROVE  /\ k + 1 \in s => s \ {k + 1} \in SUBSET (1 .. k)
               /\ k + 1 \notin s => s \in SUBSET (1 .. k)
    OBVIOUS
  <2>3. more \in [SUBSET (1 .. k + 1) -> A]
    <3>1. ASSUME NEW s \in SUBSET (1 .. k + 1), k + 1 \in s
          PROVE  F[<<it[s \ {k + 1}], k + 1>>] \in A
      <4>1. it[s \ {k + 1}] \in A  BY <2>1, <2>2, <3>1
      <4> QED  BY <4>1
    <3>2. ASSUME NEW s \in SUBSET (1 .. k + 1), k + 1 \notin s PROVE it[s] \in A
      BY <2>1, <2>2, <3>2
    <3> QED  BY <3>1, <3>2
  <2>4. ASSUME NEW s \in SUBSET (1 .. k + 1)
        PROVE  more[s] = IF s = {} THEN a ELSE F[<<more[s \ {Max(s)}], Max(s)>>]
    <3>1. CASE k + 1 \in s
      <4>1. Max(s) = k + 1
        <5>1. k + 1 \in Nat  OBVIOUS
        <5>2. Max(s) \in s /\ \A y \in s : y <= Max(s)
          BY <3>1, <5>1, MaxFacts
        <5>3. k + 1 <= Max(s)  BY <3>1, <5>2
        <5>4. Max(s) \in 1 .. k + 1  BY <5>2
        <5> QED  BY <5>3, <5>4
      <4>2. more[s] = F[<<it[s \ {k + 1}], k + 1>>]  BY <3>1
      <4>3. more[s \ {k + 1}] = it[s \ {k + 1}]  OBVIOUS
      <4> HIDE DEF more
      <4> QED  BY <3>1, <4>1, <4>2, <4>3
    <3>2. CASE k + 1 \notin s
      <4>1. s \in SUBSET (1 .. k) /\ s \ {Max(s)} \in SUBSET (1 .. k + 1)
        BY <2>2, <3>2
      <4>2. more[s] = it[s]  BY <3>2
      <4>3. more[s \ {Max(s)}] = it[s \ {Max(s)}]  BY <3>2, <4>1
      <4> HIDE DEF more
      <4> QED  BY <2>1, <4>1, <4>2, <4>3 DEF FoldsSets
    <3> QED  BY <3>1, <3>2
  <2> HIDE DEF more
  <2>5. FoldsSets(more, k + 1, a, F)  BY <2>4 DEF FoldsSets
  <2> QED  BY <2>3, <2>5
<1>3. n \in S
  <2> HIDE DEF S
  <2> QED  BY <1>1, <1>2, NatInSet, Zenon
<1> HIDE DEF Solved
<1>4. Solved(n)  BY <1>3
<1> QED  BY <1>4 DEF Solved

\* A fold over the first k positions takes the last of them off.
LEMMA IntervalFacts ==
  ASSUME NEW n \in Nat
  PROVE  /\ 1 .. 0 = {}
         /\ \A k \in 1 .. n :
              /\ 1 .. k \in SUBSET (1 .. n) /\ 1 .. k # {}
              /\ Max(1 .. k) = k /\ (1 .. k) \ {Max(1 .. k)} = 1 .. k - 1
<1>1. ASSUME NEW k \in 1 .. n PROVE Max(1 .. k) = k
  <2>1. k \in Nat /\ 1 .. k # {} /\ k \in 1 .. k  OBVIOUS
  <2>2. Max(1 .. k) \in 1 .. k /\ \A y \in 1 .. k : y <= Max(1 .. k)
    BY <2>1, MaxFacts
  <2> QED  BY <2>1, <2>2
<1>2. ASSUME NEW k \in 1 .. n PROVE (1 .. k) \ {k} = 1 .. k - 1  OBVIOUS
<1> QED  BY <1>1, <1>2
=============================================================================

------------------------------ MODULE Folding -------------------------------
(* What a fold computes, and counting down: what the proofs about data     *)
(* that is read item by item have in common. A fold of SequencesExt picks  *)
(* a function on the sets of positions; it is one that adds the last       *)
(* position to what it is of the others, because there is such a function. *)
EXTENDS Integers, Sequences, SequencesExt, FiniteSetTheorems, WellFoundedInduction, TLAPS

\* A set of naturals that is not empty has a least one.
LEMMA LeastNat ==
  ASSUME NEW T, T \subseteq Nat, T # {}
  PROVE  \E x \in T : \A y \in T : x <= y
<1> DEFINE R == {ss \in Nat \X Nat : ss[1] < ss[2]}
<1>1. R = OpToRel(<, Nat)
  BY DEF OpToRel
<1>2. IsWellFoundedOn(R, Nat)
  BY <1>1, NatLessThanWellFounded
<1>3. PICK x \in T : \A y \in T : ~(<<y, x>> \in R)
  <2> HIDE DEF R
  <2> QED
    BY <1>2, WFMin
<1>4. \A y \in T : x <= y
  <2> TAKE y \in T
  <2>1. <<y, x>> \in Nat \X Nat
    OBVIOUS
  <2>2. ~(y < x)
    BY <1>3, <2>1
  <2> QED
    BY <2>2
<1> QED
  BY <1>4

\* A set of numbers that has 0, and with each number the next, has all of them.
LEMMA NatSets ==
  ASSUME NEW T, 0 \in T, \A n \in Nat : n \in T => n + 1 \in T
  PROVE  \A n \in Nat : n \in T
<1> DEFINE Out == {n \in Nat : n \notin T}
<1>1. CASE Out = {}
  BY <1>1
<1>2. CASE Out # {}
  <2>1. PICK x \in Out : \A y \in Out : x <= y
    <3> HIDE DEF Out
    <3>1. Out \subseteq Nat
      BY DEF Out
    <3> QED
      BY <1>2, <3>1, LeastNat
  <2>2. x \in Nat /\ x # 0
    OBVIOUS
  <2>3. x - 1 \in Nat /\ x - 1 \notin Out
    BY <2>1, <2>2
  <2>4. x - 1 \in T
    BY <2>3
  <2>5. (x - 1) + 1 \in T
    BY <2>3, <2>4
  <2> QED
    BY <2>2, <2>5
<1> QED
  BY <1>1, <1>2

\* The greatest of some numbers up to one of them.
LEMMA TopIsMax ==
  ASSUME NEW n \in Nat, NEW s \in SUBSET (1..(n + 1)), n + 1 \in s
  PROVE  Max(s) = n + 1
<1>1. \A y \in s : n + 1 >= y
  OBVIOUS
<1>2. \A x \in s : (\A y \in s : x >= y) => x = n + 1
  OBVIOUS
<1> QED
  BY <1>1, <1>2 DEF Max

\* What a fold computes for each set of positions: f[s] from what the last of s adds to f of the others.
Iterates(f, n, base, A, G) ==
  /\ f \in [SUBSET (1..n) -> A]
  /\ \A s \in SUBSET (1..n) : f[s] = IF s = {} THEN base ELSE G[<<Max(s), f[s \ {Max(s)}]>>]

\* There is such a function, whatever is added at each position.
LEMMA FoldExists ==
  ASSUME NEW N \in Nat, NEW A, NEW base \in A, NEW G \in [(1..N) \X A -> A]
  PROVE  \E f : Iterates(f, N, base, A, G)
<1> DEFINE T == {n \in Nat : n <= N => \E f : Iterates(f, n, base, A, G)}
<1>1. 0 \in T
  <2>1. 1..0 = {} /\ SUBSET (1..0) = {{}}
    OBVIOUS
  <2>2. Iterates([s \in {{}} |-> base], 0, base, A, G)
    BY <2>1 DEF Iterates
  <2> QED
    BY <2>2
<1>2. ASSUME NEW n \in Nat, n \in T, n + 1 <= N
      PROVE  \E f : Iterates(f, n + 1, base, A, G)
  <2>1. PICK f : Iterates(f, n, base, A, G)
    BY <1>2
  <2>a. /\ f \in [SUBSET (1..n) -> A]
        /\ \A s \in SUBSET (1..n) : f[s] = IF s = {} THEN base ELSE G[<<Max(s), f[s \ {Max(s)}]>>]
    BY <2>1 DEF Iterates
  <2> DEFINE g == [s \in SUBSET (1..(n + 1)) |-> IF n + 1 \in s THEN G[<<n + 1, f[s \ {n + 1}]>>] ELSE f[s]]
  <2>2. ASSUME NEW s \in SUBSET (1..(n + 1)), n + 1 \in s
        PROVE  /\ g[s] \in A /\ s # {}
               /\ g[s] = G[<<Max(s), g[s \ {Max(s)}]>>]
    <3>1. Max(s) = n + 1
      BY <2>2, TopIsMax
    <3>2. s \ {n + 1} \in SUBSET (1..n) /\ s \ {n + 1} \in SUBSET (1..(n + 1))
      OBVIOUS
    <3>3. f[s \ {n + 1}] \in A
      BY <2>a, <3>2
    <3>4. n + 1 \in 1..N
      BY <1>2
    <3>5. <<n + 1, f[s \ {n + 1}]>> \in (1..N) \X A
      BY <3>3, <3>4
    <3>6. g[s \ {n + 1}] = f[s \ {n + 1}]
      BY <3>2
    <3>7. g[s] = G[<<n + 1, f[s \ {n + 1}]>>]
      BY <2>2
    <3> QED
      BY <3>1, <3>2, <3>5, <3>6, <3>7, <2>2
  <2>3. ASSUME NEW s \in SUBSET (1..(n + 1)), n + 1 \notin s
        PROVE  /\ g[s] \in A
               /\ g[s] = IF s = {} THEN base ELSE G[<<Max(s), g[s \ {Max(s)}]>>]
    <3>1. s \in SUBSET (1..n) /\ g[s] = f[s] /\ f[s] \in A
      BY <2>a, <2>3
    <3>2. s \ {Max(s)} \in SUBSET (1..(n + 1)) /\ n + 1 \notin s \ {Max(s)}
      BY <2>3
    <3>3. g[s \ {Max(s)}] = f[s \ {Max(s)}]
      BY <3>2
    <3> HIDE DEF g
    <3> QED
      BY <2>a, <3>1, <3>3
  <2>4. g \in [SUBSET (1..(n + 1)) -> A]
    BY <2>2, <2>3
  <2>5. Iterates(g, n + 1, base, A, G)
    <3> HIDE DEF g
    <3> QED
      BY <2>2, <2>3, <2>4 DEF Iterates
  <2> QED
    BY <2>5
<1>3. \A n \in Nat : n \in T
  <2>1. \A n \in Nat : n \in T => n + 1 \in T
    BY <1>2
  <2> HIDE DEF T
  <2> QED
    BY <1>1, <2>1, NatSets
<1> QED
  BY <1>3

\* The last of some positions is one of them, and the last of the first ones is known.
LEMMA MaxIsOne ==
  ASSUME NEW N \in Nat, NEW s \in SUBSET (1..N), s # {}
  PROVE  Max(s) \in s
<1> DEFINE T == {N - x : x \in s}
<1>1. T \subseteq Nat /\ T # {}
  <2>1. \A x \in s : x \in Nat /\ N - x \in Nat
    OBVIOUS
  <2>2. PICK x \in s : TRUE
    OBVIOUS
  <2> QED
    BY <2>1, <2>2
<1>2. PICK t \in T : \A y \in T : t <= y
  <2> HIDE DEF T
  <2> QED
    BY <1>1, LeastNat
<1>3. N - t \in s /\ \A y \in s : N - t >= y
  <2>1. PICK x \in s : t = N - x
    BY <1>2
  <2>2. \A y \in s : N - y \in T
    OBVIOUS
  <2>3. \A y \in s : N - x <= N - y
    BY <1>2, <2>1, <2>2
  <2> QED
    BY <2>1, <2>3
<1> QED
  BY <1>3 DEF Max

\* The first positions, without the last of them, are the first ones before it.
LEMMA FirstOnes ==
  ASSUME NEW N \in Nat, NEW i \in 1..N
  PROVE  /\ 1..i \in SUBSET (1..N) /\ 1..i # {} /\ Max(1..i) = i
         /\ (1..i) \ {Max(1..i)} = 1..(i - 1)
<1>1. i = (i - 1) + 1 /\ i - 1 \in Nat
  OBVIOUS
<1>2. Max(1..i) = i
  <2>1. \A y \in 1..i : i >= y
    OBVIOUS
  <2>2. \A x \in 1..i : (\A y \in 1..i : x >= y) => x = i
    OBVIOUS
  <2>3. i \in 1..i
    OBVIOUS
  <2> QED
    BY <2>1, <2>2, <2>3 DEF Max
<1> QED
  BY <1>2

\* A function on the naturals may be defined by what it is at 0, and after each of them.
RecursOn(f, base, A, G) == f \in [Nat -> A] /\ f[0] = base /\ \A n \in Nat : f[n + 1] = G[<<n, f[n]>>]
Recurs(f, n, base, A, G) == f \in [0..n -> A] /\ f[0] = base /\ \A i \in 0..n : i # n => f[i + 1] = G[<<i, f[i]>>]

\* There is one: the sequences of its first values, each extending the last, together.
LEMMA RecursionExists ==
  ASSUME NEW A, NEW base \in A, NEW G \in [Nat \X A -> A]
  PROVE  \E f : RecursOn(f, base, A, G)
<1> DEFINE T == {n \in Nat : \E f : Recurs(f, n, base, A, G)}
<1>1. 0 \in T
  <2> DEFINE f == [i \in 0..0 |-> base]
  <2>1. \A i \in 0..0 : i = 0
    OBVIOUS
  <2>2. Recurs(f, 0, base, A, G)
    BY <2>1 DEF Recurs
  <2> QED
    BY <2>2
<1>2. ASSUME NEW n \in Nat, n \in T
      PROVE  n + 1 \in T
  <2>1. PICK f : Recurs(f, n, base, A, G)
    BY <1>2
  <2>2. f \in [0..n -> A] /\ f[0] = base /\ \A i \in 0..n : i # n => f[i + 1] = G[<<i, f[i]>>]
    BY <2>1 DEF Recurs
  <2>3. f[n] \in A /\ G[<<n, f[n]>>] \in A
    BY <2>2
  <2> DEFINE g == [i \in 0..(n + 1) |-> IF i = n + 1 THEN G[<<n, f[n]>>] ELSE f[i]]
  <2>4. \A i \in 0..n : g[i] = f[i] /\ g[i] \in A /\ i \in 0..(n + 1) /\ i + 1 \in 0..(n + 1)
    BY <2>2
  <2>5. g[n + 1] = G[<<n, f[n]>>] /\ g[n + 1] \in A
    BY <2>3
  <2>6. \A i \in 0..(n + 1) : i = n + 1 \/ i \in 0..n
    OBVIOUS
  <2>7. g \in [0..(n + 1) -> A]
    BY <2>4, <2>5, <2>6
  <2> HIDE DEF g
  <2>8. ASSUME NEW i \in 0..(n + 1), i # n + 1
        PROVE  g[i + 1] = G[<<i, g[i]>>]
    <3>1. i \in 0..n
      BY <2>6, <2>8
    <3>2. CASE i = n
      BY <2>4, <2>5, <3>1, <3>2
    <3>3. CASE i # n
      <4>1. f[i + 1] = G[<<i, f[i]>>] /\ i + 1 \in 0..n
        BY <2>2, <3>1, <3>3
      <4> QED
        BY <2>4, <3>1, <4>1
    <3> QED
      BY <3>2, <3>3
  <2>9. Recurs(g, n + 1, base, A, G)
    BY <2>2, <2>4, <2>7, <2>8 DEF Recurs
  <2> QED
    BY <2>9
<1>3. \A n \in Nat : n \in T
  <2> HIDE DEF T
  <2> QED
    BY <1>1, <1>2, NatSets
<1> DEFINE F(n) == CHOOSE f : Recurs(f, n, base, A, G)
           h == [n \in Nat |-> F(n)[n]]
<1>4. ASSUME NEW n \in Nat
      PROVE  Recurs(F(n), n, base, A, G)
  <2>1. \E f : Recurs(f, n, base, A, G)
    BY <1>3
  <2> QED
    BY <2>1
<1> HIDE DEF F
<1>5. ASSUME NEW n \in Nat
      PROVE  \A i \in 0..n : F(n + 1)[i] = F(n)[i]
  <2> DEFINE f == F(n)
             g == F(n + 1)
             S == {i \in Nat : i <= n => g[i] = f[i]}
  <2>1. f[0] = base /\ \A i \in 0..n : i # n => f[i + 1] = G[<<i, f[i]>>]
    BY <1>4 DEF Recurs
  <2>2. g[0] = base /\ \A i \in 0..(n + 1) : i # n + 1 => g[i + 1] = G[<<i, g[i]>>]
    <3>1. Recurs(g, n + 1, base, A, G)
      BY <1>4
    <3> HIDE DEF g
    <3> QED
      BY <3>1 DEF Recurs
  <2> HIDE DEF f, g
  <2>3. 0 \in S
    BY <2>1, <2>2
  <2>4. \A i \in Nat : i \in S => i + 1 \in S
    <3> SUFFICES ASSUME NEW i \in Nat, i \in S, i + 1 <= n
                 PROVE  g[i + 1] = f[i + 1]
      OBVIOUS
    <3>1. i \in 0..n /\ i # n /\ i \in 0..(n + 1) /\ i # n + 1 /\ i <= n
      OBVIOUS
    <3>2. g[i] = f[i]
      BY <3>1
    <3> HIDE DEF S
    <3> QED
      BY <2>1, <2>2, <3>1, <3>2
  <2>5. \A i \in Nat : i \in S
    <3> HIDE DEF S
    <3> QED
      BY <2>3, <2>4, NatSets
  <2>6. \A i \in 0..n : g[i] = f[i]
    BY <2>5
  <2> QED
    BY <2>6 DEF f, g
<1>6. \A n \in Nat : h[n] = F(n)[n] /\ h[n] \in A
  <2> TAKE n \in Nat
  <2>1. F(n) \in [0..n -> A]
    BY <1>4 DEF Recurs
  <2>2. F(n)[n] \in A
    BY <2>1
  <2> QED
    BY <2>2
<1>7. h \in [Nat -> A]
  BY <1>6
<1> HIDE DEF h
<1>8. h[0] = base
  BY <1>4, <1>6 DEF Recurs
<1>9. ASSUME NEW n \in Nat
      PROVE  h[n + 1] = G[<<n, h[n]>>]
  <2>1. \A i \in 0..(n + 1) : i # n + 1 => F(n + 1)[i + 1] = G[<<i, F(n + 1)[i]>>]
    <3>1. Recurs(F(n + 1), n + 1, base, A, G)
      BY <1>4
    <3> QED
      BY <3>1 DEF Recurs
  <2>2. F(n + 1)[n + 1] = G[<<n, F(n + 1)[n]>>]
    BY <2>1
  <2>3. F(n + 1)[n] = F(n)[n]
    BY <1>5
  <2> QED
    BY <1>6, <2>2, <2>3
<1>10. RecursOn(h, base, A, G)
  BY <1>7, <1>8, <1>9 DEF RecursOn
<1> QED
  BY <1>10

=============================================================================

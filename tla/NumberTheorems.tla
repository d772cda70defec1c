--------------------------- MODULE NumberTheorems ---------------------------
(***************************************************************************)
(* Facts about numbers.  Quotient and remainder by a positive number that  *)
(* is not a literal: the placement of segments multiplies, divides and     *)
(* takes remainders by two constants.  Induction, with sets in the place   *)
(* of predicates: a set of natural numbers has a least one, since no       *)
(* interval of them has itself among its proper parts for ever.            *)
(***************************************************************************)
EXTENDS Integers, FiniteSetTheorems, TLAPS

\* Every natural number is quotient times divisor plus remainder.
LEMMA DivMod ==
    ASSUME NEW M \in Nat \ {0}, NEW r \in Nat
    PROVE  /\ r \div M \in Nat
           /\ r % M \in 0 .. M - 1
           /\ r = ((r \div M) * M) + (r % M)
BY SMTT(20)

\* A quotient is at most the dividend.
LEMMA DivBound ==
    ASSUME NEW M \in Nat \ {0}, NEW r \in Nat
    PROVE  r \div M \in 0 .. r
<1> DEFINE q == r \div M
<1>1. q \in Nat /\ r % M \in 0 .. M - 1 /\ r = (q * M) + (r % M)
    BY DivMod
<1> HIDE DEF q
<1>2. q <= q * M
    BY <1>1, SMTT(20)
<1> QED
    BY <1>1, <1>2 DEF q

\* Quotient and remainder are unique.
LEMMA DivUnique ==
    ASSUME NEW M \in Nat \ {0}, NEW s \in Nat, NEW j \in 0 .. M - 1
    PROVE  /\ ((s * M) + j) \div M = s
           /\ ((s * M) + j) % M = j
BY SMTT(20)

\* A counter modulo N is advanced by one and reset at N.
LEMMA ModStep ==
    ASSUME NEW N \in Nat \ {0}, NEW s \in Nat
    PROVE  (s + 1) % N = IF (s % N) + 1 >= N THEN 0 ELSE (s % N) + 1
<1> DEFINE q == s \div N
           r == s % N
<1>1. q \in Nat /\ r \in 0 .. N - 1 /\ s = (q * N) + r
    BY DivMod
<1> HIDE DEF q, r
<1>2. CASE r + 1 < N
    <2>1. s + 1 = (q * N) + (r + 1)
        BY <1>1
    <2>2. r + 1 \in 0 .. N - 1
        BY <1>1, <1>2
    <2>3. ((q * N) + (r + 1)) % N = r + 1
        BY <1>1, <2>2, DivUnique
    <2> QED
        BY <2>1, <2>3, <1>2, <1>1 DEF r
<1>3. CASE r + 1 >= N
    <2>1. s + 1 = ((q + 1) * N) + 0
        BY <1>1, <1>3
    <2>2. (((q + 1) * N) + 0) % N = 0
        BY <1>1, DivUnique
    <2> QED
        BY <2>1, <2>2, <1>3, <1>1 DEF r
<1> QED
    BY <1>1, <1>2, <1>3

\* Multiples of a positive number.
LEMMA Multiples ==
    ASSUME NEW M \in Nat \ {0}, NEW s \in Nat
    PROVE  /\ s * M \in Nat
           /\ s <= s * M
           /\ (s + 1) * M = (s * M) + M
BY SMTT(20)

LEMMA MultiplesMonotone ==
    ASSUME NEW M \in Nat \ {0}, NEW s \in Nat, NEW t \in Nat, s < t
    PROVE  (s * M) + M <= t * M
BY SMTT(20)

-----------------------------------------------------------------------------
\* Induction over natural numbers, of sets.

LEMMA LeastNatural ==
    ASSUME NEW T \in SUBSET Nat, T # {}
    PROVE  \E n \in T : \A m \in T : n <= m
<1> DEFINE I == {0 .. n : n \in T}
<1>1. I \subseteq FiniteSubsetsOf(Nat) /\ I # {}
    <2>1. ASSUME NEW X \in I PROVE X \in FiniteSubsetsOf(Nat)
        <3>1. PICK n \in T : X = 0 .. n
            OBVIOUS
        <3>2. X \subseteq Nat
            BY <3>1
        <3>3. IsFiniteSet(0 .. n)
            BY FS_Interval, n \in Int, 0 \in Int
        <3> HIDE DEF I
        <3> QED
            BY <3>1, <3>2, <3>3 DEF FiniteSubsetsOf
    <2>2. I # {}
        OBVIOUS
    <2> QED
        BY <2>1, <2>2
<1>2. IsWellFoundedOn(StrictSubsetOrdering(Nat), FiniteSubsetsOf(Nat))
    BY FS_StrictSubsetOrderingWellFounded
<1> HIDE DEF I
<1>3. PICK X \in I : \A Y \in I : ~ (<<Y, X>> \in StrictSubsetOrdering(Nat))
    BY <1>1, <1>2, WFMin
<1>4. PICK n \in T : X = 0 .. n
    BY DEF I
<1>5. ASSUME NEW m \in T, m < n PROVE FALSE
    <2>1. 0 .. m \in I
        BY DEF I
    <2>2. 0 .. m \subseteq X /\ 0 .. m # X /\ X \subseteq Nat
        <3>1. n \in 0 .. n /\ n \notin 0 .. m
            BY <1>5
        <3> QED
            BY <3>1, <1>4, <1>5
    <2> QED
        BY <1>3, <2>1, <2>2 DEF StrictSubsetOrdering
<1> QED
    BY <1>5

LEMMA InductionSet ==
    ASSUME NEW S, 0 \in S, \A n \in Nat : n \in S => n + 1 \in S
    PROVE  \A n \in Nat : n \in S
<1> SUFFICES ASSUME NEW x \in Nat, x \notin S PROVE FALSE
    OBVIOUS
<1>1. PICK n \in Nat \ S : \A m \in Nat \ S : n <= m
    BY LeastNatural
<1>2. n # 0 /\ n - 1 \in Nat /\ n - 1 \notin Nat \ S
    BY <1>1
<1> QED
    BY <1>2

\* A function can be iterated any number of times.
Iteration(f, T, b, F, N) ==
    f \in [0 .. N -> T] /\ f[0] = b /\ \A k \in 1 .. N : f[k] = F[f[k - 1]]

LEMMA Iterates ==
    ASSUME NEW T, NEW b \in T, NEW F \in [T -> T], NEW N \in Nat
    PROVE  \E f : Iteration(f, T, b, F, N)
<1> DEFINE S == {n \in Nat : \E f \in [0 .. n -> T] :
                     f[0] = b /\ \A k \in 1 .. n : f[k] = F[f[k - 1]]}
<1>1. 0 \in S
    <2>1. [k \in 0 .. 0 |-> b] \in [0 .. 0 -> T]
        OBVIOUS
    <2>2. [k \in 0 .. 0 |-> b][0] = b /\ \A k \in 1 .. 0 : FALSE
        OBVIOUS
    <2> QED
        BY <2>1, <2>2
<1>2. ASSUME NEW n \in Nat, n \in S PROVE n + 1 \in S
    <2>1. PICK f \in [0 .. n -> T] : f[0] = b /\ \A k \in 1 .. n : f[k] = F[f[k - 1]]
        BY <1>2
    <2> DEFINE g == [k \in 0 .. n + 1 |-> IF k = n + 1 THEN F[f[n]] ELSE f[k]]
    <2>2. g \in [0 .. n + 1 -> T]
        <3> SUFFICES ASSUME NEW k \in 0 .. n + 1
                     PROVE  (IF k = n + 1 THEN F[f[n]] ELSE f[k]) \in T
            OBVIOUS
        <3>1. f[n] \in T
            OBVIOUS
        <3>2. k # n + 1 => k \in 0 .. n
            OBVIOUS
        <3> QED
            BY <3>1, <3>2
    <2>3. g[0] = b
        BY <2>1
    <2>4. ASSUME NEW k \in 1 .. n + 1 PROVE g[k] = F[g[k - 1]]
        <3>1. CASE k = n + 1
            BY <3>1
        <3>2. CASE k \in 1 .. n
            <4>1. k \in 0 .. n + 1 /\ k - 1 \in 0 .. n + 1 /\ k # n + 1 /\ k - 1 # n + 1
                BY <3>2
            <4> QED
                BY <2>1, <3>2, <4>1
        <3> QED
            BY <3>1, <3>2
    <2> HIDE DEF g
    <2> QED
        BY <2>2, <2>3, <2>4
<1> HIDE DEF S
<1>3. \A n \in Nat : n \in S
    BY <1>1, <1>2, InductionSet
<1>4. N \in S
    BY <1>3
<1> QED
    BY <1>4 DEF S, Iteration
-----------------------------------------------------------------------------
\* Folds over 1 .. N, for what the community module Folds makes of a sequence.

\* The largest element of a set.
Largest(S) == CHOOSE x \in S : \A y \in S : x >= y

LEMMA LargestElement ==
    ASSUME NEW N \in Nat, NEW S \in SUBSET (1 .. N), S # {}
    PROVE  Largest(S) \in S /\ \A y \in S : y <= Largest(S)
<1> DEFINE T == {N - x : x \in S}
<1>1. T \in SUBSET Nat /\ T # {}
    <2>1. \A x \in S : N - x \in Nat
        OBVIOUS
    <2>2. PICK x : x \in S
        OBVIOUS
    <2>3. N - x \in T
        BY <2>2
    <2> QED
        BY <2>1, <2>3
<1>2. PICK n \in T : \A m \in T : n <= m
    BY <1>1, LeastNatural
<1>3. PICK x \in S : n = N - x
    BY <1>2
<1>4. \A y \in S : x >= y
    <2> TAKE y \in S
    <2>1. N - x <= N - y
        BY <1>2, <1>3
    <2> QED
        BY <2>1
<1>5. Largest(S) \in S /\ \A y \in S : Largest(S) >= y
    BY <1>4 DEF Largest
<1> QED
    BY <1>5

LEMMA LargestOfInterval ==
    ASSUME NEW k \in Nat \ {0}
    PROVE  Largest(1 .. k) = k /\ (1 .. k) \ {k} = 1 .. k - 1
<1>1. Largest(1 .. k) \in 1 .. k /\ \A y \in 1 .. k : y <= Largest(1 .. k)
    BY LargestElement, k \in 1 .. k
<1> QED
    BY <1>1

LEMMA LargestLast ==
    ASSUME NEW n \in Nat, NEW S \in SUBSET (1 .. n + 1), n + 1 \in S
    PROVE  Largest(S) = n + 1
<1>1. n + 1 \in Nat /\ S # {}
    OBVIOUS
<1>2. Largest(S) \in S /\ \A y \in S : y <= Largest(S)
    BY <1>1, LargestElement
<1>3. Largest(S) \in 1 .. n + 1 /\ n + 1 <= Largest(S)
    BY <1>2
<1> QED
    BY <1>3

\* A fold from the left exists: the elements of a set of positions are taken one
\* after the other, the largest one last.
FoldOf(g, b, F, u, N) ==
    /\ g[{}] = b
    /\ \A s \in SUBSET (1 .. N) :
          s # {} => g[s] = F[g[s \ {Largest(s)}]][u[Largest(s)]]

HasFold(A, b, F, u, N) == \E g \in [SUBSET (1 .. N) -> A] : FoldOf(g, b, F, u, N)

\* A fold is extended by one position.
LEMMA FoldExtends ==
    ASSUME NEW A, NEW B, NEW b \in A, NEW F \in [A -> [B -> A]],
           NEW n \in Nat, NEW u, \A k \in 1 .. n + 1 : u[k] \in B,
           HasFold(A, b, F, u, n)
    PROVE  HasFold(A, b, F, u, n + 1)
<1>0. PICK g \in [SUBSET (1 .. n) -> A] : FoldOf(g, b, F, u, n)
    BY DEF HasFold
<1> DEFINE h == [s \in SUBSET (1 .. n + 1) |->
                    IF n + 1 \in s THEN F[g[s \ {n + 1}]][u[n + 1]] ELSE g[s]]
<1>1. \A s \in SUBSET (1 .. n + 1) : s \ {n + 1} \in SUBSET (1 .. n)
    OBVIOUS
<1>2. ASSUME NEW s \in SUBSET (1 .. n + 1), n + 1 \notin s PROVE s \in SUBSET (1 .. n)
    <2>1. \A k \in 1 .. n + 1 : k # n + 1 => k \in 1 .. n
        OBVIOUS
    <2> HIDE DEF h
    <2> QED
        BY <1>2, <2>1
<1>3. h \in [SUBSET (1 .. n + 1) -> A]
    <2> SUFFICES ASSUME NEW s \in SUBSET (1 .. n + 1)
                 PROVE  (IF n + 1 \in s THEN F[g[s \ {n + 1}]][u[n + 1]] ELSE g[s]) \in A
        OBVIOUS
    <2>1. CASE n + 1 \in s
        <3>1. g[s \ {n + 1}] \in A /\ u[n + 1] \in B
            BY <1>1
        <3> QED
            BY <3>1, <2>1
    <2>2. CASE n + 1 \notin s
        BY <2>2, <1>2
    <2> QED
        BY <2>1, <2>2
<1>4. h[{}] = b
    BY <1>0 DEF FoldOf
<1>5. ASSUME NEW s \in SUBSET (1 .. n + 1), s # {}
      PROVE  h[s] = F[h[s \ {Largest(s)}]][u[Largest(s)]]
    <2>1. n + 1 \in Nat
        OBVIOUS
    <2>2. Largest(s) \in s /\ \A y \in s : y <= Largest(s)
        BY <1>5, <2>1, LargestElement
    <2>3. CASE n + 1 \in s
        <3>2. Largest(s) = n + 1
            BY <2>3, LargestLast
        <3>3. h[s \ {n + 1}] = g[s \ {n + 1}]
            BY <1>1
        <3>4. h[s] = F[g[s \ {n + 1}]][u[n + 1]]
            BY <2>3
        <3> HIDE DEF h
        <3> QED
            BY <3>2, <3>3, <3>4
    <2>4. CASE n + 1 \notin s
        <3>1. s \in SUBSET (1 .. n) /\ s \ {Largest(s)} \in SUBSET (1 .. n)
            BY <2>4, <1>2
        <3>2. h[s] = g[s] /\ h[s \ {Largest(s)}] = g[s \ {Largest(s)}]
            BY <3>1, <2>4
        <3> HIDE DEF h
        <3>3. g[s] = F[g[s \ {Largest(s)}]][u[Largest(s)]]
            BY <1>0, <1>5, <3>1 DEF FoldOf
        <3> QED
            BY <3>2, <3>3
    <2> QED
        BY <2>3, <2>4
<1> HIDE DEF h
<1> QED
    BY <1>3, <1>4, <1>5 DEF FoldOf, HasFold

LEMMA FoldExists ==
    ASSUME NEW A, NEW B, NEW b \in A, NEW F \in [A -> [B -> A]],
           NEW N \in Nat, NEW u, \A k \in 1 .. N : u[k] \in B
    PROVE  HasFold(A, b, F, u, N)
<1> DEFINE S == {n \in Nat : n <= N => HasFold(A, b, F, u, n)}
<1>1. HasFold(A, b, F, u, 0)
    <2> DEFINE g == [s \in SUBSET (1 .. 0) |-> b]
    <2>1. g \in [SUBSET (1 .. 0) -> A] /\ g[{}] = b
        OBVIOUS
    <2>2. \A s \in SUBSET (1 .. 0) : s = {}
        OBVIOUS
    <2> HIDE DEF g
    <2> QED
        BY <2>1, <2>2 DEF FoldOf, HasFold
<1>2. ASSUME NEW n \in Nat, n + 1 <= N, HasFold(A, b, F, u, n)
      PROVE  HasFold(A, b, F, u, n + 1)
    <2>1. \A k \in 1 .. n + 1 : u[k] \in B
        BY <1>2
    <2> HIDE DEF S
    <2> QED
        BY <1>2, <2>1, FoldExtends
<1>3. 0 \in S
    BY <1>1
<1>4. ASSUME NEW n \in Nat, n \in S PROVE n + 1 \in S
    BY <1>4, <1>2
<1> HIDE DEF S
<1>5. \A n \in Nat : n \in S
    BY <1>3, <1>4, InductionSet
<1>6. N \in S
    BY <1>5
<1> QED
    BY <1>6 DEF S
=============================================================================

---------------------------- MODULE NumberLemmas ----------------------------
(***************************************************************************)
(* What the proofs share about numbers: induction and loops, and how a     *)
(* list is divided among threads.                                          *)
(*                                                                         *)
(* Induction is over a set instead of a predicate: a theorem that takes a  *)
(* set can be cited where one that takes an operator cannot.  To show P(n) *)
(* for all n, apply it to {n \in Nat : P(n)}.                              *)
(***************************************************************************)
EXTENDS Integers, FiniteSetTheorems, TLAPS

\* A set with 0 and the successor of each of its numbers has every number: if
\* m were missing, n |-> n + 1 would be an injection of the numbers of the set
\* below m into themselves, onto all of them because they are finitely many,
\* and 0 is not a successor.
LEMMA InductiveSetHasAll ==
  ASSUME NEW Q, 0 \in Q, \A n \in Nat : n \in Q => n + 1 \in Q
  PROVE  Nat \subseteq Q
<1> SUFFICES ASSUME NEW m \in Nat, m \notin Q PROVE FALSE
  OBVIOUS
<1> DEFINE A == {n \in 0 .. m : n \in Q}
<1> DEFINE next == [n \in A |-> n + 1]
<1>1. IsFiniteSet(A)
  <2>1. IsFiniteSet(0 .. m)
    BY FS_Interval
  <2> QED BY <2>1, FS_Subset, A \in SUBSET (0 .. m)
<1>2. next \in Injection(A, A)
  BY DEF Injection, IsInjective
<1> HIDE DEF A
<1>3. next \in Surjection(A, A)
  BY <1>1, <1>2, FS_Injection
<1>4. 0 \in A
  BY DEF A
<1>5. PICK n \in A : next[n] = 0
  BY <1>3, <1>4 DEF Surjection
<1> QED BY <1>5 DEF A

\* A set of natural numbers with an element has a least one: a number below
\* all elements is not an element, so the next one is below all of them too.
LEMMA LeastElement ==
  ASSUME NEW S \in SUBSET Nat, NEW n \in S
  PROVE  \E m \in S : \A k \in S : m <= k
<1> SUFFICES ASSUME \A m \in S : \E k \in S : k < m PROVE FALSE
  OBVIOUS
<1> DEFINE Q == {m \in Nat : \A k \in S : m <= k}
<1>1. 0 \in Q
  OBVIOUS
<1>2. ASSUME NEW m \in Nat, m \in Q PROVE m + 1 \in Q
  <2>1. m \notin S
    BY <1>2
  <2> QED BY <1>2, <2>1
<1>3. n + 1 \in Q
  <2>1. n + 1 \in Nat
    OBVIOUS
  <2> HIDE DEF Q
  <2> QED BY <1>1, <1>2, <2>1, InductiveSetHasAll
<1> QED BY <1>3

\* Induction up to a bound.
LEMMA InductionUpTo ==
  ASSUME NEW N \in Nat, NEW Q, 0 \in Q, \A n \in 0 .. N - 1 : n \in Q => n + 1 \in Q
  PROVE  0 .. N \subseteq Q
<1> DEFINE P == {n \in Nat : n <= N => n \in Q}
<1>1. 0 \in P
  OBVIOUS
<1>2. ASSUME NEW n \in Nat, n \in P PROVE n + 1 \in P
  <2> SUFFICES ASSUME n + 1 <= N PROVE n + 1 \in Q
    OBVIOUS
  <2>1. n \in 0 .. N - 1 /\ n <= N
    OBVIOUS
  <2> QED BY <1>2, <2>1
<1>3. Nat \subseteq P
  <2> HIDE DEF P
  <2> QED BY <1>1, <1>2, InductiveSetHasAll
<1> QED BY <1>3

\* Two functions begin with the same value, and up to N they go on alike.
GoAlike(f, g, N) ==
  f[0] = g[0] /\ \A n \in 1 .. N : f[n - 1] = g[n - 1] => f[n] = g[n]

\* Then they are the same up to N: a recursive definition over an interval
\* defines one function.
LEMMA AgreeUpTo ==
  ASSUME NEW N \in Nat, NEW f, NEW g, GoAlike(f, g, N)
  PROVE  \A n \in 0 .. N : f[n] = g[n]
<1> DEFINE Q == {n \in 0 .. N : f[n] = g[n]}
<1>1. 0 \in Q
  BY DEF GoAlike
<1>2. ASSUME NEW n \in 0 .. N - 1, n \in Q PROVE n + 1 \in Q
  <2>1. n + 1 \in 1 .. N /\ (n + 1) - 1 = n
    OBVIOUS
  <2> QED BY <1>2, <2>1 DEF GoAlike
<1>3. 0 .. N \subseteq Q
  <2> HIDE DEF Q
  <2> QED BY <1>1, <1>2, InductionUpTo
<1> QED BY <1>3

\* What a loop of N turns does with a value of A in each turn.
Steps(N, A) == [(1 .. N) \X A -> A]

\* f holds the value after each turn, the first being base.
IsLoop(f, N, A, base, step) ==
  /\ f \in [0 .. N -> A]
  /\ f[0] = base
  /\ \A n \in 1 .. N : f[n] = step[<< n, f[n - 1] >>]

\* A loop of N turns that starts with base and goes from acc to step[n, acc]
\* in turn n has a value after each turn: a recursive definition of this form
\* defines a function.
LEMMA LoopDefined ==
  ASSUME NEW N \in Nat, NEW A, NEW base \in A, NEW step \in Steps(N, A)
  PROVE  \E f : IsLoop(f, N, A, base, step)
<1>0. step \in [(1 .. N) \X A -> A]
  BY DEF Steps
<1> DEFINE Upto(m) == \E f \in [0 .. m -> A] :
                        \A n \in 0 .. m : f[n] = IF n = 0 THEN base ELSE step[<< n, f[n - 1] >>]
           Q == {m \in Nat : m <= N => Upto(m)}
<1> HIDE DEF Upto
<1>1. Upto(0)
  <2> DEFINE f == [n \in 0 .. 0 |-> base]
  <2>1. f \in [0 .. 0 -> A]
    OBVIOUS
  <2>2. \A n \in 0 .. 0 : f[n] = IF n = 0 THEN base ELSE step[<< n, f[n - 1] >>]
    OBVIOUS
  <2> HIDE DEF f
  <2> QED BY <2>1, <2>2, Zenon DEF Upto
<1>2. ASSUME NEW m \in Nat, m + 1 <= N, Upto(m) PROVE Upto(m + 1)
  <2>1. PICK f \in [0 .. m -> A] : \A n \in 0 .. m : f[n] = IF n = 0 THEN base ELSE step[<< n, f[n - 1] >>]
    BY <1>2, Zenon DEF Upto
  <2> DEFINE last == step[<< m + 1, f[m] >>]
             g == [n \in 0 .. m + 1 |-> IF n = m + 1 THEN last ELSE f[n]]
  <2>2. last \in A
    <3>1. m + 1 \in 1 .. N /\ f[m] \in A
      BY <1>2, <2>1
    <3> QED BY <1>0, <3>1
  <2> HIDE DEF last
  <2>3. g \in [0 .. m + 1 -> A]
    BY <2>2
  <2>4. (\A n \in 0 .. m : g[n] = f[n]) /\ g[m + 1] = last
    OBVIOUS
  <2> HIDE DEF g
  <2>5. ASSUME NEW n \in 0 .. m + 1 PROVE g[n] = IF n = 0 THEN base ELSE step[<< n, g[n - 1] >>]
    <3>1. CASE n = m + 1
      <4>1. n - 1 = m /\ n # 0 /\ m \in 0 .. m
        BY <3>1
      <4> QED BY <2>4, <3>1, <4>1 DEF last
    <3>2. CASE n # m + 1
      <4>1. n \in 0 .. m /\ (n # 0 => n - 1 \in 0 .. m)
        BY <3>2
      <4> QED BY <2>1, <2>4, <4>1
    <3> QED BY <3>1, <3>2
  <2> QED BY <2>3, <2>5, Zenon DEF Upto
<1>3. N \in Q
  <2>1. 0 \in Q
    BY <1>1
  <2>2. \A m \in Nat : m \in Q => m + 1 \in Q
    <3>1. \A m \in Nat : m + 1 <= N => m <= N
      OBVIOUS
    <3> QED BY <1>2, <3>1
  <2> HIDE DEF Q
  <2> QED BY <2>1, <2>2, InductiveSetHasAll
<1>4. PICK f \in [0 .. N -> A] : \A n \in 0 .. N : f[n] = IF n = 0 THEN base ELSE step[<< n, f[n - 1] >>]
  <2>1. Upto(N)
    BY <1>3
  <2> QED BY <2>1, Zenon DEF Upto
<1>5. f[0] = base
  <2>1. 0 \in 0 .. N
    OBVIOUS
  <2> QED BY <1>4, <2>1
<1>6. ASSUME NEW n \in 1 .. N PROVE f[n] = step[<< n, f[n - 1] >>]
  <2>1. n \in 0 .. N /\ n # 0
    OBVIOUS
  <2> QED BY <1>4, <2>1
<1> QED BY <1>5, <1>6, Zenon DEF IsLoop

-----------------------------------------------------------------------------
(* Quotients *)

LEMMA DivMod ==
  ASSUME NEW n \in Nat, NEW d \in Nat \ {0}
  PROVE  /\ n \div d \in Nat
         /\ n % d \in 0 .. d - 1
         /\ n = d * (n \div d) + (n % d)
<1>1. n \div d \in Nat /\ n % d \in 0 .. d - 1
  OBVIOUS
<1>2. n \in Int /\ d \in Int /\ d > 0
  OBVIOUS
<1>3. n % d = n - d * (n \div d)
  BY <1>2
<1>4. d * (n \div d) \in Int
  BY <1>1, <1>2
<1> QED BY <1>1, <1>2, <1>3, <1>4

\* A product of natural numbers is one, and grows with its factors.
LEMMA TimesGrows ==
  ASSUME NEW a \in Nat, NEW b \in Nat, NEW u \in Nat, a <= b
  PROVE  a * u \in Nat /\ b * u \in Nat /\ a * u <= b * u
<1> PICK c : c = b - a
  OBVIOUS
<1>1. c \in Nat /\ b = a + c
  OBVIOUS
<1>2. a * u \in Nat /\ c * u \in Nat
  BY <1>1
<1>3. b * u = a * u + c * u
  BY <1>1
<1> QED BY <1>2, <1>3

\* A product with a sum.
LEMMA TimesSum ==
  ASSUME NEW a \in Nat, NEW b \in Nat, NEW u \in Nat
  PROVE  (a + b) * u = a * u + b * u
OBVIOUS

\* What is smaller than the modulus stays.
LEMMA SmallMod ==
  ASSUME NEW n \in Nat, NEW d \in Nat \ {0}, n < d
  PROVE  n % d = n
<1> PICK q : q = n \div d
  OBVIOUS
<1> PICK r : r = n % d
  OBVIOUS
<1>1. q \in Nat /\ r \in 0 .. d - 1 /\ n = d * q + r
  BY DivMod
<1>2. q = 0
  <2> SUFFICES ASSUME q >= 1 PROVE FALSE
    BY <1>1
  <2>1. 1 * d <= q * d
    BY <1>1, TimesGrows
  <2>2. d * q = q * d /\ 1 * d = d
    BY <1>1
  <2> QED BY <1>1, <2>1, <2>2
<1>3. d * q = 0
  BY <1>2
<1> QED BY <1>1, <1>3

\* A multiple of u is so many times u.
LEMMA TimesDiv ==
  ASSUME NEW k \in Nat, NEW u \in Nat \ {0}
  PROVE  (k * u) \div u = k /\ (k * u) % u = 0
<1> PICK n : n = k * u
  OBVIOUS
<1> PICK q : q = n \div u
  OBVIOUS
<1> PICK r : r = n % u
  OBVIOUS
<1>1. n \in Nat
  OBVIOUS
<1>2. q \in Nat /\ r \in 0 .. u - 1 /\ n = u * q + r
  BY <1>1, DivMod
<1>3. ~(q + 1 <= k)
  <2> SUFFICES ASSUME q + 1 <= k PROVE FALSE
    OBVIOUS
  <2>1. (q + 1) * u <= k * u
    BY <1>2, TimesGrows
  <2>2. (q + 1) * u = u * q + u
    BY <1>2
  <2> QED BY <1>2, <2>1, <2>2
<1>4. ~(k + 1 <= q)
  <2> SUFFICES ASSUME k + 1 <= q PROVE FALSE
    OBVIOUS
  <2>1. (k + 1) * u <= q * u
    BY <1>2, TimesGrows
  <2>2. (k + 1) * u = k * u + u /\ q * u = u * q
    BY <1>2
  <2>3. u * q \in Nat
    BY <1>2
  <2> QED BY <1>1, <1>2, <2>1, <2>2, <2>3
<1>5. q = k
  BY <1>2, <1>3, <1>4
<1>6. u * q = k * u
  BY <1>5
<1> QED BY <1>2, <1>5, <1>6

\* The list is long enough for the quotient it is divided into.
LEMMA DivAtLeast ==
  ASSUME NEW n \in Nat, NEW d \in Nat \ {0}, NEW q \in Nat, d * q <= n
  PROVE  n \div d >= q
<1>1. n \div d \in Nat /\ n % d \in 0 .. d - 1 /\ n = d * (n \div d) + (n % d)
  BY DivMod
<1>2. ASSUME n \div d + 1 <= q PROVE FALSE
  <2> DEFINE k == n \div d
  <2>1. d * (k + 1) <= d * q
    <3> HIDE DEF k
    <3>1. k \in Nat /\ k + 1 <= q
      BY <1>1, <1>2 DEF k
    <3>2. PICK e \in Nat : q = k + 1 + e
      <4>1. q - (k + 1) \in Nat /\ q = k + 1 + (q - (k + 1))
        BY <3>1
      <4> QED BY <4>1
    <3>3. d * q = d * (k + 1) + d * e /\ d * e \in Nat
      BY <3>1, <3>2
    <3> QED BY <3>1, <3>3
  <2>2. d * (k + 1) = d * k + d
    BY <1>1
  <2> QED BY <1>1, <2>1, <2>2
<1> QED BY <1>1, <1>2

\* The number of threads that get_proper_thread_count_to_process_list gives n
\* files on a machine of h threads: between one and h, and m files or more for
\* each unless it is one.
LEMMA ThreadCountRange ==
  ASSUME NEW n \in Nat, NEW h \in Nat \ {0}, NEW m \in Nat \ {0}, NEW c,
         c = IF n \div h >= m THEN h ELSE IF n \div m > 1 THEN n \div m ELSE 1
  PROVE  c \in 1 .. h /\ (c > 1 => n \div c >= m)
<1> DEFINE T == n \div m
<1>1. CASE n \div h >= m
  BY <1>1
<1>2. CASE ~ (n \div h >= m) /\ T > 1
  <2>1. c = T
    BY <1>2
  <2>2. T \in Nat \ {0} /\ m * T <= n
    BY <1>2, DivMod
  <2>3. T <= h
    <3>1. CASE T >= h + 1
      <4>1. PICK e \in Nat : T = h + e
        <5>1. T - h \in Nat /\ T = h + (T - h)
          BY <2>2, <3>1
        <5> QED BY <5>1
      <4>2. m * T = m * h + m * e /\ m * e \in Nat
        BY <4>1
      <4>3. m * h = h * m /\ m * h \in Nat /\ m * T \in Nat
        BY <2>2
      <4>4. h * m <= n
        BY <2>2, <4>2, <4>3
      <4> QED BY <1>2, <4>4, DivAtLeast
    <3> QED BY <2>2, <3>1
  <2>4. n \div T >= m
    <3>1. T * m <= n
      BY <2>2
    <3> QED BY <2>2, <3>1, DivAtLeast
  <2> QED BY <2>1, <2>2, <2>3, <2>4
<1>3. CASE ~ (n \div h >= m) /\ ~ (T > 1)
  BY <1>3
<1> QED BY <1>1, <1>2, <1>3

-----------------------------------------------------------------------------
(* Shares *)

\* Where share i begins when n things are divided into d shares, of which the
\* first n % d have one more than the others.
ShareBegin(i, n, d) == i * (n \div d) + (IF i <= n % d THEN i ELSE n % d)

ShareSize(i, n, d) == (n \div d) + (IF i < n % d THEN 1 ELSE 0)

\* Share i ends where share i + 1 begins, the first begins at 0 and the last
\* ends at n.
LEMMA SharesTile ==
  ASSUME NEW n \in Nat, NEW d \in Nat \ {0}
  PROVE  /\ ShareBegin(0, n, d) = 0
         /\ ShareBegin(d, n, d) = n
         /\ \A i \in Nat :
              /\ ShareBegin(i, n, d) \in Nat
              /\ ShareSize(i, n, d) \in Nat
              /\ ShareBegin(i + 1, n, d) = ShareBegin(i, n, d) + ShareSize(i, n, d)
              /\ \A j \in Nat : i <= j => ShareBegin(i, n, d) <= ShareBegin(j, n, d)
<1> DEFINE b == n \div d
           r == n % d
           First(i) == IF i <= r THEN i ELSE r
           one(i) == IF i < r THEN 1 ELSE 0
<1>1. b \in Nat /\ r \in 0 .. d - 1 /\ n = d * b + r
  BY DivMod
<1>2. \A i : ShareBegin(i, n, d) = i * b + First(i)
  BY DEF ShareBegin
<1>3. \A i : ShareSize(i, n, d) = b + one(i)
  BY DEF ShareSize
<1> HIDE DEF b, r
<1>4. \A i \in Nat : i * b \in Nat /\ (i + 1) * b = i * b + b
  BY <1>1
<1>5. ASSUME NEW i \in Nat
      PROVE  First(i) \in Nat /\ one(i) \in Nat /\ First(i + 1) = First(i) + one(i)
  BY <1>1
<1>6. ASSUME NEW i \in Nat, NEW j \in Nat, i <= j PROVE First(i) <= First(j)
  BY <1>1, <1>6
<1>7. First(0) = 0 /\ First(d) = r
  BY <1>1
<1> HIDE DEF First, one
<1>8. ASSUME NEW i \in Nat
      PROVE  ShareBegin(i, n, d) \in Nat /\ ShareSize(i, n, d) \in Nat
  <2>1. First(i) \in Nat /\ one(i) \in Nat /\ i * b \in Nat
    BY <1>4, <1>5
  <2> QED BY <1>1, <1>2, <1>3, <2>1
<1>9. ASSUME NEW i \in Nat
      PROVE  ShareBegin(i + 1, n, d) = ShareBegin(i, n, d) + ShareSize(i, n, d)
  <2> DEFINE p == i * b
             f == First(i)
             o == one(i)
  <2>1. /\ ShareBegin(i + 1, n, d) = (p + b) + (f + o)
        /\ ShareBegin(i, n, d) = p + f
        /\ ShareSize(i, n, d) = b + o
        /\ p \in Nat /\ f \in Nat /\ o \in Nat
    BY <1>2, <1>3, <1>4, <1>5
  <2> HIDE DEF p, f, o
  <2> QED BY <1>1, <2>1
<1>10. ShareBegin(0, n, d) = 0
  <2>1. 0 * b = 0
    BY <1>1
  <2> QED BY <1>2, <1>7, <2>1
<1>11. ShareBegin(d, n, d) = n
  <2>1. ShareBegin(d, n, d) = d * b + r
    BY <1>2, <1>7
  <2> QED BY <1>1, <2>1
<1>12. ASSUME NEW i \in Nat, NEW j \in Nat, i <= j
       PROVE  ShareBegin(i, n, d) <= ShareBegin(j, n, d)
  <2>1. PICK e \in Nat : j = i + e
    <3>1. j - i \in Nat /\ j = i + (j - i)
      BY <1>12
    <3> QED BY <3>1
  <2>2. j * b = i * b + e * b /\ e * b \in Nat
    BY <1>1, <2>1
  <2> DEFINE x == i * b
             y == e * b
             f == First(i)
             g == First(j)
  <2>3. /\ ShareBegin(i, n, d) = x + f /\ ShareBegin(j, n, d) = (x + y) + g
        /\ x \in Nat /\ y \in Nat /\ f \in Nat /\ g \in Nat /\ f <= g
    BY <1>2, <1>4, <1>5, <1>6, <1>12, <2>2
  <2> HIDE DEF x, y, f, g
  <2> QED BY <2>3
<1> QED BY <1>8, <1>9, <1>10, <1>11, <1>12

\* Each of the n things is in one share and in no other.
LEMMA OneShareEach ==
  ASSUME NEW n \in Nat, NEW d \in Nat \ {0}, NEW f \in 1 .. n
  PROVE  \E i \in 0 .. d - 1 :
           /\ ShareBegin(i, n, d) < f /\ f <= ShareBegin(i + 1, n, d)
           /\ \A j \in 0 .. d - 1 :
                ShareBegin(j, n, d) < f /\ f <= ShareBegin(j + 1, n, d) => j = i
<1> DEFINE S == {i \in 0 .. d : f <= ShareBegin(i, n, d)}
<1>1. d \in S /\ S \in SUBSET Nat
  BY SharesTile
<1>2. PICK m \in S : \A k \in S : m <= k
  <2> HIDE DEF S
  <2> QED BY <1>1, LeastElement
<1>3. m # 0
  BY SharesTile
<1> DEFINE i == m - 1
<1>4. i \in 0 .. d - 1 /\ i + 1 = m /\ i \notin S
  BY <1>2, <1>3
<1>5. ShareBegin(i, n, d) < f /\ f <= ShareBegin(i + 1, n, d)
  <2>1. i \in Nat /\ i \in 0 .. d
    BY <1>4
  <2>2. ShareBegin(i, n, d) \in Nat
    BY <2>1, SharesTile
  <2> HIDE DEF i
  <2> QED BY <1>4, <2>1, <2>2
<1>6. ASSUME NEW j \in 0 .. d - 1, ShareBegin(j, n, d) < f, f <= ShareBegin(j + 1, n, d)
      PROVE  j = i
  <2> HIDE DEF i, S
  <2>1. i \in Nat /\ j \in Nat /\ i + 1 \in Nat /\ j + 1 \in Nat
    BY <1>4
  <2>2. /\ ShareBegin(i, n, d) \in Nat /\ ShareBegin(i + 1, n, d) \in Nat
        /\ ShareBegin(j, n, d) \in Nat /\ ShareBegin(j + 1, n, d) \in Nat
        /\ i + 1 <= j => ShareBegin(i + 1, n, d) <= ShareBegin(j, n, d)
        /\ j + 1 <= i => ShareBegin(j + 1, n, d) <= ShareBegin(i, n, d)
    BY <2>1, SharesTile
  <2> QED BY <1>5, <1>6, <2>1, <2>2
<1> HIDE DEF i, S
<1> QED BY <1>4, <1>5, <1>6
=============================================================================

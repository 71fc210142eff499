---------------------------- MODULE TokensProofs ----------------------------
(***************************************************************************)
(* Proofs about the tokens of an account.  AccountAssets with its          *)
(* FlexSwapper, for any tokens, decimals, pools, feeds and amounts: the    *)
(* swapper asks for the minimum it documents, so that whoever moves the    *)
(* money of an account nothing of it is lost.  ForeignCoins and            *)
(* TransferClogs, for any accounts, tokens and amounts and a chain of any  *)
(* length: what the API asks to swap is held, and what it tells of each    *)
(* transfer happened.  The two share no state, only the lemmas of the      *)
(* first section.                                                          *)
(***************************************************************************)
EXTENDS AccountAssets, TransferClogs, WellFoundedInduction, FiniteSetTheorems, SequenceTheorems, TLAPS

-----------------------------------------------------------------------------
(* Numbers, recursion and finite sets *)

\* Induction over a set of natural numbers.
LEMMA Induction ==
    ASSUME NEW S, 0 \in S, \A n \in Nat : n \in S => n + 1 \in S
    PROVE  Nat \subseteq S
<1> DEFINE T == {n \in Nat : n \notin S}
           R == OpToRel(<, Nat)
<1> SUFFICES ASSUME T # {} PROVE FALSE
  OBVIOUS
<1>1. IsWellFoundedOn(R, Nat)
  BY NatLessThanWellFounded
<1>2. T \subseteq Nat
  OBVIOUS
<1> HIDE DEF R
<1>3. PICK x \in T : \A y \in T : ~(<<y, x>> \in R)
  BY <1>1, <1>2, WFMin
<1>4. x # 0 /\ x \in Nat
  BY <1>3
<1>5. x - 1 \in Nat /\ x - 1 < x
  BY <1>4
<1>6. <<x - 1, x>> \in R
  BY <1>4, <1>5 DEF R, OpToRel
<1>7. x - 1 \in S
  BY <1>3, <1>5, <1>6
<1> QED
  BY <1>4, <1>5, <1>7

\* A first value and a function from an index and a value to the next one, their sequence, and its beginning.
IsStep(X, first, step) == first \in X /\ step \in [Nat \X X -> X]

IsRun(f, X, first, step) ==
    f \in [Nat -> X] /\ f[0] = first /\ \A n \in Nat : f[n + 1] = step[<<n, f[n]>>]

\* Recursion has a solution.
LEMMA RunExists ==
    ASSUME NEW X, NEW first, NEW step, IsStep(X, first, step)
    PROVE  \E f : IsRun(f, X, first, step)
<1> USE DEF IsStep
<1> DEFINE Upto(n, g) == /\ g[0] = first
                         /\ \A k \in 0..n : k < n => g[k + 1] = step[<<k, g[k]>>]
           Some == {n \in Nat : \E g \in [0..n -> X] : Upto(n, g)}
           Same == {k \in Nat : \A n, m \in Nat : k <= n /\ k <= m =>
                       \A g \in [0..n -> X], h \in [0..m -> X] : Upto(n, g) /\ Upto(m, h) => g[k] = h[k]}
<1>1. Nat \subseteq Some
  <2>1. 0 \in Some
    <3> DEFINE g == [k \in 0..0 |-> first]
    <3>1. g \in [0..0 -> X] /\ Upto(0, g)
      OBVIOUS
    <3> QED
      BY <3>1
  <2>2. ASSUME NEW n \in Nat, n \in Some PROVE n + 1 \in Some
    <3>1. PICK g \in [0..n -> X] : Upto(n, g)
      BY <2>2
    <3> DEFINE h == [k \in 0..n + 1 |-> IF k <= n THEN g[k] ELSE step[<<n, g[n]>>]]
    <3>2. g[n] \in X /\ step[<<n, g[n]>>] \in X
      OBVIOUS
    <3>3. h \in [0..n + 1 -> X]
      <4> SUFFICES ASSUME NEW k \in 0..n + 1 PROVE h[k] \in X
        OBVIOUS
      <4>1. CASE k <= n
        <5>1. k \in 0..n
          BY <4>1
        <5> QED
          BY <5>1, <4>1
      <4>2. CASE ~(k <= n)
        BY <4>2, <3>2
      <4> QED
        BY <4>1, <4>2
    <3>4. h[0] = first
      BY <3>1
    <3>5. ASSUME NEW k \in 0..n + 1, k < n + 1 PROVE h[k + 1] = step[<<k, h[k]>>]
      <4>1. CASE k < n
        <5>1. k \in 0..n /\ k + 1 \in 0..n + 1 /\ k + 1 <= n /\ k <= n
          BY <4>1
        <5>2. h[k + 1] = g[k + 1] /\ h[k] = g[k]
          BY <5>1
        <5> QED
          BY <5>1, <5>2, <4>1, <3>1
      <4>2. CASE k = n
        <5>1. h[n + 1] = step[<<n, g[n]>>] /\ h[n] = g[n]
          OBVIOUS
        <5> QED
          BY <4>2, <5>1
      <4>3. k < n \/ k = n
        BY <3>5
      <4> QED
        BY <4>1, <4>2, <4>3
    <3>6. Upto(n + 1, h)
      BY <3>4, <3>5
    <3> QED
      BY <3>3, <3>6
  <2> HIDE DEF Some
  <2> QED
    BY <2>1, <2>2, Induction
<1>2. Nat \subseteq Same
  <2>1. 0 \in Same
    OBVIOUS
  <2>2. ASSUME NEW k \in Nat, k \in Same PROVE k + 1 \in Same
    <3> SUFFICES ASSUME NEW n \in Nat, NEW m \in Nat, k + 1 <= n, k + 1 <= m,
                        NEW g \in [0..n -> X], NEW h \in [0..m -> X], Upto(n, g), Upto(m, h)
                 PROVE  g[k + 1] = h[k + 1]
      OBVIOUS
    <3>1. g[k] = h[k]
      <4>1. k <= n /\ k <= m
        OBVIOUS
      <4> HIDE DEF Upto
      <4> QED
        BY <2>2, <4>1, Zenon
    <3>2. k \in 0..n /\ k < n /\ k \in 0..m /\ k < m
      OBVIOUS
    <3>3. g[k + 1] = step[<<k, g[k]>>] /\ h[k + 1] = step[<<k, h[k]>>]
      BY <3>2
    <3> QED
      BY <3>1, <3>3
  <2> HIDE DEF Same
  <2> QED
    BY <2>1, <2>2, Induction
<1> DEFINE G(n) == CHOOSE g \in [0..n -> X] : Upto(n, g)
           f == [n \in Nat |-> G(n)[n]]
<1>3. \A n \in Nat : G(n) \in [0..n -> X] /\ Upto(n, G(n))
  BY <1>1
<1> HIDE DEF G
<1>4. f \in [Nat -> X]
  <2> SUFFICES ASSUME NEW n \in Nat PROVE G(n)[n] \in X
    OBVIOUS
  <2> QED
    BY <1>3
<1>5. f[0] = first
  BY <1>3
<1>6. ASSUME NEW n \in Nat PROVE f[n + 1] = step[<<n, f[n]>>]
  <2>1. G(n) \in [0..n -> X] /\ Upto(n, G(n)) /\ G(n + 1) \in [0..n + 1 -> X] /\ Upto(n + 1, G(n + 1))
    BY <1>3
  <2>2. n \in Same
    BY <1>2
  <2>3. G(n)[n] = G(n + 1)[n]
    BY <2>1, <2>2
  <2>4. n \in 0..n + 1 /\ n < n + 1 /\ n + 1 \in Nat
    OBVIOUS
  <2>5. G(n + 1)[n + 1] = step[<<n, G(n + 1)[n]>>]
    BY <2>1, <2>4
  <2> QED
    BY <2>3, <2>5
<1>7. IsRun(f, X, first, step)
  BY <1>4, <1>5, <1>6 DEF IsRun
<1> QED
  BY <1>7

IsRunUpto(f, X, first, step, m) ==
    /\ f \in [0..m -> X]
    /\ f = [n \in 0..m |-> IF n = 0 THEN first ELSE step[<<n - 1, f[n - 1]>>]]

\* So has recursion that stops at m.
LEMMA RunUpto ==
    ASSUME NEW X, NEW first, NEW step, IsStep(X, first, step), NEW m \in Nat
    PROVE  \E f : IsRunUpto(f, X, first, step, m)
<1>0. PICK g : IsRun(g, X, first, step)
  BY RunExists
<1>1. g \in [Nat -> X] /\ g[0] = first /\ \A n \in Nat : g[n + 1] = step[<<n, g[n]>>]
  BY <1>0 DEF IsRun
<1> DEFINE f == [n \in 0..m |-> g[n]]
<1>2. f \in [0..m -> X]
  BY <1>1
<1>3. ASSUME NEW n \in 0..m PROVE f[n] = IF n = 0 THEN first ELSE step[<<n - 1, f[n - 1]>>]
  <2>1. CASE n = 0
    BY <1>1, <2>1
  <2>2. CASE n # 0
    <3>1. n - 1 \in Nat /\ n - 1 \in 0..m /\ n = (n - 1) + 1
      BY <2>2
    <3>2. g[n] = step[<<n - 1, g[n - 1]>>]
      BY <1>1, <3>1
    <3> QED
      BY <2>2, <3>1, <3>2
  <2> QED
    BY <2>1, <2>2
<1>4. IsRunUpto(f, X, first, step, m)
  BY <1>2, <1>3 DEF IsRunUpto
<1> QED
  BY <1>4

\* What dividing and rounding down bounds.
LEMMA Division ==
    ASSUME NEW n \in Nat, NEW q \in Nat \ {0}
    PROVE  n \div q \in Nat /\ (n \div q) * q <= n /\ n < ((n \div q) + 1) * q
<1>1. \A m \in Int, k \in Nat \ {0} : m \div k \in Int
  OBVIOUS
<1>2. n = q * (n \div q) + (n % q) /\ n % q \in 0..q - 1 /\ n \div q \in Int
  OBVIOUS
<1> DEFINE d == n \div q
           r == n % q
<1> HIDE DEF d, r
<1>3. n = q * d + r /\ r \in 0..q - 1 /\ d \in Int
  BY <1>2 DEF d, r
<1>4. d >= 0
  <2> SUFFICES ASSUME d < 0 PROVE FALSE
    BY <1>3
  <2>1. d <= -1
    BY <1>3
  <2>2. q * d <= q * (-1)
    BY <2>1, <1>3
  <2> QED
    BY <2>2, <1>3
<1>5. d * q = q * d /\ (d + 1) * q = q * d + q
  BY <1>3
<1> QED
  BY <1>3, <1>4, <1>5 DEF d

\* Sets of numbers have a least and a greatest member.
LEMMA LeastNumber ==
    ASSUME NEW S, S \subseteq Nat, S # {}
    PROVE  \E x \in S : \A y \in S : x <= y
<1> DEFINE T == {n \in Nat : \A k \in S : n <= k}
<1> SUFFICES ASSUME \A x \in S : \E y \in S : y < x PROVE FALSE
  OBVIOUS
<1>1. 0 \in T
  OBVIOUS
<1>2. ASSUME NEW n \in Nat, n \in T PROVE n + 1 \in T
  BY <1>2
<1>3. Nat \subseteq T
  <2> HIDE DEF T
  <2> QED
    BY <1>1, <1>2, Induction
<1>4. PICK x \in S : TRUE
  OBVIOUS
<1>5. x + 1 \in T
  BY <1>3, <1>4
<1> QED
  BY <1>4, <1>5

LEMMA GreatestNumber ==
    ASSUME NEW S, S \subseteq Nat, S # {}, IsFiniteSet(S)
    PROVE  Max(S) \in S /\ \A x \in S : x <= Max(S)
<1> DEFINE Good(T) == \E m \in T : \A x \in T : x <= m
           N == {n \in Nat : \A T \in SUBSET Nat :
                   IsFiniteSet(T) /\ Cardinality(T) = n + 1 => Good(T)}
<1>1. 0 \in N
  <2> SUFFICES ASSUME NEW T \in SUBSET Nat, IsFiniteSet(T), Cardinality(T) = 1 PROVE Good(T)
    OBVIOUS
  <2>1. PICK y : T = {y}
    BY FS_Singleton
  <2> QED
    BY <2>1
<1>2. ASSUME NEW n \in Nat, n \in N PROVE n + 1 \in N
  <2> SUFFICES ASSUME NEW T \in SUBSET Nat, IsFiniteSet(T), Cardinality(T) = (n + 1) + 1
               PROVE  Good(T)
    OBVIOUS
  <2>1. T # {}
    BY FS_EmptySet
  <2>2. PICK y \in T : TRUE
    BY <2>1
  <2>3. IsFiniteSet(T \ {y}) /\ Cardinality(T \ {y}) = n + 1 /\ T \ {y} \in SUBSET Nat
    BY <2>2, FS_RemoveElement
  <2>4. Good(T \ {y})
    BY <1>2, <2>3
  <2>5. PICK m \in T \ {y} : \A x \in T \ {y} : x <= m
    BY <2>4
  <2>6. CASE y <= m
    BY <2>5, <2>6
  <2>7. CASE m < y
    <3>1. \A x \in T : x <= y
      BY <2>2, <2>5, <2>7
    <3> QED
      BY <2>2, <3>1
  <2> QED
    BY <2>2, <2>5, <2>6, <2>7
<1>3. Nat \subseteq N
  <2> HIDE DEF N
  <2> QED
    BY <1>1, <1>2, Induction
<1>4. PICK k \in Nat : Cardinality(S) = k + 1
  <2>1. Cardinality(S) \in Nat /\ Cardinality(S) # 0
    BY FS_CardinalityType, FS_EmptySet
  <2> QED
    BY <2>1, Cardinality(S) - 1 \in Nat, Cardinality(S) = (Cardinality(S) - 1) + 1
<1>5. Good(S)
  BY <1>3, <1>4
<1>6. PICK m \in S : \A x \in S : m >= x
  BY <1>5
<1> QED
  BY <1>6 DEF Max

\* The values a function takes on a finite set are finite in number.
LEMMA ImageIsFinite ==
    ASSUME NEW K, IsFiniteSet(K), NEW f, f = [k \in K |-> f[k]]
    PROVE  IsFiniteSet({f[k] : k \in K})
<1>1. f \in Surjection(K, {f[k] : k \in K})
  BY DEF Surjection
<1> QED
  BY <1>1, FS_Surjection

\* The lowest of several levels, and the first of those, is attained.
LEMMA BestIndex ==
    ASSUME NEW K, K \subseteq Nat, K # {}, IsFiniteSet(K), NEW L \in [K -> Nat]
    PROVE  \E k \in K : \A j \in K \ {k} : L[j] < L[k] \/ (L[j] = L[k] /\ k < j)
<1> DEFINE V == {L[k] : k \in K}
<1>1. V \subseteq Nat /\ V # {} /\ IsFiniteSet(V)
  BY ImageIsFinite
<1>2. PICK v \in V : \A x \in V : x <= v
  BY <1>1, GreatestNumber
<1> DEFINE F == {k \in K : L[k] = v}
<1>3. PICK k \in F : \A j \in F : k <= j
  <2>1. F # {} /\ F \subseteq Nat
    BY <1>2
  <2> QED
    BY <2>1, LeastNumber
<1>4. ASSUME NEW j \in K \ {k} PROVE L[j] < L[k] \/ (L[j] = L[k] /\ k < j)
  BY <1>1, <1>2, <1>3
<1> QED
  BY <1>3, <1>4

\* Products grow with their factors.
LEMMA Monotone ==
    ASSUME NEW m \in Nat, NEW n \in Nat, NEW k \in Nat, m <= n
    PROVE  m * k <= n * k /\ k * m <= k * n
<1>1. n - m \in Nat /\ (n - m) * k \in Nat
  OBVIOUS
<1>2. (n - m) * k = n * k - m * k /\ m * k = k * m /\ n * k = k * n
  OBVIOUS
<1> QED
  BY <1>1, <1>2

LEMMA StrictlyMonotone ==
    ASSUME NEW m \in Nat, NEW n \in Nat, NEW k \in Nat \ {0}, m < n
    PROVE  m * k < n * k /\ k * m < k * n
<1>1. m + 1 <= n
  OBVIOUS
<1>2. (m + 1) * k <= n * k
  BY <1>1, Monotone
<1>3. (m + 1) * k = m * k + k /\ m * k = k * m /\ n * k = k * n
  OBVIOUS
<1> QED
  BY <1>2, <1>3

-----------------------------------------------------------------------------
(* FlexSwapper: quotes, references and the minimum *)

\* The powers of ten are what their recursion says.
LEMMA PowerEquation ==
    /\ Pow10 = [n \in Nat |-> IF n = 0 THEN 1 ELSE 10 * Pow10[n - 1]]
    /\ Pow10 \in [Nat -> Nat]
<1> DEFINE E(f) == f = [n \in Nat |-> IF n = 0 THEN 1 ELSE 10 * f[n - 1]]
           step == [p \in Nat \X Nat |-> 10 * p[2]]
<1>0. PICK f : IsRun(f, Nat, 1, step)
  <2>1. IsStep(Nat, 1, step)
    BY DEF IsStep
  <2> HIDE DEF step
  <2> QED
    BY <2>1, RunExists
<1>1. f \in [Nat -> Nat] /\ f[0] = 1 /\ \A n \in Nat : f[n + 1] = step[<<n, f[n]>>]
  BY <1>0 DEF IsRun
<1>2. E(f)
  <2> SUFFICES ASSUME NEW n \in Nat PROVE f[n] = IF n = 0 THEN 1 ELSE 10 * f[n - 1]
    BY <1>1
  <2>1. CASE n # 0
    <3>1. n - 1 \in Nat /\ n = (n - 1) + 1 /\ f[n - 1] \in Nat
      BY <1>1, <2>1
    <3>2. f[n] = step[<<n - 1, f[n - 1]>>]
      BY <1>1, <3>1
    <3> QED
      BY <2>1, <3>1, <3>2
  <2> QED
    BY <1>1, <2>1
<1>3. E(Pow10)
  <2>1. Pow10 = CHOOSE g : E(g)
    BY DEF Pow10
  <2> HIDE DEF E
  <2> QED
    BY <1>2, <2>1
<1>4. Nat \subseteq {n \in Nat : Pow10[n] \in Nat}
  <2> DEFINE S == {n \in Nat : Pow10[n] \in Nat}
  <2>1. 0 \in S
    BY <1>3
  <2>2. \A n \in Nat : n \in S => n + 1 \in S
    BY <1>3
  <2>3. Nat \subseteq S
    <3> HIDE DEF S
    <3> QED
      BY <2>1, <2>2, Induction
  <2> QED
    BY <2>3
<1> QED
  BY <1>3, <1>4

LEMMA Powers ==
    /\ Pow10[0] = 1
    /\ \A n \in Nat : Pow10[n] \in Nat \ {0} /\ Pow10[n + 1] = 10 * Pow10[n]
<1>1. Pow10[0] = 1 /\ \A n \in Nat : Pow10[n] \in Nat /\ Pow10[n + 1] = 10 * Pow10[n]
  BY PowerEquation
<1> DEFINE S == {n \in Nat : Pow10[n] # 0}
<1>2. 0 \in S /\ \A n \in Nat : n \in S => n + 1 \in S
  BY <1>1
<1>3. Nat \subseteq S
  <2> HIDE DEF S
  <2> QED
    BY <1>2, Induction
<1> QED
  BY <1>1, <1>3

LEMMA PowerOfSum == \A m, n \in Nat : Pow10[m + n] = Pow10[m] * Pow10[n]
<1> SUFFICES ASSUME NEW m \in Nat PROVE \A n \in Nat : Pow10[m + n] = Pow10[m] * Pow10[n]
  OBVIOUS
<1> DEFINE S == {n \in Nat : Pow10[m + n] = Pow10[m] * Pow10[n]}
<1>1. 0 \in S
  BY Powers
<1>2. ASSUME NEW n \in Nat, n \in S PROVE n + 1 \in S
  <2> DEFINE x == Pow10[m]
             y == Pow10[n]
  <2>1. x \in Nat /\ y \in Nat /\ Pow10[m + n] = x * y
    BY <1>2, Powers
  <2>2. Pow10[m + (n + 1)] = 10 * Pow10[m + n] /\ Pow10[n + 1] = 10 * y
    <3>1. m + (n + 1) = (m + n) + 1 /\ m + n \in Nat
      OBVIOUS
    <3> QED
      BY <3>1, Powers
  <2> HIDE DEF x, y
  <2>3. 10 * (x * y) = x * (10 * y)
    BY <2>1
  <2> QED
    BY <2>1, <2>2, <2>3 DEF x
<1> QED
  <2> HIDE DEF S
  <2>1. Nat \subseteq S
    BY <1>1, <1>2, Induction
  <2> QED
    BY <2>1 DEF S

\* The tokens that have a contract.
ERC20 == Token \ {Native}

LEMMA EstimateIsNat ==
    ASSUME NEW p \in Pool, NEW a \in Nat
    PROVE  EstimateAt(p, a) \in Nat
<1>1. p.num \in Nat /\ p.den \in Nat \ {0}
  BY DEF Pool
<1>2. a * p.num \in Nat
  BY <1>1
<1> QED
  BY <1>1, <1>2, Division DEF EstimateAt

LEMMA QuoteDirectIsNat ==
    ASSUME NEW m, IsMarket(m), NEW t, NEW a \in Nat, NEW u
    PROVE  QuoteDirect(m, t, a, u) \in Nat
<1> DEFINE K == UsableTiers(m, t, a, u)
           p == m.pool[<<t, u>>]
<1> SUFFICES ASSUME K # {} PROVE EstimateAt(p[BestTier(m, t, a, u)], a) \in Nat
  BY DEF QuoteDirect
<1>1. K \subseteq 1..FeeTiers /\ <<t, u>> \in DOMAIN m.pool
  BY DEF UsableTiers
<1>2. p \in [1..FeeTiers -> Pool]
  BY <1>1 DEF IsMarket
<1>3. IsFiniteSet(K)
  <2>1. IsFiniteSet(1..FeeTiers)
    <3>1. 1 \in Int /\ FeeTiers \in Int
      BY TokenAssumption DEF TokenAssumption
    <3> QED
      BY <3>1, FS_Interval
  <2> HIDE DEF K
  <2> QED
    BY <1>1, <2>1, FS_Subset
<1> DEFINE L == [k \in K |-> p[k].liquidity]
<1>4. L \in [K -> Nat]
  BY <1>1, <1>2 DEF Pool
<1>5. \E k \in K : \A j \in K \ {k} : L[j] < L[k] \/ (L[j] = L[k] /\ k < j)
  <2> HIDE DEF K, L
  <2>1. K \subseteq Nat
    BY <1>1
  <2> QED
    BY <1>3, <1>4, <2>1, BestIndex
<1>6. BestTier(m, t, a, u) \in K
  BY <1>5 DEF BestTier
<1>7. p[BestTier(m, t, a, u)] \in Pool
  BY <1>1, <1>2, <1>6
<1> QED
  BY <1>7, EstimateIsNat

\* A quote is the best of finitely many estimates, and a number.
LEMMA QuoteIsNat ==
    ASSUME NEW m, IsMarket(m), NEW t, NEW a \in Nat, NEW u
    PROVE  Quote(m, t, a, u) \in Nat
<1> DEFINE D(x, n, y) == QuoteDirect(m, x, n, y)
           H == HopTokens \ {t, u}
           f == [h \in H |-> IF D(t, a, h) = 0 THEN 0 ELSE D(h, D(t, a, h), u)]
           V == UNION {{D(h, leg, u) : leg \in {D(t, a, h)} \ {0}} : h \in H}
<1>1. \A x, y : \A n \in Nat : D(x, n, y) \in Nat
  BY QuoteDirectIsNat
<1> HIDE DEF D
<1>2. IsFiniteSet(H)
  BY FS_Subset, TokenAssumption DEF TokenAssumption
<1>3. V \subseteq {f[h] : h \in H}
  OBVIOUS
<1>4. V \subseteq Nat
  BY <1>1
<1>5. IsFiniteSet({f[h] : h \in H})
  BY <1>2, ImageIsFinite
<1>6. IsFiniteSet(V)
  <2> HIDE DEF V, f
  <2> QED
    BY <1>3, <1>5, FS_Subset
<1>7. Max({0} \cup V) \in Nat
  <2>1. IsFiniteSet({0} \cup V)
    BY <1>6, FS_AddElement
  <2> HIDE DEF V
  <2>2. {0} \cup V \subseteq Nat /\ {0} \cup V # {}
    BY <1>4
  <2> QED
    BY <2>1, <2>2, GreatestNumber
<1>8. QuoteViaHop(m, t, a, u) \in Nat
  BY <1>7 DEF QuoteViaHop, D
<1>9. QuoteDirect(m, t, a, u) \in Nat
  BY QuoteDirectIsNat
<1>10. Larger[<<QuoteDirect(m, t, a, u), QuoteViaHop(m, t, a, u)>>] \in Nat
  BY <1>8, <1>9 DEF Larger
<1> QED
  BY <1>10 DEF Quote

\* A price the feed gives is above zero and recent.
LEMMA PriceOf ==
    ASSUME NEW m, IsMarket(m), NEW t \in Token, NEW p \in ChainlinkPrice(m, t)
    PROVE  /\ p.price \in Nat /\ p.dec \in Nat
           /\ t \in Stable => p.price = 1 /\ p.dec = 0
           /\ t \in Fed \ Stable => /\ p.price = m.feed[t].answer /\ p.price > 0
                                    /\ p.dec = FeedDecimals[t] /\ m.feed[t].age <= MaxAge
           /\ t \notin Stable \cup Fed => p.price = 0
<1>1. m.feed[t].answer \in Int /\ FeedDecimals[t] \in Nat
  BY TokenAssumption DEF IsMarket, Round, TokenAssumption
<1>2. CASE t \in Stable
  BY <1>2 DEF ChainlinkPrice
<1>3. CASE t \notin Stable \cup Fed
  BY <1>3 DEF ChainlinkPrice
<1>4. CASE t \in Fed \ Stable
  <2>1. ChainlinkPrice(m, t) = {[price |-> f.answer, dec |-> FeedDecimals[t]] :
                                   f \in {g \in {m.feed[t]} : ValidRound(g)}}
    BY <1>4 DEF ChainlinkPrice
  <2>2. p.price = m.feed[t].answer /\ p.dec = FeedDecimals[t] /\ ValidRound(m.feed[t])
    BY <2>1
  <2> QED
    BY <1>1, <1>4, <2>2 DEF ValidRound, Recent
<1> QED
  BY <1>2, <1>3, <1>4

LEMMA ShiftIsNat ==
    ASSUME NEW n \in Nat, NEW e \in Int
    PROVE  Shift(n, e) \in Nat
<1>1. CASE e < 0
  <2>1. -e \in Nat
    BY <1>1
  <2>2. Pow10[-e] \in Nat \ {0}
    BY <2>1, Powers
  <2> QED
    BY <1>1, <2>2, Division DEF Shift
<1>2. CASE ~(e < 0)
  <2>1. Pow10[e] \in Nat
    BY <1>2, Powers
  <2> QED
    BY <1>2, <2>1 DEF Shift
<1> QED
  BY <1>1, <1>2

\* n * 10^e over q, rounded down: a bound without a division.
LEMMA ShiftedQuotient ==
    ASSUME NEW n \in Nat, NEW q \in Nat \ {0}, NEW i \in Nat, NEW j \in Nat
    PROVE  LET r == Shift(n, j - i) \div q IN
           /\ r \in Nat
           /\ (r * q) * Pow10[i] <= n * Pow10[j]
           /\ n * Pow10[j] < ((r + 1) * q) * Pow10[i]
<1> DEFINE s == Shift(n, j - i)
           r == s \div q
<1>1. s \in Nat
  BY ShiftIsNat
<1>2. r \in Nat /\ r * q <= s /\ s < (r + 1) * q
  <2> HIDE DEF s
  <2> QED
    BY <1>1, Division
<1>3. r * q \in Nat /\ (r + 1) * q \in Nat /\ Pow10[i] \in Nat \ {0} /\ Pow10[j] \in Nat \ {0}
  <2> HIDE DEF r
  <2> QED
    BY <1>2, Powers
<1>4. CASE j >= i
  <2> DEFINE P == Pow10[j - i]
  <2>1. j - i \in Nat /\ ~(j - i < 0)
    BY <1>4
  <2>2. P \in Nat \ {0} /\ s = n * P
    BY <2>1, Powers DEF Shift
  <2>3. Pow10[j] = P * Pow10[i]
    BY <2>1, PowerOfSum, (j - i) + i = j
  <2> HIDE DEF P, s, r
  <2>4. n * Pow10[j] = s * Pow10[i]
    BY <2>2, <2>3, <1>3
  <2>5. (r * q) * Pow10[i] <= s * Pow10[i]
    BY <1>1, <1>2, <1>3, Monotone
  <2>6. s * Pow10[i] < ((r + 1) * q) * Pow10[i]
    BY <1>1, <1>2, <1>3, StrictlyMonotone
  <2> QED
    BY <1>2, <2>4, <2>5, <2>6 DEF r, s
<1>5. CASE j < i
  <2> DEFINE P == Pow10[i - j]
  <2>1. i - j \in Nat /\ j - i < 0 /\ -(j - i) = i - j
    BY <1>5
  <2>2. P \in Nat \ {0} /\ s = n \div P
    BY <2>1, Powers DEF Shift
  <2>3. Pow10[i] = P * Pow10[j]
    BY <2>1, PowerOfSum, (i - j) + j = i
  <2>4. s * P <= n /\ n < (s + 1) * P
    <3> HIDE DEF P
    <3> QED
      BY <2>2, Division
  <2> DEFINE x == r * q
             y == (r + 1) * q
             B == Pow10[j]
  <2>5. x \in Nat /\ y \in Nat /\ x <= s /\ s + 1 <= y /\ B \in Nat \ {0}
    <3> HIDE DEF s, r
    <3> QED
      BY <1>1, <1>2, <1>3
  <2> HIDE DEF P, s, r, x, y, B
  <2>6. x * P <= s * P /\ (s + 1) * P <= y * P /\ x * P \in Nat /\ y * P \in Nat
    BY <1>1, <2>2, <2>5, Monotone
  <2>7. x * P <= n /\ n < y * P
    <3>1. s * P \in Nat /\ (s + 1) * P \in Nat
      BY <1>1, <2>2
    <3> QED
      BY <2>4, <2>6, <3>1
  <2>8. (x * P) * B <= n * B /\ n * B < (y * P) * B
    BY <2>5, <2>6, <2>7, Monotone, StrictlyMonotone
  <2>9. (x * P) * B = x * (P * B) /\ (y * P) * B = y * (P * B)
    BY <2>2, <2>5
  <2> QED
    BY <1>2, <2>3, <2>8, <2>9 DEF r, s, x, y, B
<1> QED
  BY <1>4, <1>5

\* 1%, 2% and 4% of a number, rounded down.
LEMMA PartsOf ==
    ASSUME NEW n \in Nat
    PROVE  /\ n - n \div 100 \in Nat /\ 100 * (n - n \div 100) >= 99 * n
           /\ n - n \div 50 \in Nat /\ 50 * (n - n \div 50) >= 49 * n
           /\ n \div 25 \in Nat /\ 25 * (n \div 25) <= n
  OBVIOUS

\* The native token stands for the wrapped one.
LEMMA TokenFacts ==
    ASSUME NEW t \in Token
    PROVE  /\ AsERC20(t) \in ERC20 /\ AsERC20(t) \in Token
           /\ t \in ERC20 => AsERC20(t) = t
           /\ t \in OutputTokens \cup Stable \cup Fed => t \in ERC20
           /\ Decimals[AsERC20(t)] \in Nat /\ FeedDecimals[AsERC20(t)] \in Nat
  BY TokenAssumption DEF TokenAssumption, AsERC20, ERC20

\* The reference is a number.
LEMMA ReferenceIsNat ==
    ASSUME NEW m, IsMarket(m), NEW t \in Token, NEW u \in Token, NEW a \in Nat,
           NEW ref \in Reference(m, t, a, u)
    PROVE  ref \in Nat
<1>1. CASE {t, u} \subseteq Stable
  BY <1>1 DEF Reference
<1>2. CASE ~({t, u} \subseteq Stable)
  <2>1. ref \in ChainlinkQuote(m, t, a, u)
    BY <1>2 DEF Reference
  <2>2. PICK p \in ChainlinkPrice(m, t), q \in ChainlinkPrice(m, u) :
           ref = IF p.price = 0 \/ q.price = 0 THEN 0
                 ELSE Shift(a * p.price, Decimals[u] + q.dec - Decimals[t] - p.dec) \div q.price
    BY <2>1 DEF ChainlinkQuote
  <2>3. p.price \in Nat /\ q.price \in Nat /\ p.dec \in Nat /\ q.dec \in Nat
    BY PriceOf
  <2>4. CASE p.price = 0 \/ q.price = 0
    BY <2>2, <2>4
  <2>5. CASE ~(p.price = 0 \/ q.price = 0)
    <3> DEFINE e == Decimals[u] + q.dec - Decimals[t] - p.dec
    <3>1. e \in Int
      BY <2>3, TokenAssumption DEF TokenAssumption
    <3>2. a * p.price \in Nat /\ q.price \in Nat \ {0}
      BY <2>3, <2>5
    <3>3. ref = Shift(a * p.price, e) \div q.price
      BY <2>2, <2>5
    <3> HIDE DEF e
    <3>4. Shift(a * p.price, e) \in Nat
      BY <3>1, <3>2, ShiftIsNat
    <3> QED
      BY <3>2, <3>3, <3>4, Division
  <2> QED
    BY <2>4, <2>5
<1> QED
  BY <1>1, <1>2

\* The estimate is the quote of the pools, if the pools are asked.
LEMMA EstimateIsQuote ==
    ASSUME NEW m, IsMarket(m), NEW t, NEW u, NEW a \in Nat, NEW est \in Estimate(m, t, a, u)
    PROVE  /\ est \in Nat
           /\ HasUniswap(t, u) => est = Quote(m, t, a, u)
           /\ ~HasUniswap(t, u) => est = 0
<1>1. Quote(m, t, a, u) \in Nat
  BY QuoteIsNat
<1> QED
  BY <1>1 DEF Estimate

\* What the swapper asks for is the input itself, or follows from an estimate and a reference.
LEMMA MinimumOf ==
    ASSUME NEW m, IsMarket(m), NEW t \in Token, NEW u \in OutputTokens, NEW a \in Nat \ {0},
           NEW least \in MinAmountOut(m, t, a, u)
    PROVE  /\ least \in Nat \ {0}
           /\ AsERC20(t) = u => least = a
           /\ AsERC20(t) # u =>
                 \E est \in Estimate(m, AsERC20(t), a, u), ref \in Reference(m, AsERC20(t), a, u) :
                    /\ est \in Nat /\ ref \in Nat /\ Sane(est, ref)
                    /\ least = LeastOutput(AsERC20(t), u, est, ref)
<1> DEFINE x == AsERC20(t)
<1>1. x \in Token /\ u \in Token /\ AsERC20(u) = u
  BY TokenFacts, TokenAssumption DEF TokenAssumption
<1>2. CASE x = u
  BY <1>1, <1>2 DEF MinAmountOut
<1>3. CASE x # u
  <2>1. least \in MinimumOfPair(m, x, a, u) /\ least > 0
    BY <1>1, <1>3 DEF MinAmountOut
  <2>2. PICK est \in Estimate(m, x, a, u), ref \in Reference(m, x, a, u) :
           Sane(est, ref) /\ least = LeastOutput(x, u, est, ref)
    BY <2>1 DEF MinimumOfPair
  <2> HIDE DEF x
  <2>3. est \in Nat
    BY EstimateIsQuote
  <2>4. ref \in Nat
    BY <1>1, ReferenceIsNat
  <2>5. least \in Nat
    BY <2>2, <2>3, <2>4, PartsOf DEF LeastOutput, RefMinimum
  <2> QED
    BY <1>3, <2>1, <2>2, <2>3, <2>4, <2>5 DEF x
<1> QED
  BY <1>2, <1>3

\* The reference of two priced tokens is the value of the amount, rounded down to a unit.
LEMMA ReferenceIsWorth ==
    ASSUME IsMarket(market), NEW t \in Token, NEW u \in OutputTokens, NEW a \in Nat,
           Comparable(t, u), NEW ref \in Reference(market, AsERC20(t), a, u)
    PROVE  /\ Rate(t) \in Nat \ {0} /\ Rate(u) \in Nat \ {0} /\ Scale(t) \in Nat /\ Scale(u) \in Nat
           /\ Worth(u, ref, t) <= Worth(t, a, u)
           /\ Worth(t, a, u) < Worth(u, ref + 1, t)
<1> DEFINE x == AsERC20(t)
<1>1. x \in Token /\ u \in Token /\ AsERC20(u) = u /\ x \in Stable \cup Fed /\ u \in Stable \cup Fed
      /\ Decimals[x] \in Nat /\ Decimals[u] \in Nat /\ FeedDecimals[x] \in Nat /\ FeedDecimals[u] \in Nat
  <2>1. AsERC20(u) = u
    BY TokenFacts, TokenAssumption DEF TokenAssumption
  <2> QED
    BY <2>1, TokenFacts, TokenAssumption DEF TokenAssumption, Comparable, Priced, Rate
<1>2. CASE {x, u} \subseteq Stable
  <2>1. ref = a /\ Rate(t) = 1 /\ Rate(u) = 1 /\ Scale(t) = Decimals[x] /\ Scale(u) = Decimals[x]
    BY <1>1, <1>2 DEF Reference, Rate, Scale, Comparable
  <2>2. Pow10[Decimals[x]] \in Nat \ {0}
    BY <1>1, Powers
  <2> DEFINE P == Pow10[Decimals[x]]
  <2>3. Worth(u, ref, t) = a * P /\ Worth(t, a, u) = a * P /\ Worth(u, ref + 1, t) = (a + 1) * P
    <3> HIDE DEF x
    <3> QED
      BY <2>1 DEF Worth
  <2>4. a * P < (a + 1) * P
    <3> HIDE DEF P
    <3> QED
      BY <2>2, StrictlyMonotone DEF P
  <2>5. a * P <= a * P
    <3> HIDE DEF P
    <3> QED
      BY <2>2 DEF P
  <2> QED
    BY <1>1, <2>1, <2>3, <2>4, <2>5
<1>3. CASE ~({x, u} \subseteq Stable)
  <2>1. ref \in ChainlinkQuote(market, x, a, u)
    BY <1>3 DEF Reference
  <2>2. PICK p \in ChainlinkPrice(market, x), q \in ChainlinkPrice(market, u) :
           ref = IF p.price = 0 \/ q.price = 0 THEN 0
                 ELSE Shift(a * p.price, Decimals[u] + q.dec - Decimals[x] - p.dec) \div q.price
    BY <2>1 DEF ChainlinkQuote
  <2>3. p.price = Rate(t) /\ p.price \in Nat \ {0} /\ Scale(t) = Decimals[x] + p.dec /\ p.dec \in Nat
    <3>1. x \in Stable => p.price = 1 /\ p.dec = 0
      BY <1>1, PriceOf
    <3>2. x \in Fed \ Stable => /\ p.price = market.feed[x].answer /\ p.price > 0
                                /\ p.dec = FeedDecimals[x] /\ p.price \in Nat
      BY <1>1, PriceOf
    <3>3. CASE x \in Stable
      BY <1>1, <3>1, <3>3 DEF Rate, Scale
    <3>4. CASE x \in Fed \ Stable
      BY <1>1, <3>2, <3>4 DEF Rate, Scale
    <3> QED
      BY <1>1, <3>3, <3>4
  <2>4. q.price = Rate(u) /\ q.price \in Nat \ {0} /\ Scale(u) = Decimals[u] + q.dec /\ q.dec \in Nat
    <3>1. u \in Stable => q.price = 1 /\ q.dec = 0
      BY <1>1, PriceOf
    <3>2. u \in Fed \ Stable => /\ q.price = market.feed[u].answer /\ q.price > 0
                                /\ q.dec = FeedDecimals[u] /\ q.price \in Nat
      BY <1>1, PriceOf
    <3>3. CASE u \in Stable
      BY <1>1, <3>1, <3>3 DEF Rate, Scale
    <3>4. CASE u \in Fed \ Stable
      BY <1>1, <3>2, <3>4 DEF Rate, Scale
    <3> QED
      BY <1>1, <3>3, <3>4
  <2> HIDE DEF x
  <2>5. Decimals[u] + q.dec - Decimals[x] - p.dec = Scale(u) - Scale(t)
        /\ Scale(u) \in Nat /\ Scale(t) \in Nat
    BY <1>1, <2>3, <2>4
  <2>6. ref = Shift(a * Rate(t), Scale(u) - Scale(t)) \div Rate(u)
    BY <2>2, <2>3, <2>4, <2>5
  <2>7. a * Rate(t) \in Nat /\ Rate(u) \in Nat \ {0} /\ Rate(t) \in Nat \ {0}
    BY <2>3, <2>4
  <2>8. (ref * Rate(u)) * Pow10[Scale(t)] <= (a * Rate(t)) * Pow10[Scale(u)]
        /\ (a * Rate(t)) * Pow10[Scale(u)] < ((ref + 1) * Rate(u)) * Pow10[Scale(t)]
    BY <2>5, <2>6, <2>7, ShiftedQuotient
  <2> QED
    BY <2>5, <2>7, <2>8 DEF Worth
<1> QED
  BY <1>2, <1>3

\* The value of n of u is n times that of one.
LEMMA WorthOf ==
    ASSUME NEW t, NEW u, Rate(u) \in Nat \ {0}, Scale(t) \in Nat
    PROVE  \E W \in Nat \ {0} : \A n \in Nat : Worth(u, n, t) = n * W
<1> DEFINE R == Rate(u)
           P == Pow10[Scale(t)]
<1>1. P \in Nat \ {0} /\ R \in Nat \ {0}
  BY Powers
<1> HIDE DEF R, P
<1>2. R * P \in Nat \ {0}
  BY <1>1
<1>3. \A n \in Nat : (n * R) * P = n * (R * P)
  BY <1>1
<1> QED
  BY <1>2, <1>3 DEF Worth, R, P

\* Of two priced tokens no less than 99% of the price is asked for.
LEMMA MinimumIsPriced ==
    ASSUME IsMarket(market), NEW t \in Token, NEW u \in OutputTokens, NEW a \in Nat \ {0},
           Comparable(t, u), NEW least \in MinAmountOut(market, t, a, u)
    PROVE  100 * Worth(u, least + 1, t) >= 99 * Worth(t, a, u)
<1> DEFINE x == AsERC20(t)
<1>1. u \in Token /\ AsERC20(u) = u /\ least \in Nat \ {0}
  <2>1. u \in Token /\ AsERC20(u) = u
    BY TokenFacts, TokenAssumption DEF TokenAssumption
  <2> QED
    BY <2>1, MinimumOf
<1>2. CASE x = u
  <2>1. least = a /\ Rate(u) = Rate(t) /\ Scale(u) = Scale(t)
    BY <1>1, <1>2, MinimumOf DEF Rate, Scale
  <2>2. Rate(u) \in Nat \ {0} /\ Scale(t) \in Nat
    <3>1. Rate(u) > 0 /\ Decimals[u] \in Nat /\ FeedDecimals[u] \in Nat
      BY <1>1, TokenAssumption DEF TokenAssumption, Comparable, Priced
    <3>2. Rate(u) \in Int
      BY <1>1 DEF Rate, IsMarket, Round
    <3> QED
      BY <1>1, <1>2, <3>1, <3>2 DEF Scale
  <2>3. PICK W \in Nat \ {0} : \A n \in Nat : Worth(u, n, t) = n * W
    BY <2>2, WorthOf
  <2>4. Worth(t, a, u) = a * W /\ Worth(u, least + 1, t) = (a + 1) * W
    <3>1. Worth(t, a, u) = Worth(u, a, t)
      BY <2>1 DEF Worth
    <3> QED
      BY <2>1, <2>3, <3>1
  <2>5. a * W < (a + 1) * W /\ a * W \in Nat /\ (a + 1) * W \in Nat
    BY StrictlyMonotone
  <2> QED
    BY <2>4, <2>5
<1>3. CASE x # u
  <2>1. PICK est \in Estimate(market, x, a, u), ref \in Reference(market, x, a, u) :
           /\ est \in Nat /\ ref \in Nat /\ Sane(est, ref)
           /\ least = LeastOutput(x, u, est, ref)
    BY <1>3, MinimumOf
  <2>2. /\ Rate(u) \in Nat \ {0} /\ Scale(t) \in Nat
        /\ Worth(t, a, u) < Worth(u, ref + 1, t)
    BY <2>1, ReferenceIsWorth
  <2>3. PICK W \in Nat \ {0} : \A n \in Nat : Worth(u, n, t) = n * W
    BY <2>2, WorthOf
  <2>4. Worth(t, a, u) \in Nat
    <3>1. Rate(t) \in Nat /\ Scale(u) \in Nat
      BY <2>1, ReferenceIsWorth
    <3> QED
      BY <3>1, Powers DEF Worth
  <2>5. 100 * (least + 1) >= 99 * (ref + 1)
    <3>1. CASE ref = 0
      BY <1>1, <3>1
    <3>2. CASE ref > 0
      BY <1>1, <2>1, <3>2, PartsOf DEF LeastOutput, RefMinimum
    <3> QED
      BY <2>1, <3>1, <3>2
  <2>6. (100 * (least + 1)) * W >= (99 * (ref + 1)) * W
    BY <1>1, <2>1, <2>5, Monotone
  <2>7. (100 * (least + 1)) * W = 100 * Worth(u, least + 1, t)
        /\ (99 * (ref + 1)) * W = 99 * Worth(u, ref + 1, t)
        /\ Worth(u, ref + 1, t) \in Nat /\ Worth(u, least + 1, t) \in Nat
    <3>1. ref + 1 \in Nat /\ least + 1 \in Nat
      BY <1>1, <2>1
    <3>2. Worth(u, ref + 1, t) = (ref + 1) * W /\ Worth(u, least + 1, t) = (least + 1) * W
      BY <2>3, <3>1
    <3>3. (100 * (least + 1)) * W = 100 * ((least + 1) * W)
          /\ (99 * (ref + 1)) * W = 99 * ((ref + 1) * W)
      BY <3>1
    <3>4. (ref + 1) * W \in Nat /\ (least + 1) * W \in Nat
      BY <3>1
    <3> QED
      BY <3>2, <3>3, <3>4
  <2> QED
    BY <2>2, <2>4, <2>6, <2>7
<1> QED
  BY <1>2, <1>3

\* An estimate that is close to the reference is within 4% of the value.
LEMMA EstimateIsClose ==
    ASSUME NEW est \in Nat \ {0}, NEW ref \in Nat, NEW W \in Nat \ {0}, NEW v \in Nat,
           Close(est, ref), ref * W <= v, v < (ref + 1) * W
    PROVE  25 * Abs(est * W - v) <= est * W
<1> DEFINE d == est \div 25
<1>1. d \in Nat /\ 25 * d <= est /\ est - ref < d /\ ref - est < d
  BY PartsOf DEF Close, Abs
<1> HIDE DEF d
<1>2. est * W \in Nat /\ ref * W \in Nat /\ (ref + 1) * W \in Nat /\ d * W \in Nat
  BY <1>1
<1>3. est * W - v <= d * W
  <2>1. est * W <= (ref + d) * W
    BY <1>1, Monotone
  <2>2. (ref + d) * W = ref * W + d * W
    BY <1>1
  <2> QED
    BY <1>2, <2>1, <2>2
<1>4. v - est * W <= d * W
  <2>1. (ref + 1) * W <= (est + d) * W
    BY <1>1, Monotone
  <2>2. (est + d) * W = est * W + d * W
    BY <1>1
  <2> QED
    BY <1>2, <2>1, <2>2
<1>5. (25 * d) * W <= est * W /\ (25 * d) * W = 25 * (d * W)
  BY <1>1, Monotone
<1>6. Abs(est * W - v) \in Nat /\ Abs(est * W - v) <= d * W
  BY <1>2, <1>3, <1>4 DEF Abs
<1> QED
  BY <1>2, <1>5, <1>6

\* The documented minimum, of any market.
LEMMA PricedInState == ASSUME IsMarket(market) PROVE PricedAsDocumented
<1> SUFFICES ASSUME NEW t \in Token, NEW a \in ReceivedAmounts \cup Parts, NEW u \in OutputTokens \ {t},
                    NEW least \in MinAmountOut(market, t, a, u), AsERC20(t) # u
             PROVE  LET x == AsERC20(t)
                        est == Quote(market, x, a, u)
                        gap == Abs(Worth(u, est, t) - Worth(t, a, u))
                        worthAUnit == Worth(t, a, u) >= Worth(u, 1, t)
                    IN  /\ {x, u} \subseteq Stable => least = a
                        /\ Comparable(t, u) => 100 * Worth(u, least + 1, t) >= 99 * Worth(t, a, u)
                        /\ Comparable(t, u) /\ worthAUnit /\ HasUniswap(x, u) =>
                              25 * gap <= Worth(u, est, t)
                        /\ ~(Priced(t) /\ Priced(u)) => HasUniswap(x, u) /\ 50 * least >= 49 * est
                        /\ \A y \in ({x, u} \cap Fed) \ Stable : market.feed[y].age <= MaxAge
  BY DEF PricedAsDocumented
<1> DEFINE x == AsERC20(t)
<1>1. a \in Nat \ {0} /\ x \in Token /\ u \in Token /\ AsERC20(u) = u
  BY TokenFacts, TokenAssumption, AssetsAssumption DEF TokenAssumption, AssetsAssumption
<1>2. PICK est \in Estimate(market, x, a, u), ref \in Reference(market, x, a, u) :
         /\ est \in Nat /\ ref \in Nat /\ Sane(est, ref)
         /\ least = LeastOutput(x, u, est, ref)
  BY <1>1, MinimumOf
<1>3. /\ HasUniswap(x, u) => est = Quote(market, x, a, u) /\ est # 0
      /\ ~HasUniswap(x, u) => est = 0
  BY <1>1, <1>2, EstimateIsQuote DEF Estimate
<1>4. ASSUME ~({x, u} \subseteq Stable)
      PROVE  \E p \in ChainlinkPrice(market, x), q \in ChainlinkPrice(market, u) :
                p.price = 0 \/ q.price = 0 => ref = 0
  <2>1. ref \in ChainlinkQuote(market, x, a, u)
    BY <1>4, <1>2 DEF Reference
  <2> QED
    BY <2>1 DEF ChainlinkQuote
<1>5. {x, u} \subseteq Stable => least = a
  BY <1>1, <1>2 DEF Reference, LeastOutput, RefMinimum
<1>6. Comparable(t, u) => 100 * Worth(u, least + 1, t) >= 99 * Worth(t, a, u)
  BY <1>1, MinimumIsPriced
<1>7. ASSUME Comparable(t, u), Worth(t, a, u) >= Worth(u, 1, t), HasUniswap(x, u)
      PROVE  25 * Abs(Worth(u, est, t) - Worth(t, a, u)) <= Worth(u, est, t)
  <2>1. /\ Rate(t) \in Nat \ {0} /\ Rate(u) \in Nat \ {0} /\ Scale(t) \in Nat /\ Scale(u) \in Nat
        /\ Worth(u, ref, t) <= Worth(t, a, u)
        /\ Worth(t, a, u) < Worth(u, ref + 1, t)
    BY <1>1, <1>2, <1>7, ReferenceIsWorth
  <2>2. PICK W \in Nat \ {0} : \A n \in Nat : Worth(u, n, t) = n * W
    BY <2>1, WorthOf
  <2>3. Worth(t, a, u) \in Nat
    BY <1>1, <2>1, Powers DEF Worth
  <2>4. ref > 0
    <3> SUFFICES ASSUME ref = 0 PROVE FALSE
      BY <1>2
    <3>1. Worth(t, a, u) < Worth(u, 1, t)
      BY <2>1
    <3>2. Worth(u, 1, t) \in Nat
      BY <2>2
    <3> QED
      BY <1>7, <2>3, <3>1, <3>2
  <2>5. Close(est, ref)
    BY <1>2, <1>3, <1>7, <2>4 DEF Sane
  <2>6. ref * W <= Worth(t, a, u) /\ Worth(t, a, u) < (ref + 1) * W /\ Worth(u, est, t) = est * W
    BY <1>2, <2>1, <2>2
  <2> QED
    BY <1>2, <1>3, <1>7, <2>3, <2>5, <2>6, EstimateIsClose
<1>8. ASSUME ~(Priced(t) /\ Priced(u)) PROVE HasUniswap(x, u) /\ 50 * least >= 49 * est
  <2>1. ref = 0
    <3>1. ~({x, u} \subseteq Stable)
      BY <1>1, <1>8 DEF Priced, Rate
    <3>2. PICK p \in ChainlinkPrice(market, x), q \in ChainlinkPrice(market, u) :
             p.price = 0 \/ q.price = 0 => ref = 0
      BY <1>4, <3>1
    <3>3. Priced(t) \/ p.price = 0
      BY <1>1, PriceOf DEF Priced, Rate
    <3>4. Priced(u) \/ q.price = 0
      BY <1>1, PriceOf DEF Priced, Rate
    <3> QED
      BY <1>8, <3>2, <3>3, <3>4
  <2>2. est > 0 /\ least = est - est \div 50
    BY <1>2, <2>1 DEF Sane, LeastOutput
  <2> QED
    BY <1>2, <1>3, <2>2, PartsOf
<1>9. ASSUME NEW y \in ({x, u} \cap Fed) \ Stable PROVE market.feed[y].age <= MaxAge
  <2>1. PICK p \in ChainlinkPrice(market, x), q \in ChainlinkPrice(market, u) : TRUE
    BY <1>4, <1>9
  <2> QED
    BY <1>1, <1>9, PriceOf
<1>10. HasUniswap(x, u) => est = Quote(market, x, a, u)
  BY <1>3
<1>11. ~(Priced(t) /\ Priced(u)) => HasUniswap(x, u) /\ 50 * least >= 49 * Quote(market, x, a, u)
  BY <1>8, <1>10
<1>12. Comparable(t, u) /\ Worth(t, a, u) >= Worth(u, 1, t) /\ HasUniswap(x, u) =>
          25 * Abs(Worth(u, Quote(market, x, a, u), t) - Worth(t, a, u))
             <= Worth(u, Quote(market, x, a, u), t)
  BY <1>7, <1>10
<1> HIDE DEF x
<1> QED
  BY <1>5, <1>6, <1>9, <1>11, <1>12 DEF x

-----------------------------------------------------------------------------
(* AccountAssets: sums of amounts *)

\* What Total counts.
Ones(f) == UNION {{x} \X (1..f[x]) : x \in DOMAIN f}

\* The units of one argument.
LEMMA OnesOfOne ==
    ASSUME NEW x, NEW n \in Nat
    PROVE  IsFiniteSet({x} \X (1..n)) /\ Cardinality({x} \X (1..n)) = n
<1>1. IsFiniteSet(1..n) /\ Cardinality(1..n) = n
  BY FS_Interval
<1>2. IsFiniteSet({x}) /\ Cardinality({x}) = 1
  BY FS_Singleton
<1>3. IsFiniteSet({x} \X (1..n))
      /\ Cardinality({x} \X (1..n)) = Cardinality({x}) * Cardinality(1..n)
  BY <1>1, <1>2, FS_Product, Zenon
<1> QED
  BY <1>1, <1>2, <1>3

\* A finite function has finitely many units, so that its total is a number.
LEMMA TotalType ==
    ASSUME NEW S, IsFiniteSet(S), NEW f \in [S -> Nat]
    PROVE  IsFiniteSet(Ones(f)) /\ Total(f) \in Nat
<1> DEFINE of == [x \in S |-> {x} \X (1..f[x])]
           parts == {{x} \X (1..f[x]) : x \in S}
<1>1. IsFiniteSet(parts)
  <2>1. of \in Surjection(S, parts)
    BY DEF Surjection
  <2> QED
    BY <2>1, FS_Surjection
<1>2. \A p \in parts : IsFiniteSet(p)
  <2>1. \A y \in S : IsFiniteSet({y} \X (1..f[y]))
    BY OnesOfOne
  <2> QED
    BY <2>1
<1>3. Ones(f) = UNION parts
  BY DEF Ones
<1>4. IsFiniteSet(Ones(f))
  BY <1>1, <1>2, <1>3, FS_UNION
<1> QED
  BY <1>4, FS_CardinalityType DEF Total, Ones

\* Changing one value of a function changes its total by the difference.
LEMMA TotalUpdate ==
    ASSUME NEW S, IsFiniteSet(S), NEW f \in [S -> Nat], NEW g \in [S -> Nat], NEW x \in S,
           \A y \in S : y # x => g[y] = f[y]
    PROVE  Total(g) = Total(f) - f[x] + g[x]
<1> DEFINE rest == {u \in Ones(f) : u[1] # x}
<1>1. IsFiniteSet(rest)
  <2>1. rest \in SUBSET Ones(f)
    OBVIOUS
  <2> QED
    BY <2>1, TotalType, FS_Subset
<1>2. ASSUME NEW h \in [S -> Nat], \A y \in S : y # x => h[y] = f[y]
      PROVE  Total(h) = Cardinality(rest) + h[x]
  <2>1. Ones(h) = rest \cup ({x} \X (1..h[x]))
    <3>1. ASSUME NEW u PROVE u \in Ones(h) <=> \E y \in S : u \in {y} \X (1..h[y])
      BY DEF Ones
    <3>2. ASSUME NEW u PROVE u \in Ones(f) <=> \E y \in S : u \in {y} \X (1..f[y])
      BY DEF Ones
    <3>3. ASSUME NEW u PROVE u \in rest <=> \E y \in S : y # x /\ u \in {y} \X (1..h[y])
      BY <1>2, <3>2
    <3> QED
      BY <3>1, <3>3
  <2>2. rest \cap ({x} \X (1..h[x])) = {}
    OBVIOUS
  <2>3. h[x] \in Nat
    OBVIOUS
  <2>4. IsFiniteSet({x} \X (1..h[x])) /\ Cardinality({x} \X (1..h[x])) = h[x]
    BY <2>3, OnesOfOne
  <2>5. Cardinality(rest \cup ({x} \X (1..h[x]))) = Cardinality(rest) + h[x] - 0
    <3>1. Cardinality(rest \cup ({x} \X (1..h[x])))
            = Cardinality(rest) + Cardinality({x} \X (1..h[x]))
                - Cardinality(rest \cap ({x} \X (1..h[x])))
      BY <1>1, <2>4, FS_Union, Zenon
    <3> QED
      BY <2>2, <2>4, <3>1, FS_EmptySet
  <2>6. Cardinality(rest) \in Nat
    BY <1>1, FS_CardinalityType
  <2> QED
    BY <2>1, <2>3, <2>5, <2>6 DEF Total, Ones
<1>3. Total(f) = Cardinality(rest) + f[x] /\ Total(g) = Cardinality(rest) + g[x]
  BY <1>2
<1>4. Cardinality(rest) \in Nat /\ f[x] \in Nat /\ g[x] \in Nat
  BY <1>1, FS_CardinalityType
<1> QED
  BY <1>3, <1>4

\* A function with a less for t and b more for u, and what that does to its total.
Moves(S, f, g, t, a, u, b) ==
    \A y \in S : g[y] = f[y] - (IF y = t THEN a ELSE 0) + (IF y = u THEN b ELSE 0)

LEMMA TotalMoves ==
    ASSUME NEW S, IsFiniteSet(S), NEW f \in [S -> Nat], NEW g \in [S -> Nat],
           NEW t, NEW a \in Nat, NEW u, NEW b \in Nat, Moves(S, f, g, t, a, u, b)
    PROVE  Total(g) = Total(f) - (IF t \in S THEN a ELSE 0) + (IF u \in S THEN b ELSE 0)
<1> DEFINE h == [y \in S |-> f[y] + (IF y = u THEN b ELSE 0)]
<1>1. h \in [S -> Nat] /\ Total(f) \in Nat /\ Total(h) \in Nat /\ Total(g) \in Nat
  <2>1. h \in [S -> Nat]
    OBVIOUS
  <2> QED
    BY <2>1, TotalType
<1>2. \A y \in S : h[y] = f[y] + (IF y = u THEN b ELSE 0)
  OBVIOUS
<1>3. \A y \in S : g[y] = h[y] - (IF y = t THEN a ELSE 0)
  BY DEF Moves
<1>4. h = [y \in S |-> h[y]] /\ f = [y \in S |-> f[y]] /\ g = [y \in S |-> g[y]]
  OBVIOUS
<1> HIDE DEF h
<1>5. Total(h) = Total(f) + (IF u \in S THEN b ELSE 0)
  <2>1. CASE u \in S
    <3>1. Total(h) = Total(f) - f[u] + h[u]
      BY <1>1, <1>2, <2>1, TotalUpdate
    <3> QED
      BY <1>1, <1>2, <2>1, <3>1
  <2>2. CASE u \notin S
    <3>1. h = f
      BY <1>2, <1>4, <2>2
    <3> QED
      BY <1>1, <2>2, <3>1
  <2> QED
    BY <2>1, <2>2
<1>6. Total(g) = Total(h) - (IF t \in S THEN a ELSE 0)
  <2>1. CASE t \in S
    <3>1. Total(g) = Total(h) - h[t] + g[t]
      BY <1>1, <1>3, <2>1, TotalUpdate
    <3>2. g[t] = h[t] - a /\ h[t] \in Nat
      BY <1>1, <1>3, <2>1
    <3> QED
      BY <1>1, <2>1, <3>1, <3>2
  <2>2. CASE t \notin S
    <3>1. g = h
      BY <1>1, <1>3, <1>4, <2>2
    <3> QED
      BY <1>1, <2>2, <3>1
  <2> QED
    BY <2>1, <2>2
<1> QED
  BY <1>1, <1>5, <1>6

-----------------------------------------------------------------------------
(* AccountAssets: types *)

LEMMA MarketInState == AssetsTypeOK => IsMarket(market)
  BY AssetsAssumption DEF AssetsTypeOK, AssetsAssumption

\* What the constants are.
LEMMA Given ==
    /\ HomeChain \in Chain /\ ForeignChain \in Chain /\ HomeChain # ForeignChain
    /\ BridgeCoin \in Token /\ BridgeCoin # Native /\ BridgeCoin \in OutputTokens
    /\ OutputTokens \subseteq Token /\ Native \notin OutputTokens
    /\ HomeCoins \subseteq Token /\ HomeCoins \subseteq OutputTokens \cup {Native}
    /\ Received \subseteq Token /\ Approvable \subseteq Token
    /\ ReceivedAmounts \subseteq Nat \ {0} /\ Parts \subseteq Nat \ {0}
    /\ Native \in Token
  BY TokenAssumption, AssetsAssumption DEF TokenAssumption, AssetsAssumption, Chain

\* A swap yields something, and no less than was asked for.
LEMMA OutputOf ==
    ASSUME AssetsTypeOK, NEW t \in Token, NEW a \in Nat, NEW u, NEW got \in SwapOutputs(t, a, u)
    PROVE  /\ got \in Nat \ {0} /\ u \in OutputTokens /\ u # t /\ a > 0
           /\ \E least \in MinAmountOut(market, t, a, u) : got >= least
<1>1. t # u /\ u \in OutputTokens /\ a # 0
  BY DEF SwapOutputs, Outputs
<1>2. PICK least \in MinAmountOut(market, t, a, u), d \in Offsets :
         got = least + d /\ Accepted(least + d, least)
  BY <1>1 DEF SwapOutputs, Outputs
<1>3. least \in Nat
  BY <1>1, MinimumOf, MarketInState
<1>4. d \in Int
  BY AssetsAssumption DEF AssetsAssumption
<1> QED
  BY <1>1, <1>2, <1>3, <1>4 DEF Accepted

\* Liquidity providers keep amounts.
LEMMA PaymentType ==
    ASSUME AssetsTypeOK, NEW c \in Chain, NEW t, NEW u \in OutputTokens, NEW got, PaidFor(c, t, u, got)
    PROVE  lp' \in [Chain -> [OutputTokens -> Nat]]
<1>1. CASE lp' = lp
  BY <1>1 DEF AssetsTypeOK
<1>2. CASE Tipped(c, t, u, got)
  <2>1. PICK shortfall \in Shortfalls :
           lp[c][u] >= shortfall /\ lp' = [lp EXCEPT ![c][u] = @ - shortfall]
    BY <1>2 DEF Tipped
  <2>2. lp \in [Chain -> [OutputTokens -> Nat]] /\ shortfall \in Int
    BY AssetsAssumption DEF AssetsTypeOK, AssetsAssumption
  <2>3. lp[c][u] \in Nat /\ lp[c][u] - shortfall \in Nat
    BY <2>1, <2>2
  <2> QED
    BY <2>1, <2>2, <2>3
<1> QED
  BY <1>1, <1>2 DEF PaidFor

\* Each state of a batch whose calls succeed has all that the account had, there or spent.
AccountStates ==
    [coins : [Token -> Nat], homeCoin : HomeCoins,
     forwardingAddress : Recipients \cup {NoAddress}, spent : [Token -> Nat],
     allowance : [Token -> Nat]]

SameTotal(s) == \A t \in Token : s.coins[t] + s.spent[t] = bal[HomeChain][t] + spent[t]

\* A call of a batch moves money of the account, and makes or loses none.
LEMMA CallKeeps ==
    ASSUME NEW s \in AccountStates, SameTotal(s), NEW call \in BatchCall, Succeeds(call, s), AssetsTypeOK
    PROVE  After(call, s) \in AccountStates /\ SameTotal(After(call, s))
<1> DEFINE r == After(call, s)
<1>1. CASE call.op = "transfer"
  <2>1. /\ call.token \in Token /\ call.amount \in Nat /\ call.amount <= s.coins[call.token]
    BY <1>1, Given DEF BatchCall, Succeeds
  <2>2. r = [s EXCEPT !.coins[call.token] = @ - call.amount, !.spent[call.token] = @ + call.amount]
    BY <1>1 DEF After
  <2>3. s.coins \in [Token -> Nat] /\ s.spent \in [Token -> Nat]
    BY DEF AccountStates
  <2>4. /\ r.coins = [s.coins EXCEPT ![call.token] = @ - call.amount]
        /\ r.spent = [s.spent EXCEPT ![call.token] = @ + call.amount]
        /\ r.homeCoin = s.homeCoin /\ r.forwardingAddress = s.forwardingAddress
        /\ r.allowance = s.allowance
        /\ r = [coins |-> r.coins, homeCoin |-> r.homeCoin, forwardingAddress |-> r.forwardingAddress,
                spent |-> r.spent, allowance |-> r.allowance]
    BY <2>2 DEF AccountStates
  <2>5. r.coins \in [Token -> Nat] /\ r.spent \in [Token -> Nat]
    BY <2>1, <2>3, <2>4
  <2>6. r \in AccountStates
    BY <2>4, <2>5 DEF AccountStates
  <2>7. SameTotal(r)
    <3> SUFFICES ASSUME NEW t \in Token
                 PROVE  r.coins[t] + r.spent[t] = bal[HomeChain][t] + spent[t]
      BY DEF SameTotal
    <3>1. s.coins[t] + s.spent[t] = bal[HomeChain][t] + spent[t]
      BY DEF SameTotal
    <3>2. s.coins[t] \in Nat /\ s.spent[t] \in Nat
      BY <2>3
    <3> HIDE DEF r
    <3>3. r.coins[t] + r.spent[t] = s.coins[t] + s.spent[t]
      BY <2>1, <2>3, <2>4, <3>2
    <3> QED
      BY <3>1, <3>3
  <2> QED
    BY <2>6, <2>7
<1>2. CASE call.op = "updateHomeCoin"
  <2>1. r = [s EXCEPT !.homeCoin = call.coin] /\ call.coin \in HomeCoins
    BY <1>2 DEF After, BatchCall
  <2> QED
    BY <2>1 DEF AccountStates, SameTotal
<1>3. CASE call.op = "setForwardingAddress"
  <2>1. r = [s EXCEPT !.forwardingAddress = call.to] /\ call.to \in Recipients
    BY <1>3 DEF After, BatchCall
  <2> QED
    BY <2>1 DEF AccountStates, SameTotal
<1>4. CASE call.op = "approve"
  <2>1. /\ r = [s EXCEPT !.allowance = [s.allowance EXCEPT ![call.token] = call.amount]]
        /\ call.token \in Token /\ call.amount \in Nat
    BY <1>4, Given DEF After, BatchCall
  <2>2. [s.allowance EXCEPT ![call.token] = call.amount] \in [Token -> Nat]
    BY <2>1 DEF AccountStates
  <2> QED
    BY <2>1, <2>2 DEF AccountStates, SameTotal
<1> QED
  BY <1>1, <1>2, <1>3, <1>4 DEF BatchCall

\* The states of a batch are what their recursion says.
LEMMA StatesEquation ==
    ASSUME AssetsTypeOK, NEW batch \in Batches
    PROVE  LET n == Len(batch)
               S == States(batch)
           IN  /\ n \in Nat /\ \A k \in 1..n : batch[k] \in BatchCall
               /\ S = [k \in 0..n |-> IF k = 0 THEN OwnState ELSE After(batch[k], S[k - 1])]
<1> DEFINE n == Len(batch)
           X == [coins : [Token -> Int], homeCoin : HomeCoins,
                 forwardingAddress : Recipients \cup {NoAddress}, spent : [Token -> Nat],
                 allowance : [Token -> Nat]]
           E(S) == S = [k \in 0..n |-> IF k = 0 THEN OwnState ELSE After(batch[k], S[k - 1])]
           step == [p \in Nat \X X |-> IF p[1] + 1 \in 1..n THEN After(batch[p[1] + 1], p[2]) ELSE p[2]]
<1>1. n \in Nat /\ \A k \in 1..n : batch[k] \in BatchCall
  BY DEF Batches
<1>2. \A s \in X, call \in BatchCall : After(call, s) \in X
  <2> SUFFICES ASSUME NEW s \in X, NEW call \in BatchCall PROVE After(call, s) \in X
    OBVIOUS
  <2>1. CASE call.op = "transfer"
    <3>1. call.token \in Token /\ call.amount \in Nat
      BY <2>1, Given DEF BatchCall
    <3>2. After(call, s) = [s EXCEPT !.coins[call.token] = @ - call.amount,
                                     !.spent[call.token] = @ + call.amount]
      BY <2>1 DEF After
    <3>3. [s.coins EXCEPT ![call.token] = @ - call.amount] \in [Token -> Int]
          /\ [s.spent EXCEPT ![call.token] = @ + call.amount] \in [Token -> Nat]
      BY <3>1
    <3> QED
      BY <3>1, <3>2, <3>3
  <2>2. CASE call.op = "updateHomeCoin"
    BY <2>2 DEF After, BatchCall
  <2>3. CASE call.op = "setForwardingAddress"
    BY <2>3 DEF After, BatchCall
  <2>4. CASE call.op = "approve"
    <3>1. /\ After(call, s) = [s EXCEPT !.allowance = [s.allowance EXCEPT ![call.token] = call.amount]]
          /\ call.token \in Token /\ call.amount \in Nat
      BY <2>4, Given DEF After, BatchCall
    <3>2. [s.allowance EXCEPT ![call.token] = call.amount] \in [Token -> Nat]
      BY <3>1
    <3> QED
      BY <3>1, <3>2
  <2> QED
    BY <2>1, <2>2, <2>3, <2>4 DEF BatchCall
<1>3. OwnState \in X
  BY Given DEF OwnState, AssetsTypeOK
<1> HIDE DEF X, n
<1>4. IsStep(X, OwnState, step)
  BY <1>1, <1>2, <1>3 DEF IsStep
<1>5. PICK S : IsRunUpto(S, X, OwnState, step, n)
  <2> HIDE DEF step
  <2> QED
    BY <1>1, <1>4, RunUpto
<1>6. E(S)
  <2> SUFFICES ASSUME NEW k \in 0..n
               PROVE  S[k] = IF k = 0 THEN OwnState ELSE After(batch[k], S[k - 1])
    BY <1>5 DEF IsRunUpto
  <2>1. CASE k = 0
    BY <1>1, <1>5, <2>1 DEF IsRunUpto
  <2>2. CASE k # 0
    <3>1. k - 1 \in Nat /\ k - 1 \in 0..n /\ (k - 1) + 1 = k /\ k \in 1..n
      BY <1>1, <2>2
    <3>2. S[k - 1] \in X
      BY <1>5, <3>1 DEF IsRunUpto
    <3>3. S[k] = step[<<k - 1, S[k - 1]>>]
      BY <1>5, <2>2 DEF IsRunUpto
    <3>4. step[<<k - 1, S[k - 1]>>] = After(batch[k], S[k - 1])
      BY <3>1, <3>2
    <3> QED
      BY <2>2, <3>3, <3>4
  <2> QED
    BY <2>1, <2>2
<1>7. States(batch) = CHOOSE f : E(f)
  BY DEF States, n
<1>8. E(States(batch))
  <2> HIDE DEF E
  <2> QED
    BY <1>6, <1>7
<1> QED
  BY <1>1, <1>8 DEF n

LEMMA BatchKeeps ==
    ASSUME AssetsTypeOK, NEW batch \in Batches, ExecuteBatch(batch)
    PROVE  LET last == States(batch)[Len(batch)] IN last \in AccountStates /\ SameTotal(last)
<1> DEFINE n == Len(batch)
           S == States(batch)
           G == {k \in Nat : k <= n => S[k] \in AccountStates /\ SameTotal(S[k])}
<1>1. n \in Nat /\ \A k \in 1..n : batch[k] \in BatchCall
  BY StatesEquation
<1>2. S = [k \in 0..n |-> IF k = 0 THEN OwnState ELSE After(batch[k], S[k - 1])]
  BY StatesEquation
<1>3. \A k \in 1..n : Succeeds(batch[k], S[k - 1])
  BY DEF ExecuteBatch
<1> HIDE DEF n, S
<1>4. 0 \in G
  <2>1. S[0] = OwnState
    BY <1>1, <1>2
  <2>2. OwnState \in AccountStates /\ SameTotal(OwnState)
    BY Given DEF OwnState, AccountStates, SameTotal, AssetsTypeOK
  <2> QED
    BY <2>1, <2>2
<1>5. ASSUME NEW k \in Nat, k \in G PROVE k + 1 \in G
  <2> SUFFICES ASSUME k + 1 <= n PROVE S[k + 1] \in AccountStates /\ SameTotal(S[k + 1])
    OBVIOUS
  <2>1. k + 1 \in 1..n /\ k + 1 \in 0..n /\ (k + 1) - 1 = k /\ k + 1 # 0 /\ k <= n
    BY <1>1
  <2>2. S[k + 1] = After(batch[k + 1], S[k])
    BY <1>2, <2>1
  <2>3. S[k] \in AccountStates /\ SameTotal(S[k])
    BY <1>5, <2>1
  <2>4. Succeeds(batch[k + 1], S[k]) /\ batch[k + 1] \in BatchCall
    BY <1>1, <1>3, <2>1
  <2> QED
    BY <2>2, <2>3, <2>4, CallKeeps
<1>6. n \in G
  <2>1. Nat \subseteq G
    <3> HIDE DEF G
    <3> QED
      BY <1>4, <1>5, Induction
  <2> QED
    BY <1>1, <2>1
<1> QED
  BY <1>1, <1>6 DEF n, S

\* Every step keeps the types.
LEMMA AssetsTypesStep == AssetsTypeOK /\ [AssetsNext]_assetVars => AssetsTypeOK'
<1> SUFFICES ASSUME AssetsTypeOK, [AssetsNext]_assetVars PROVE AssetsTypeOK'
  OBVIOUS
<1>0. /\ market \in Markets /\ bal \in [Chain -> [Token -> Nat]] /\ lp \in [Chain -> [OutputTokens -> Nat]]
      /\ transit \in Nat /\ homeCoin \in HomeCoins /\ forwardingAddress \in Recipients \cup {NoAddress}
      /\ forwarded \in [Token -> Nat] /\ spent \in [Token -> Nat] /\ receipts \in 0..MaxReceipts
      /\ allowance \in [Token -> Nat] /\ owed \in Int
      /\ bal[HomeChain] \in [Token -> Nat] /\ bal[ForeignChain] \in [Token -> Nat]
      /\ \A t \in Token : bal[HomeChain][t] \in Nat /\ bal[ForeignChain][t] \in Nat
  BY Given DEF AssetsTypeOK
<1>1. CASE MarketMoves
  BY <1>1 DEF MarketMoves, AssetsTypeOK, ownerVars
<1>2. CASE BridgeArrives
  <2>1. bal' \in [Chain -> [Token -> Nat]]
    BY <1>0, <1>2, Given DEF BridgeArrives
  <2> QED
    BY <1>2, <2>1 DEF BridgeArrives, AssetsTypeOK, ownerVars
<1>3. ASSUME NEW c \in Chain, NEW t \in Received, NEW a \in ReceivedAmounts, ReceiveOn(c, t, a)
      PROVE  AssetsTypeOK'
  <2>1. t \in Token /\ a \in Nat
    BY Given
  <2>2. bal' \in [Chain -> [Token -> Nat]]
    BY <1>0, <1>3, <2>1 DEF ReceiveOn
  <2>3. receipts' \in 0..MaxReceipts
    BY <1>0, <1>3, AssetsAssumption DEF ReceiveOn, AssetsAssumption
  <2>4. owed' \in Int
    BY <1>0, <1>3, <2>1 DEF ReceiveOn
  <2> QED
    BY <1>3, <2>2, <2>3, <2>4 DEF ReceiveOn, AssetsTypeOK, ownerVars
<1>4. ASSUME NEW t \in Token, NEW a \in Parts \cup {bal[ForeignChain][t]}, Collect(t, a)
      PROVE  AssetsTypeOK'
  <2>1. a \in Nat \ {0} /\ a <= bal[ForeignChain][t]
    BY <1>0, <1>4, Given DEF Collect
  <2>2. PICK got \in ToBridge(t, a) :
           PaidFor(ForeignChain, t, BridgeCoin, got) /\ transit' = transit + got
    BY <1>4 DEF Collect
  <2>3. got \in Nat
    BY <2>1, OutputOf DEF ToBridge
  <2>4. lp' \in [Chain -> [OutputTokens -> Nat]]
    BY <2>2, PaymentType, Given
  <2>5. bal' \in [Chain -> [Token -> Nat]]
    <3>1. bal' = [bal EXCEPT ![ForeignChain][t] = @ - a] /\ bal[ForeignChain][t] - a \in Nat
      BY <1>0, <1>4, <2>1 DEF Collect
    <3> QED
      BY <1>0, <3>1
  <2>6. transit' \in Nat
    BY <1>0, <2>2, <2>3
  <2> QED
    BY <1>0, <1>4, <2>4, <2>5, <2>6 DEF Collect, AssetsTypeOK, ownerVars
<1>5. ASSUME NEW t \in Token, NEW a \in Parts \cup {bal[HomeChain][t]}, SwapToHomeCoin(t, a)
      PROVE  AssetsTypeOK'
  <2>1. a \in Nat \ {0} /\ a <= bal[HomeChain][t] /\ homeCoin # Native /\ homeCoin \in OutputTokens
        /\ homeCoin \in Token
    BY <1>0, <1>5, Given DEF SwapToHomeCoin
  <2>2. PICK got \in SwapOutputs(t, a, homeCoin) :
           /\ PaidFor(HomeChain, t, homeCoin, got)
           /\ bal' = [bal EXCEPT ![HomeChain][t] = @ - a, ![HomeChain][homeCoin] = @ + got]
    BY <1>5 DEF SwapToHomeCoin
  <2>3. got \in Nat /\ homeCoin # t
    BY <2>1, OutputOf
  <2>4. lp' \in [Chain -> [OutputTokens -> Nat]]
    BY <2>1, <2>2, PaymentType, Given
  <2>5. bal' \in [Chain -> [Token -> Nat]]
    <3>1. bal[HomeChain][t] - a \in Nat /\ bal[HomeChain][homeCoin] + got \in Nat
      BY <1>0, <2>1, <2>3
    <3>2. bal' = [bal EXCEPT ![HomeChain] =
                    [bal[HomeChain] EXCEPT ![t] = @ - a, ![homeCoin] = @ + got]]
      BY <1>0, <2>2
    <3>3. [bal[HomeChain] EXCEPT ![t] = @ - a, ![homeCoin] = @ + got] \in [Token -> Nat]
      BY <1>0, <2>3, <3>1
    <3> QED
      BY <1>0, <3>2, <3>3
  <2> QED
    BY <1>0, <1>5, <2>4, <2>5 DEF SwapToHomeCoin, AssetsTypeOK, ownerVars
<1>6. ASSUME NEW t \in Token, Forward(t) PROVE AssetsTypeOK'
  <2>1. forwarded' \in [Token -> Nat] /\ bal' \in [Chain -> [Token -> Nat]]
    <3>1. /\ forwarded' = [forwarded EXCEPT ![t] = @ + bal[HomeChain][t]]
          /\ bal' = [bal EXCEPT ![HomeChain] = [bal[HomeChain] EXCEPT ![t] = 0]]
      BY <1>6 DEF Forward
    <3>2. [bal[HomeChain] EXCEPT ![t] = 0] \in [Token -> Nat] /\ forwarded[t] + bal[HomeChain][t] \in Nat
      BY <1>0
    <3> QED
      BY <1>0, <3>1, <3>2
  <2> QED
    BY <1>6, <2>1 DEF Forward, AssetsTypeOK, ownerVars
<1>7. ASSUME NEW batch \in Batches, ExecuteBatch(batch) PROVE AssetsTypeOK'
  <2> DEFINE last == States(batch)[Len(batch)]
  <2>1. last \in AccountStates
    BY <1>7, BatchKeeps
  <2>2. /\ bal' = [bal EXCEPT ![HomeChain] = last.coins] /\ homeCoin' = last.homeCoin
        /\ forwardingAddress' = last.forwardingAddress
        /\ spent' = last.spent /\ allowance' = last.allowance
        /\ UNCHANGED <<market, transit, forwarded, lp, receipts>>
        /\ owed' = owed \/ owed' = KeptStables' - ApprovedStables'
    BY <1>7 DEF ExecuteBatch
  <2> HIDE DEF last
  <2>3. /\ last.coins \in [Token -> Nat] /\ last.homeCoin \in HomeCoins
        /\ last.forwardingAddress \in Recipients \cup {NoAddress} /\ last.spent \in [Token -> Nat]
        /\ last.allowance \in [Token -> Nat]
    BY <2>1 DEF AccountStates
  <2>4. bal' \in [Chain -> [Token -> Nat]]
    BY <1>0, <2>2, <2>3
  <2>5. KeptStables' \in Nat /\ ApprovedStables' \in Nat
    <3>1. \A t \in Token : bal'[HomeChain][t] \in Nat /\ bal'[ForeignChain][t] \in Nat
      BY <2>4, Given
    <3>2. \A t \in Stable : Kept(t)' \in Nat /\ allowance'[t] \in Nat
      BY <1>0, <2>2, <2>3, <3>1, TokenAssumption DEF Kept, TokenAssumption
    <3>3. /\ [t \in Stable |-> Kept(t)'] \in [Stable -> Nat]
          /\ [t \in Stable |-> allowance'[t]] \in [Stable -> Nat]
      BY <3>2
    <3> QED
      BY <3>3, TotalType, AssetsAssumption DEF KeptStables, ApprovedStables, AssetsAssumption
  <2> QED
    BY <1>0, <2>2, <2>3, <2>4, <2>5 DEF AssetsTypeOK
<1>9. ASSUME NEW t \in Approvable, NEW a \in Parts, Permit(t, a) PROVE AssetsTypeOK'
  <2>1. allowance' \in [Token -> Nat]
    BY <1>0, <1>9, Given DEF Permit
  <2> QED
    BY <1>9, <2>1 DEF Permit, AssetsTypeOK
<1>10. ASSUME NEW t \in Approvable, NEW a \in Parts, TakeApproved(t, a) PROVE AssetsTypeOK'
  <2>1. t \in Token /\ a \in Nat /\ a <= allowance[t] /\ a <= bal[HomeChain][t]
    BY <1>10, Given DEF TakeApproved
  <2>2. allowance[t] - a \in Nat /\ bal[HomeChain][t] - a \in Nat /\ spent[t] + a \in Nat
    BY <1>0, <2>1
  <2>3. /\ allowance' = [allowance EXCEPT ![t] = @ - a] /\ spent' = [spent EXCEPT ![t] = @ + a]
        /\ bal' = [bal EXCEPT ![HomeChain] = [bal[HomeChain] EXCEPT ![t] = @ - a]]
    BY <1>10 DEF TakeApproved
  <2>4. allowance' \in [Token -> Nat] /\ spent' \in [Token -> Nat]
    BY <1>0, <2>2, <2>3
  <2>5. [bal[HomeChain] EXCEPT ![t] = @ - a] \in [Token -> Nat]
    BY <1>0, <2>2
  <2>6. bal' \in [Chain -> [Token -> Nat]]
    BY <1>0, <2>3, <2>5
  <2> QED
    BY <1>10, <2>4, <2>6 DEF TakeApproved, AssetsTypeOK
<1>8. CASE UNCHANGED assetVars
  BY <1>8 DEF assetVars, ownerVars, AssetsTypeOK
<1> QED
  BY <1>1, <1>2, <1>3, <1>4, <1>5, <1>6, <1>7, <1>8, <1>9, <1>10 DEF AssetsNext

\* Every account keeps amounts of tokens, one home coin and one forwarding address, on two chains.
THEOREM AssetsTypes == AssetsSpec => []AssetsTypeOK
<1>1. AssetsInit => AssetsTypeOK
  BY AssetsAssumption, Given DEF AssetsInit, AssetsTypeOK, NoTokens, AssetsAssumption
<1> QED
  BY <1>1, AssetsTypesStep, PTL DEF AssetsSpec

\* The swapper asks for the minimum its documentation states, for any pools, feeds, decimals and amounts: one for one
\* between stablecoins, 99% of a price that the pools are within 4% of, or 98% of what the pools give.
THEOREM MinimumIsDocumented == AssetsSpec => []PricedAsDocumented
<1>1. AssetsTypeOK => PricedAsDocumented
  BY MarketInState, PricedInState
<1> QED
  BY <1>1, AssetsTypes, PTL

-----------------------------------------------------------------------------
(* AccountAssets: what the steps move *)

\* The amounts of a token are numbers.
LEMMA AmountTypes ==
    ASSUME AssetsTypeOK
    PROVE  /\ bal \in [Chain -> [Token -> Nat]] /\ transit \in Nat /\ homeCoin \in HomeCoins
           /\ forwarded \in [Token -> Nat] /\ spent \in [Token -> Nat] /\ allowance \in [Token -> Nat]
           /\ bal[HomeChain] \in [Token -> Nat] /\ bal[ForeignChain] \in [Token -> Nat]
           /\ \A x \in Token : /\ bal[HomeChain][x] \in Nat /\ bal[ForeignChain][x] \in Nat
                               /\ forwarded[x] \in Nat /\ spent[x] \in Nat /\ Kept(x) \in Nat
  BY Given DEF AssetsTypeOK, Kept

\* A step moves a of t away, and b of u in.
Changed(t, a, u, b) ==
    \A x \in Token : Kept(x)' = Kept(x) - (IF x = t THEN a ELSE 0) + (IF x = u THEN b ELSE 0)

\* What the market does, what arrives from the bridge and what is forwarded changes no amount.
LEMMA NothingMoves ==
    ASSUME AssetsTypeOK,
           MarketMoves \/ BridgeArrives \/ (\E t \in Token : Forward(t)) \/ UNCHANGED assetVars
    PROVE  UNCHANGED <<ownerVars, owed>> /\ \A x \in Token : Kept(x)' = Kept(x)
<1>1. CASE MarketMoves
  BY <1>1 DEF MarketMoves, Kept
<1>2. CASE BridgeArrives
  <2>1. /\ bal' = [bal EXCEPT ![HomeChain] = [bal[HomeChain] EXCEPT ![BridgeCoin] = @ + transit]]
        /\ transit' = 0 /\ forwarded' = forwarded
    BY <1>2 DEF BridgeArrives
  <2>2. /\ bal'[HomeChain] = [bal[HomeChain] EXCEPT ![BridgeCoin] = @ + transit]
        /\ bal'[ForeignChain] = bal[ForeignChain]
    BY AmountTypes, <2>1, Given
  <2>3. \A x \in Token : Kept(x)' = Kept(x)
    BY AmountTypes, <2>1, <2>2, Given DEF Kept
  <2> QED
    BY <1>2, <2>3 DEF BridgeArrives
<1>3. ASSUME NEW t \in Token, Forward(t)
      PROVE  UNCHANGED <<ownerVars, owed>> /\ \A x \in Token : Kept(x)' = Kept(x)
  <2>1. /\ forwarded' = [forwarded EXCEPT ![t] = @ + bal[HomeChain][t]]
        /\ bal' = [bal EXCEPT ![HomeChain] = [bal[HomeChain] EXCEPT ![t] = 0]]
        /\ transit' = transit
    BY <1>3 DEF Forward
  <2>2. /\ bal'[HomeChain] = [bal[HomeChain] EXCEPT ![t] = 0]
        /\ bal'[ForeignChain] = bal[ForeignChain]
    BY AmountTypes, <2>1, Given
  <2>3. \A x \in Token : Kept(x)' = Kept(x)
    BY AmountTypes, <2>1, <2>2 DEF Kept
  <2> QED
    BY <1>3, <2>3 DEF Forward
<1>4. CASE UNCHANGED assetVars
  BY <1>4 DEF assetVars, Kept
<1> QED
  BY <1>1, <1>2, <1>3, <1>4

LEMMA ReceivingMoves ==
    ASSUME AssetsTypeOK, NEW c \in Chain, NEW t \in Received, NEW a \in ReceivedAmounts, ReceiveOn(c, t, a)
    PROVE  Changed(t, 0, t, a)
<1>1. /\ bal' = [bal EXCEPT ![c] = [bal[c] EXCEPT ![t] = @ + a]]
      /\ transit' = transit /\ forwarded' = forwarded
  BY DEF ReceiveOn
<1>2. t \in Token /\ a \in Nat /\ c \in {HomeChain, ForeignChain}
  BY Given DEF Chain
<1>3. /\ bal'[HomeChain] = IF c = HomeChain THEN [bal[HomeChain] EXCEPT ![t] = @ + a] ELSE bal[HomeChain]
      /\ bal'[ForeignChain] = IF c = ForeignChain THEN [bal[ForeignChain] EXCEPT ![t] = @ + a] ELSE bal[ForeignChain]
  BY AmountTypes, <1>1, <1>2, Given
<1>4. ASSUME NEW x \in Token PROVE Kept(x)' = Kept(x) + (IF x = t THEN a ELSE 0)
  <2>1. bal[HomeChain][x] \in Nat /\ bal[ForeignChain][x] \in Nat /\ forwarded[x] \in Nat /\ transit \in Nat
    BY AmountTypes
  <2>2. CASE c = HomeChain
    <3>1. bal'[HomeChain][x] = bal[HomeChain][x] + (IF x = t THEN a ELSE 0)
          /\ bal'[ForeignChain][x] = bal[ForeignChain][x]
      BY AmountTypes, <1>2, <1>3, <2>2, Given
    <3> QED
      BY <1>1, <1>2, <2>1, <3>1 DEF Kept
  <2>3. CASE c = ForeignChain
    <3>1. bal'[ForeignChain][x] = bal[ForeignChain][x] + (IF x = t THEN a ELSE 0)
          /\ bal'[HomeChain][x] = bal[HomeChain][x]
      BY AmountTypes, <1>2, <1>3, <2>3, Given
    <3> QED
      BY <1>1, <1>2, <2>1, <3>1 DEF Kept
  <2> QED
    BY <1>2, <2>2, <2>3
<1>5. \A x \in Token : Kept(x) \in Nat
  BY AmountTypes
<1> QED
  BY <1>2, <1>4, <1>5 DEF Changed

LEMMA CollectMoves ==
    ASSUME AssetsTypeOK, NEW t \in Token, NEW a \in Parts \cup {bal[ForeignChain][t]}, Collect(t, a)
    PROVE  /\ a \in Nat \ {0}
           /\ \E got \in ToBridge(t, a) : got \in Nat /\ Changed(t, a, BridgeCoin, got)
<1>1. a \in Nat \ {0} /\ a <= bal[ForeignChain][t]
  BY AmountTypes, Given DEF Collect
<1>2. PICK got \in ToBridge(t, a) : transit' = transit + got
  BY DEF Collect
<1>3. got \in Nat
  BY <1>1, OutputOf DEF ToBridge
<1>4. bal' = [bal EXCEPT ![ForeignChain] = [bal[ForeignChain] EXCEPT ![t] = @ - a]] /\ forwarded' = forwarded
  BY DEF Collect
<1>5. /\ bal'[HomeChain] = bal[HomeChain]
      /\ bal'[ForeignChain] = [bal[ForeignChain] EXCEPT ![t] = @ - a]
  BY AmountTypes, <1>4, Given
<1>6. Changed(t, a, BridgeCoin, got)
  <2> SUFFICES ASSUME NEW x \in Token
               PROVE  Kept(x)' = Kept(x) - (IF x = t THEN a ELSE 0) + (IF x = BridgeCoin THEN got ELSE 0)
    BY DEF Changed
  <2>1. bal'[ForeignChain][x] = bal[ForeignChain][x] - (IF x = t THEN a ELSE 0)
    BY AmountTypes, <1>1, <1>5
  <2>2. bal'[HomeChain][x] = bal[HomeChain][x] /\ forwarded'[x] = forwarded[x]
    BY <1>4, <1>5
  <2>3. bal[HomeChain][x] \in Nat /\ bal[ForeignChain][x] \in Nat /\ forwarded[x] \in Nat /\ transit \in Nat
    BY AmountTypes
  <2> QED
    BY <1>1, <1>2, <1>3, <2>1, <2>2, <2>3 DEF Kept
<1> QED
  BY <1>1, <1>3, <1>6

LEMMA HomeSwapMoves ==
    ASSUME AssetsTypeOK, NEW t \in Token, NEW a \in Parts \cup {bal[HomeChain][t]}, SwapToHomeCoin(t, a)
    PROVE  /\ a \in Nat \ {0}
           /\ \E h \in Token : \E got \in SwapOutputs(t, a, h) :
                 h = homeCoin /\ h # t /\ got \in Nat /\ Changed(t, a, h, got)
<1>1. a \in Nat \ {0} /\ a <= bal[HomeChain][t] /\ homeCoin \in Token
  BY AmountTypes, Given DEF SwapToHomeCoin
<1>h. PICK h \in Token : h = homeCoin
  BY <1>1
<1>2. PICK got \in SwapOutputs(t, a, h) :
         bal' = [bal EXCEPT ![HomeChain][t] = @ - a, ![HomeChain][h] = @ + got]
  BY <1>h DEF SwapToHomeCoin
<1>3. got \in Nat /\ h # t
  BY <1>1, OutputOf
<1>4. /\ bal'[HomeChain] = [bal[HomeChain] EXCEPT ![t] = @ - a, ![h] = @ + got]
      /\ bal'[ForeignChain] = bal[ForeignChain]
      /\ transit' = transit /\ forwarded' = forwarded
  BY AmountTypes, <1>2, Given DEF SwapToHomeCoin
<1> DEFINE D(x) == IF x = t THEN -a ELSE IF x = h THEN got ELSE 0
<1>5. ASSUME NEW x \in Token PROVE Kept(x)' = Kept(x) + D(x)
  <2>1. bal'[HomeChain][x] = bal[HomeChain][x] + D(x)
    BY AmountTypes, <1>1, <1>3, <1>4
  <2>2. bal'[ForeignChain][x] = bal[ForeignChain][x] /\ forwarded'[x] = forwarded[x]
    BY <1>4
  <2>3. /\ bal[HomeChain][x] \in Nat /\ bal[ForeignChain][x] \in Nat /\ forwarded[x] \in Nat
        /\ transit \in Nat /\ D(x) \in Int
    BY AmountTypes, <1>1, <1>3
  <2> HIDE DEF D
  <2> QED
    BY <1>4, <2>1, <2>2, <2>3 DEF Kept
<1>6. Changed(t, a, h, got)
  <2>1. \A x \in Token : Kept(x) \in Nat
    BY AmountTypes
  <2> QED
    BY <1>1, <1>3, <1>5, <2>1 DEF Changed
<1> QED
  BY <1>1, <1>h, <1>3, <1>6

LEMMA TakingMoves ==
    ASSUME AssetsTypeOK, NEW t \in Approvable, NEW a \in Parts, TakeApproved(t, a)
    PROVE  a \in Nat /\ Changed(t, a, t, 0)
<1>1. t \in Token /\ a \in Nat
  BY Given
<1>2. /\ bal' = [bal EXCEPT ![HomeChain] = [bal[HomeChain] EXCEPT ![t] = @ - a]]
      /\ transit' = transit /\ forwarded' = forwarded
  BY DEF TakeApproved
<1>3. bal'[HomeChain] = [bal[HomeChain] EXCEPT ![t] = @ - a] /\ bal'[ForeignChain] = bal[ForeignChain]
  BY AmountTypes, <1>2, Given
<1> QED
  BY AmountTypes, <1>1, <1>2, <1>3 DEF Kept, Changed

-----------------------------------------------------------------------------
(* AccountAssets: what came to the account *)

\* A swap brings what was asked for.
LEMMA SwapIsFair ==
    ASSUME AssetsTypeOK, NEW t \in Token, NEW a \in Nat, NEW u, NEW got \in SwapOutputs(t, a, u)
    PROVE  /\ {t, u} \subseteq Stable => got >= a
           /\ Comparable(t, u) => 100 * Worth(u, got + 1, t) >= 99 * Worth(t, a, u)
<1>1. got \in Nat \ {0} /\ u \in OutputTokens \ {t} /\ a \in Nat \ {0}
  BY OutputOf
<1>2. PICK least \in MinAmountOut(market, t, a, u) : got >= least
  BY OutputOf
<1>3. IsMarket(market)
  BY MarketInState
<1>4. least \in Nat \ {0}
  BY <1>1, <1>3, MinimumOf
<1>5. ASSUME {t, u} \subseteq Stable PROVE least = a
  <2>1. AsERC20(t) = t /\ AsERC20(t) # u
    BY <1>1, <1>5, TokenFacts
  <2>2. PICK est \in Estimate(market, t, a, u), ref \in Reference(market, t, a, u) :
           least = LeastOutput(t, u, est, ref)
    BY <1>1, <1>3, <2>1, MinimumOf
  <2> QED
    BY <1>1, <1>5, <2>2 DEF Reference, LeastOutput, RefMinimum
<1>6. ASSUME Comparable(t, u) PROVE 100 * Worth(u, got + 1, t) >= 99 * Worth(t, a, u)
  <2>1. 100 * Worth(u, least + 1, t) >= 99 * Worth(t, a, u)
    BY <1>1, <1>3, <1>6, MinimumIsPriced
  <2>2. Rate(t) \in Nat \ {0} /\ Rate(u) \in Nat \ {0} /\ Scale(t) \in Nat /\ Scale(u) \in Nat
    <3>1. /\ AsERC20(t) \in Token /\ AsERC20(u) \in Token /\ u \in Token
          /\ \A x \in Token : Decimals[x] \in Nat /\ FeedDecimals[x] \in Nat
      BY <1>1, TokenFacts, Given, TokenAssumption DEF TokenAssumption
    <3>2. \A x \in Token : market.feed[x].answer \in Int
      BY <1>3 DEF IsMarket, Round
    <3>3. Rate(t) \in Int /\ Rate(u) \in Int /\ Scale(t) \in Nat /\ Scale(u) \in Nat
      BY <3>1, <3>2 DEF Rate, Scale
    <3> QED
      BY <1>6, <3>3 DEF Comparable, Priced
  <2>3. PICK W \in Nat \ {0} : \A n \in Nat : Worth(u, n, t) = n * W
    BY <2>2, WorthOf
  <2>4. PICK V \in Nat \ {0} : \A n \in Nat : Worth(t, n, u) = n * V
    BY <2>2, WorthOf
  <2>5. least + 1 \in Nat /\ got + 1 \in Nat /\ least + 1 <= got + 1
    BY <1>1, <1>2, <1>4
  <2>6. (least + 1) * W <= (got + 1) * W /\ (least + 1) * W \in Nat /\ (got + 1) * W \in Nat /\ a * V \in Nat
    BY <1>1, <2>5, Monotone
  <2>7. Worth(u, least + 1, t) = (least + 1) * W /\ Worth(u, got + 1, t) = (got + 1) * W
        /\ Worth(t, a, u) = a * V
    BY <1>1, <2>3, <2>4, <2>5
  <2> QED
    BY <2>1, <2>6, <2>7
<1> QED
  BY <1>1, <1>2, <1>4, <1>5, <1>6

\* What ValueKept says of a step and a token.
KeptOf(t) ==
    Owned(t)' < Owned(t) =>
        \E u \in Token \ {t} :
           LET in == Owned(t) - Owned(t)'
               out == Owned(u)' - Owned(u)
           IN  /\ out > 0
               /\ {t, u} \subseteq Stable => out >= in
               /\ Comparable(t, u) => 100 * Worth(u, out + 1, t) >= 99 * Worth(t, in, u)

\* The same of what came to the account.
OwnedChanged(t, a, u, b) ==
    \A x \in Token : Owned(x)' = Owned(x) - (IF x = t THEN a ELSE 0) + (IF x = u THEN b ELSE 0)

LEMMA ChangedIsOwned ==
    ASSUME AssetsTypeOK, NEW t, NEW a \in Nat, NEW u, NEW b \in Nat, Changed(t, a, u, b), spent' = spent
    PROVE  OwnedChanged(t, a, u, b)
<1>1. \A x \in Token : Kept(x) \in Nat /\ spent[x] \in Nat
  BY AmountTypes
<1> QED
  BY <1>1 DEF Changed, Owned, OwnedChanged

\* A step that swaps one token for another keeps what ValueKept says.
LEMMA SwapKeeps ==
    ASSUME AssetsTypeOK, NEW t \in Token, NEW a \in Nat, NEW u \in Token,
           NEW got \in SwapOutputs(t, a, u),
           Owned(t) \in Nat, Owned(u) \in Nat,
           Owned(t)' = Owned(t) - a, Owned(u)' = Owned(u) + got,
           \A x \in Token \ {t, u} : Owned(x)' = Owned(x) /\ Owned(x) \in Nat
    PROVE  \A x \in Token : KeptOf(x)
<1>1. got \in Nat \ {0} /\ u # t
  BY OutputOf
<1>2. SUFFICES KeptOf(t)
  BY <1>1 DEF KeptOf
<1>3. Owned(t) - Owned(t)' = a /\ Owned(u)' - Owned(u) = got
  BY <1>1
<1> QED
  BY <1>1, <1>3, SwapIsFair DEF KeptOf

\* So does every step.
LEMMA StepKeeps == AssetsTypeOK /\ [AssetsNext]_assetVars => \A x \in Token : KeptOf(x)
<1> SUFFICES ASSUME AssetsTypeOK, [AssetsNext]_assetVars PROVE \A x \in Token : KeptOf(x)
  OBVIOUS
<1>0. \A x \in Token : Kept(x) \in Nat /\ spent[x] \in Nat /\ Owned(x) = Kept(x) + spent[x]
  BY AmountTypes DEF Owned
<1>a. ASSUME \A x \in Token : Owned(x)' \in Int /\ Owned(x)' >= Owned(x) PROVE \A x \in Token : KeptOf(x)
  BY <1>a, <1>0 DEF KeptOf
<1>1. ASSUME MarketMoves \/ BridgeArrives \/ (\E t \in Token : Forward(t)) \/ UNCHANGED assetVars
      PROVE  \A x \in Token : KeptOf(x)
  <2>1. \A x \in Token : Kept(x)' = Kept(x) /\ spent' = spent
    BY <1>1, NothingMoves DEF ownerVars
  <2>2. \A x \in Token : Owned(x)' = Owned(x)
    BY <2>1 DEF Owned
  <2> QED
    BY <1>a, <1>0, <2>2
<1>2. ASSUME NEW c \in Chain, NEW t \in Received, NEW a \in ReceivedAmounts, ReceiveOn(c, t, a)
      PROVE  \A x \in Token : KeptOf(x)
  <2>1. Changed(t, 0, t, a) /\ spent' = spent /\ a \in Nat /\ 0 \in Nat
    BY <1>2, ReceivingMoves, Given DEF ReceiveOn, ownerVars
  <2>2. OwnedChanged(t, 0, t, a)
    BY <2>1, ChangedIsOwned
  <2>3. \A x \in Token : Owned(x)' = Owned(x) + (IF x = t THEN a ELSE 0)
    BY <1>0, <2>1, <2>2 DEF OwnedChanged
  <2> QED
    BY <1>a, <1>0, <2>1, <2>3
<1>3. ASSUME NEW t \in Token, NEW a \in Parts \cup {bal[ForeignChain][t]}, Collect(t, a)
      PROVE  \A x \in Token : KeptOf(x)
  <2>1. PICK got \in ToBridge(t, a) : got \in Nat /\ Changed(t, a, BridgeCoin, got)
    BY <1>3, CollectMoves
  <2>2. spent' = spent /\ a \in Nat
    BY <1>3, CollectMoves DEF Collect, ownerVars
  <2>m. OwnedChanged(t, a, BridgeCoin, got)
    BY <2>1, <2>2, ChangedIsOwned
  <2>3. \A x \in Token : Owned(x)' = Owned(x) - (IF x = t THEN a ELSE 0) + (IF x = BridgeCoin THEN got ELSE 0)
    BY <2>m DEF OwnedChanged
  <2>4. CASE t = BridgeCoin
    <3>1. got = a
      BY <2>1, <2>4 DEF ToBridge
    <3>2. \A x \in Token : Owned(x)' = Owned(x)
      BY <1>0, <2>2, <2>3, <2>4, <3>1
    <3> QED
      BY <1>a, <1>0, <3>2
  <2>5. CASE t # BridgeCoin
    <3>1. got \in SwapOutputs(t, a, BridgeCoin)
      BY <2>1, <2>5 DEF ToBridge
    <3>2. /\ Owned(t)' = Owned(t) - a /\ Owned(BridgeCoin)' = Owned(BridgeCoin) + got
          /\ \A x \in Token \ {t, BridgeCoin} : Owned(x)' = Owned(x) /\ Owned(x) \in Nat
          /\ Owned(t) \in Nat /\ Owned(BridgeCoin) \in Nat
      BY <1>0, <2>1, <2>2, <2>3, <2>5, Given
    <3> QED
      BY <2>2, <3>1, <3>2, SwapKeeps, Given
  <2> QED
    BY <2>4, <2>5
<1>4. ASSUME NEW t \in Token, NEW a \in Parts \cup {bal[HomeChain][t]}, SwapToHomeCoin(t, a)
      PROVE  \A x \in Token : KeptOf(x)
  <2>h. PICK h \in Token : h = homeCoin /\ h # t
                           /\ \E got \in SwapOutputs(t, a, h) : got \in Nat /\ Changed(t, a, h, got)
    BY <1>4, HomeSwapMoves
  <2>1. PICK got \in SwapOutputs(t, a, h) : got \in Nat /\ Changed(t, a, h, got)
    BY <2>h
  <2>2. spent' = spent /\ a \in Nat
    BY <1>4, HomeSwapMoves DEF SwapToHomeCoin, ownerVars
  <2>3. OwnedChanged(t, a, h, got)
    BY <2>1, <2>2, ChangedIsOwned
  <2>o. \A x \in Token : Owned(x) \in Nat
    BY <1>0
  <2>4. /\ Owned(t)' = Owned(t) - a /\ Owned(h)' = Owned(h) + got
        /\ \A x \in Token \ {t, h} : Owned(x)' = Owned(x) /\ Owned(x) \in Nat
        /\ Owned(t) \in Nat /\ Owned(h) \in Nat
    BY <2>h, <2>1, <2>2, <2>3, <2>o DEF OwnedChanged
  <2> QED
    BY <2>h, <2>1, <2>2, <2>4, SwapKeeps
<1>5. ASSUME NEW batch \in Batches, ExecuteBatch(batch) PROVE \A x \in Token : KeptOf(x)
  <2> DEFINE last == States(batch)[Len(batch)]
  <2>1. last \in AccountStates /\ SameTotal(last)
    BY <1>5, BatchKeeps
  <2>2. /\ bal' = [bal EXCEPT ![HomeChain] = last.coins] /\ spent' = last.spent
        /\ transit' = transit /\ forwarded' = forwarded
    BY <1>5 DEF ExecuteBatch
  <2> HIDE DEF last
  <2>3. last.coins \in [Token -> Nat] /\ last.spent \in [Token -> Nat]
    BY <2>1 DEF AccountStates
  <2>4. bal'[HomeChain] = last.coins /\ bal'[ForeignChain] = bal[ForeignChain]
    BY AmountTypes, <2>2, Given
  <2>5. ASSUME NEW x \in Token PROVE Owned(x)' = Owned(x)
    <3>1. /\ bal'[HomeChain][x] + spent'[x] = bal[HomeChain][x] + spent[x]
          /\ bal'[HomeChain][x] \in Nat /\ spent'[x] \in Nat
      BY <2>1, <2>2, <2>3, <2>4 DEF SameTotal
    <3>2. bal'[ForeignChain][x] = bal[ForeignChain][x] /\ forwarded'[x] = forwarded[x] /\ transit' = transit
      BY <2>2, <2>4
    <3>3. bal[HomeChain][x] \in Nat /\ bal[ForeignChain][x] \in Nat /\ forwarded[x] \in Nat
          /\ spent[x] \in Nat /\ transit \in Nat
      BY AmountTypes
    <3> QED
      BY <3>1, <3>2, <3>3 DEF Owned, Kept
  <2> QED
    BY <1>a, <1>0, <2>5
<1>6. ASSUME NEW t \in Approvable, NEW a \in Parts, Permit(t, a) PROVE \A x \in Token : KeptOf(x)
  <2>1. \A x \in Token : Owned(x)' = Owned(x)
    BY <1>6 DEF Permit, Owned, Kept
  <2> QED
    BY <1>a, <1>0, <2>1
<1>7. ASSUME NEW t \in Approvable, NEW a \in Parts, TakeApproved(t, a) PROVE \A x \in Token : KeptOf(x)
  <2>1. Changed(t, a, t, 0) /\ a \in Nat /\ spent' = [spent EXCEPT ![t] = @ + a]
    BY <1>7, TakingMoves DEF TakeApproved
  <2>2. spent \in [Token -> Nat]
    BY AmountTypes
  <2>3. \A x \in Token : /\ Kept(x)' = Kept(x) - (IF x = t THEN a ELSE 0)
                         /\ spent'[x] = spent[x] + (IF x = t THEN a ELSE 0)
    BY <1>0, <2>1, <2>2 DEF Changed
  <2>4. \A x \in Token : Owned(x)' = Owned(x)
    BY <1>0, <2>1, <2>3 DEF Owned
  <2> QED
    BY <1>a, <1>0, <2>4
<1> QED
  BY <1>1, <1>2, <1>3, <1>4, <1>5, <1>6, <1>7 DEF AssetsNext

\* Whoever calls collect, swapToHomeCoin and forward, in whatever parts and order and with whatever market maker, what
\* came to the account is there, on its way, spent by its owner or sent to the address he chose, or was exchanged at
\* the documented price.
THEOREM NothingIsLost == AssetsSpec => ValueKept
<1>1. AssetsTypeOK /\ [AssetsNext]_assetVars =>
        [\A t \in Token : Owned(t)' < Owned(t) =>
          \E u \in Token \ {t} :
             LET in == Owned(t) - Owned(t)'
                 out == Owned(u)' - Owned(u)
             IN  /\ out > 0
                 /\ {t, u} \subseteq Stable => out >= in
                 /\ Comparable(t, u) =>
                        100 * Worth(u, out + 1, t) >= 99 * Worth(t, in, u)]_assetVars
  BY StepKeeps DEF KeptOf
<1> QED
  BY <1>1, AssetsTypes, PTL DEF AssetsSpec, ValueKept

-----------------------------------------------------------------------------
(* AccountAssets: what an account that forwards owes *)

\* Of what is owed as much is there, besides all that was approved.
OffboardedInv ==
    forwardingAddress # NoAddress /\ BridgeCoin \in Stable /\ homeCoin \in Stable \cup {Native}
        => KeptStables - ApprovedStables >= owed

LEMMA KeptType == AssetsTypeOK => \A x \in Token : Kept(x) \in Nat
  BY AmountTypes

LEMMA KeptTypeNext == AssetsTypeOK' => (\A x \in Token : Kept(x) \in Nat)'
  BY KeptType, PTL

LEMMA StablesType == AssetsTypeOK => KeptStables \in Nat /\ ApprovedStables \in Nat
<1> SUFFICES ASSUME AssetsTypeOK PROVE KeptStables \in Nat /\ ApprovedStables \in Nat
  OBVIOUS
<1>1. /\ [t \in Stable |-> Kept(t)] \in [Stable -> Nat]
      /\ [t \in Stable |-> allowance[t]] \in [Stable -> Nat]
  BY AmountTypes, TokenAssumption DEF TokenAssumption
<1> QED
  BY <1>1, TotalType, AssetsAssumption DEF KeptStables, ApprovedStables, AssetsAssumption

LEMMA StablesTypeNext == AssetsTypeOK' => (KeptStables \in Nat /\ ApprovedStables \in Nat)'
  BY StablesType, PTL

\* A step that moves tokens moves as many stablecoins as there are among them.
LEMMA StablesMove ==
    ASSUME AssetsTypeOK, AssetsTypeOK', NEW t, NEW a \in Nat, NEW u, NEW b \in Nat, Changed(t, a, u, b)
    PROVE  KeptStables' = KeptStables - (IF t \in Stable THEN a ELSE 0) + (IF u \in Stable THEN b ELSE 0)
<1> DEFINE f == [x \in Stable |-> Kept(x)]
           g == [x \in Stable |-> Kept(x)']
<1>1. Stable \subseteq Token /\ IsFiniteSet(Stable)
  BY TokenAssumption, AssetsAssumption DEF TokenAssumption, AssetsAssumption
<1>2. \A x \in Token : Kept(x) \in Nat
  BY AmountTypes
<1>3. \A x \in Token : Kept(x)' \in Nat
  BY KeptTypeNext
<1>4. f \in [Stable -> Nat] /\ g \in [Stable -> Nat]
  BY <1>1, <1>2, <1>3
<1>5. Moves(Stable, f, g, t, a, u, b)
  BY <1>1 DEF Changed, Moves
<1>6. KeptStables = Total(f) /\ KeptStables' = Total(g)
  BY DEF KeptStables
<1> HIDE DEF f, g
<1> QED
  BY <1>1, <1>4, <1>5, <1>6, TotalMoves

\* While an account forwards, others may move its money, and nobody approves anything.
LEMMA OffboardedStep ==
    AssetsTypeOK /\ AssetsTypeOK' /\ OffboardedInv /\ [AssetsNext]_assetVars => OffboardedInv'
<1> SUFFICES ASSUME AssetsTypeOK, AssetsTypeOK', OffboardedInv, [AssetsNext]_assetVars,
                    forwardingAddress' # NoAddress, BridgeCoin \in Stable, homeCoin' \in Stable \cup {Native}
             PROVE  KeptStables' - ApprovedStables' >= owed'
  BY DEF OffboardedInv
<1>0. /\ KeptStables \in Nat /\ ApprovedStables \in Nat /\ owed \in Int
      /\ KeptStables' \in Nat /\ ApprovedStables' \in Nat /\ owed' \in Int
  BY StablesType, StablesTypeNext DEF AssetsTypeOK
<1>1. ASSUME NEW batch \in Batches, ExecuteBatch(batch) PROVE KeptStables' - ApprovedStables' >= owed'
  <2> DEFINE last == States(batch)[Len(batch)]
  <2>1. ~Active(last)
    BY <1>1 DEF ExecuteBatch, Active
  <2>2. owed' = KeptStables' - ApprovedStables'
    BY <1>1, <2>1 DEF ExecuteBatch
  <2>3. \A k, p \in Nat : k - p >= k - p
    OBVIOUS
  <2>4. KeptStables' - ApprovedStables' >= KeptStables' - ApprovedStables'
    BY <1>0, <2>3
  <2> QED
    BY <2>2, <2>4, Zenon
<1>2. ASSUME UNCHANGED <<homeCoin, forwardingAddress>>
      PROVE  forwardingAddress # NoAddress /\ KeptStables - ApprovedStables >= owed
             /\ homeCoin \in Stable \cup {Native}
  BY <1>2 DEF OffboardedInv
<1>a. ASSUME allowance' = allowance PROVE ApprovedStables' = ApprovedStables
  BY <1>a DEF ApprovedStables
<1>3. ASSUME MarketMoves \/ BridgeArrives \/ (\E t \in Token : Forward(t)) \/ UNCHANGED assetVars
      PROVE  KeptStables' - ApprovedStables' >= owed'
  <2>1. UNCHANGED <<ownerVars, owed>> /\ \A x \in Token : Kept(x)' = Kept(x)
    BY <1>3, NothingMoves
  <2>2. KeptStables' = KeptStables
    BY <2>1, TokenAssumption DEF KeptStables, TokenAssumption
  <2> QED
    BY <1>2, <1>a, <2>1, <2>2 DEF ownerVars
<1>4. ASSUME NEW c \in Chain, NEW t \in Received, NEW a \in ReceivedAmounts, ReceiveOn(c, t, a)
      PROVE  KeptStables' - ApprovedStables' >= owed'
  <2>1. Changed(t, 0, t, a) /\ a \in Nat /\ UNCHANGED ownerVars
    BY <1>4, ReceivingMoves, Given DEF ReceiveOn
  <2>2. KeptStables' = KeptStables - (IF t \in Stable THEN 0 ELSE 0) + (IF t \in Stable THEN a ELSE 0)
    BY <2>1, StablesMove
  <2>3. forwardingAddress # NoAddress /\ KeptStables - ApprovedStables >= owed
        /\ ApprovedStables' = ApprovedStables
    BY <1>2, <1>a, <2>1 DEF ownerVars
  <2>4. owed' = IF t \in Stable THEN owed + a ELSE owed
    BY <1>4, <2>3 DEF ReceiveOn
  <2> QED
    BY <1>0, <2>1, <2>2, <2>3, <2>4
<1>5. ASSUME NEW t \in Token, NEW a \in Parts \cup {bal[ForeignChain][t]}, Collect(t, a)
      PROVE  KeptStables' - ApprovedStables' >= owed'
  <2>1. PICK got \in ToBridge(t, a) : got \in Nat /\ Changed(t, a, BridgeCoin, got)
    BY <1>5, CollectMoves
  <2>2. a \in Nat /\ UNCHANGED <<ownerVars, owed>>
    BY <1>5, CollectMoves DEF Collect
  <2>3. KeptStables' = KeptStables - (IF t \in Stable THEN a ELSE 0) + got
    BY <2>1, <2>2, StablesMove
  <2>4. t \in Stable => got >= a
    <3>1. CASE t = BridgeCoin
      BY <2>1, <2>2, <3>1 DEF ToBridge
    <3>2. CASE t # BridgeCoin
      BY <2>1, <2>2, <3>2, SwapIsFair DEF ToBridge
    <3> QED
      BY <3>1, <3>2
  <2>5. KeptStables - ApprovedStables >= owed /\ ApprovedStables' = ApprovedStables /\ owed' = owed
    BY <1>2, <1>a, <2>2 DEF ownerVars
  <2> QED
    BY <1>0, <2>1, <2>2, <2>3, <2>4, <2>5
<1>6. ASSUME NEW t \in Token, NEW a \in Parts \cup {bal[HomeChain][t]}, SwapToHomeCoin(t, a)
      PROVE  KeptStables' - ApprovedStables' >= owed'
  <2>h. PICK h \in Token : h = homeCoin /\ h # t
                           /\ \E got \in SwapOutputs(t, a, h) : got \in Nat /\ Changed(t, a, h, got)
    BY <1>6, HomeSwapMoves
  <2>1. PICK got \in SwapOutputs(t, a, h) : got \in Nat /\ Changed(t, a, h, got)
    BY <2>h
  <2>2. a \in Nat /\ homeCoin # Native /\ UNCHANGED <<ownerVars, owed>>
    BY <1>6, HomeSwapMoves DEF SwapToHomeCoin
  <2>3. /\ KeptStables - ApprovedStables >= owed /\ ApprovedStables' = ApprovedStables /\ owed' = owed
        /\ h \in Stable
    <3>1. homeCoin' = homeCoin /\ forwardingAddress' = forwardingAddress /\ allowance' = allowance /\ owed' = owed
      BY <2>2 DEF ownerVars
    <3>2. homeCoin \in Stable /\ KeptStables - ApprovedStables >= owed
      BY <1>2, <2>2, <3>1
    <3> QED
      BY <1>a, <2>h, <3>1, <3>2
  <2>4. KeptStables' = KeptStables - (IF t \in Stable THEN a ELSE 0) + got
    BY <2>1, <2>2, <2>3, StablesMove
  <2>5. t \in Stable => got >= a
    BY <2>1, <2>2, <2>3, <2>h, SwapIsFair
  <2> QED
    BY <1>0, <2>1, <2>2, <2>3, <2>4, <2>5
<1>7. ASSUME NEW t \in Approvable, NEW a \in Parts, Permit(t, a) PROVE FALSE
  <2>1. forwardingAddress' = forwardingAddress /\ forwardingAddress = NoAddress
    BY <1>7 DEF Permit, MaySign, Active, OwnState
  <2> QED
    BY <2>1
<1>8. ASSUME NEW t \in Approvable, NEW a \in Parts, TakeApproved(t, a)
      PROVE  KeptStables' - ApprovedStables' >= owed'
  <2>1. a \in Nat /\ Changed(t, a, t, 0)
    BY <1>8, TakingMoves
  <2>2. KeptStables' = KeptStables - (IF t \in Stable THEN a ELSE 0) + (IF t \in Stable THEN 0 ELSE 0)
    BY <2>1, StablesMove
  <2>3. KeptStables - ApprovedStables >= owed /\ owed' = owed
    BY <1>2, <1>8 DEF TakeApproved
  <2>4. ApprovedStables' = ApprovedStables - (IF t \in Stable THEN a ELSE 0)
    <3> DEFINE f == [x \in Stable |-> allowance[x]]
               g == [x \in Stable |-> allowance'[x]]
    <3>1. Stable \subseteq Token /\ IsFiniteSet(Stable) /\ t \in Token
      BY Given, TokenAssumption, AssetsAssumption DEF TokenAssumption, AssetsAssumption
    <3>2. allowance \in [Token -> Nat] /\ allowance' \in [Token -> Nat]
          /\ allowance' = [allowance EXCEPT ![t] = @ - a]
      BY <1>8 DEF AssetsTypeOK, TakeApproved
    <3>3. f \in [Stable -> Nat] /\ g \in [Stable -> Nat]
      BY <3>1, <3>2
    <3>4. Moves(Stable, f, g, t, a, t, 0)
      BY <2>1, <3>1, <3>2 DEF Moves
    <3>5. ApprovedStables = Total(f) /\ ApprovedStables' = Total(g)
      BY DEF ApprovedStables
    <3> HIDE DEF f, g
    <3>6. Total(g) = Total(f) - (IF t \in Stable THEN a ELSE 0) + (IF t \in Stable THEN 0 ELSE 0)
      BY <2>1, <3>1, <3>3, <3>4, TotalMoves
    <3> QED
      BY <1>0, <2>1, <3>5, <3>6
  <2> QED
    BY <1>0, <2>1, <2>2, <2>3, <2>4
<1> QED
  BY <1>1, <1>3, <1>4, <1>5, <1>6, <1>7, <1>8 DEF AssetsNext

\* Of the stablecoins of an account that has set its forwarding address, and of those that come later, none is lost but
\* what its owner had approved by then, for any tokens, markets and amounts, whoever collects, swaps, signs or takes.
THEOREM NothingOwedIsLost == AssetsSpec => []OffboardedIsWhole
<1>1. AssetsInit => OffboardedInv
  BY DEF AssetsInit, OffboardedInv
<1>2. AssetsTypeOK /\ OffboardedInv => OffboardedIsWhole
  <2> SUFFICES ASSUME AssetsTypeOK, OffboardedInv PROVE OffboardedIsWhole
    OBVIOUS
  <2>1. KeptStables \in Nat /\ ApprovedStables \in Nat /\ owed \in Int
    BY StablesType DEF AssetsTypeOK
  <2> QED
    BY <2>1 DEF OffboardedInv, OffboardedIsWhole
<1> QED
  BY <1>1, <1>2, OffboardedStep, AssetsTypes, PTL DEF AssetsSpec

-----------------------------------------------------------------------------
(* TransferClogs: sums of transfers *)

\* Some transfers.
AreRows(rows) == IsFiniteSet(rows) /\ \A r \in rows : r.value \in Nat

\* The units that the transfers of a set move, one by one.
Units(rows) == UNION {{r} \X (1..r.value) : r \in rows}

LEMMA UnitsAreFinite ==
    ASSUME NEW rows, AreRows(rows)
    PROVE  IsFiniteSet(Units(rows))
<1> DEFINE f == [r \in rows |-> {r} \X (1..r.value)]
           S == {f[r] : r \in rows}
<1>1. IsFiniteSet(rows)
  BY DEF AreRows
<1>2. IsFiniteSet(S)
  <2>1. f = [r \in rows |-> f[r]]
    OBVIOUS
  <2> HIDE DEF f
  <2> QED
    BY <1>1, <2>1, ImageIsFinite
<1>3. \A T \in S : IsFiniteSet(T)
  <2> SUFFICES ASSUME NEW r \in rows PROVE IsFiniteSet({r} \X (1..r.value))
    OBVIOUS
  <2>1. 1 \in Int /\ r.value \in Int
    BY DEF AreRows
  <2>2. IsFiniteSet(1..r.value) /\ IsFiniteSet({r})
    BY <2>1, FS_Interval, FS_Singleton
  <2> QED
    BY <2>2, FS_Product
<1>4. IsFiniteSet(UNION S)
  <2> HIDE DEF S
  <2> QED
    BY <1>2, <1>3, FS_UNION
<1>5. Units(rows) = UNION S
  BY DEF Units
<1> QED
  BY <1>4, <1>5

LEMMA SumType ==
    ASSUME NEW rows, AreRows(rows)
    PROVE  SumOf(rows) \in Nat
  BY UnitsAreFinite, FS_CardinalityType DEF SumOf, Units

LEMMA SomeRows ==
    ASSUME NEW rows, AreRows(rows), NEW S, S \subseteq rows
    PROVE  AreRows(S)
  BY FS_Subset DEF AreRows

LEMMA MoreRows ==
    ASSUME NEW R, NEW S, AreRows(R), AreRows(S)
    PROVE  AreRows(R \cup S)
  BY FS_Union DEF AreRows

\* The sum of fewer transfers is no greater.
LEMMA SumOfPart ==
    ASSUME NEW rows, AreRows(rows), NEW S, S \subseteq rows
    PROVE  SumOf(S) <= SumOf(rows) /\ SumOf(S) \in Nat /\ SumOf(rows) \in Nat
<1>1. Units(S) \subseteq Units(rows)
  BY DEF Units
<1>2. IsFiniteSet(Units(rows))
  BY UnitsAreFinite
<1>3. Cardinality(Units(S)) <= Cardinality(Units(rows))
  BY <1>1, <1>2, FS_Subset
<1> QED
  BY <1>3, SomeRows, SumType DEF SumOf, Units

\* The sum of two sets of transfers.
LEMMA SumOfUnion ==
    ASSUME NEW R, NEW S, AreRows(R), AreRows(S), R \cap S = {}
    PROVE  SumOf(R \cup S) = SumOf(R) + SumOf(S)
<1>1. Units(R \cup S) = Units(R) \cup Units(S) /\ Units(R) \cap Units(S) = {}
  BY DEF Units
<1>2. IsFiniteSet(Units(R)) /\ IsFiniteSet(Units(S))
  BY UnitsAreFinite
<1>3. Cardinality(Units(R) \cap Units(S)) = 0
  BY <1>1, FS_EmptySet
<1>4. Cardinality(Units(R) \cup Units(S)) = Cardinality(Units(R)) + Cardinality(Units(S)) - 0
  BY <1>2, <1>3, FS_Union
<1>5. Cardinality(Units(R)) \in Nat /\ Cardinality(Units(S)) \in Nat
  BY <1>2, FS_CardinalityType
<1>6. Cardinality(Units(R \cup S)) = Cardinality(Units(R)) + Cardinality(Units(S))
  <2>1. Cardinality(Units(R \cup S)) = Cardinality(Units(R) \cup Units(S))
    BY <1>1
  <2> QED
    BY <2>1, <1>4, <1>5
<1> QED
  BY <1>6 DEF SumOf, Units

LEMMA SumOfNone == SumOf({}) = 0 /\ AreRows({})
<1>1. UNION {{r} \X (1..r.value) : r \in {}} = {}
  OBVIOUS
<1> QED
  BY <1>1, FS_EmptySet DEF SumOf, AreRows

LEMMA SumOfOne ==
    ASSUME NEW r, r.value \in Nat
    PROVE  SumOf({r}) = r.value /\ AreRows({r})
<1>1. IsFiniteSet({r}) /\ Cardinality({r}) = 1
  BY FS_Singleton
<1>2. AreRows({r})
  BY <1>1 DEF AreRows
<1>3. UNION {{x} \X (1..x.value) : x \in {r}} = {r} \X (1..r.value)
  OBVIOUS
<1>4. 1 \in Int /\ r.value \in Int
  OBVIOUS
<1>5. IsFiniteSet(1..r.value) /\ Cardinality(1..r.value) = r.value
  BY <1>4, FS_Interval
<1>6. Cardinality({r} \X (1..r.value)) = 1 * r.value
  BY <1>1, <1>5, FS_Product
<1>7. Cardinality(UNION {{x} \X (1..x.value) : x \in {r}}) = 1 * r.value
  BY <1>3, <1>6
<1>8. SumOf({r}) = 1 * r.value
  BY <1>7 DEF SumOf
<1> QED
  BY <1>2, <1>8

LEMMA SumWithOne ==
    ASSUME NEW rows, AreRows(rows), NEW r, r.value \in Nat, r \notin rows
    PROVE  SumOf(rows \cup {r}) = SumOf(rows) + r.value /\ AreRows(rows \cup {r})
  BY SumOfOne, SumOfUnion, MoreRows, rows \cap {r} = {}

-----------------------------------------------------------------------------
(* The chain accounts for what is held *)

HeldAfter(a, k, i) == IF i = 0 THEN 0 ELSE Held(a, k, i)

\* What the transactions of each kind look like, so far as what is shown depends on it.
Shape(t) ==
    LET m == t.moves
        D == DOMAIN t.moves
    IN  /\ ~t.op => \A j \in D : m[j].from \in {Outside, Cctp} /\ m[j].to \in Accounts
        /\ \A j, k \in D : m[j].token \in Tokens /\ m[k].token \in Tokens /\ m[j].from \in Accounts =>
              m[k].to # m[j].from /\ (m[k].from = m[j].from => j = k)
        /\ \A j \in D : m[j].token \in Tokens /\ m[j].from \in Accounts =>
              (t.kind = "swap" /\ j = 1) \/ \A k \in D : m[k].token # Home
        /\ \A j \in D : m[j].token = Home /\ m[j].to = Cctp => t.kind = "bridge"
        /\ t.kind = "bridge" => t.op /\ D = {1} /\ m[1].from = t.acct /\ m[1].to = Cctp /\ m[1].token = Home
        /\ t.kind = "arrive" => ~t.op /\ D = {1} /\ m[1].token = Home
        /\ \A j, k \in D :
              m[j].token = Home /\ m[j].from \in Accounts /\ m[j].to # Paymaster /\ m[k].token \in Tokens =>
                 t.kind = "paySwapped" /\ m[k].to = Outside /\ m[k].value = m[j].value /\ m[k].from \notin Accounts

\* The transactions account for what is held after them.
Balanced(i) ==
    \A a \in Accounts, k \in Coins :
        /\ SumOf(OutOf(RowsOf(i), a, k)) <= HeldAfter(a, k, i - 1)
        /\ Held(a, k, i) = HeldAfter(a, k, i - 1) + SumOf(InOf(RowsOf(i), a, k))
                                                  - SumOf(OutOf(RowsOf(i), a, k))

ChainInv ==
    /\ txs \in Seq(Tx) /\ Len(txs) \in 1..MaxTxs
    /\ \A i \in 1..Len(txs) : Shape(txs[i]) /\ Balanced(i)

\* What the constants are.
LEMMA Constants ==
    /\ IsFiniteSet(Accounts) /\ Accounts # {} /\ IsFiniteSet(Tokens) /\ Home \notin Tokens
    /\ \A k \in Coins : Amounts[k] \subseteq Nat \ {0}
    /\ AllAmounts \subseteq Nat \ {0}
    /\ Outside \notin Accounts /\ Dex \notin Accounts /\ Paymaster \notin Accounts /\ Cctp \notin Accounts
    /\ Outside \notin {Dex, Paymaster, Cctp} /\ Dex \notin {Paymaster, Cctp} /\ Paymaster # Cctp
    /\ MaxTxs \in Nat \ {0}
    /\ {Outside, Dex, Paymaster, Cctp} \subseteq Addresses /\ Accounts \subseteq Addresses
    /\ Home \in Coins /\ Tokens \subseteq Coins
  BY CoinsAssumption DEF CoinsAssumption, Coins, AllAmounts, Addresses

LEMMA MoveType ==
    ASSUME NEW k \in Coins, NEW from \in Addresses, NEW to \in Addresses, NEW v \in Nat
    PROVE  Move1(k, from, to, v) \in Move
  BY DEF Move1, Move

LEMMA OneMove ==
    ASSUME NEW x \in Move
    PROVE  /\ <<x>> \in Seq(Move) /\ DOMAIN <<x>> = {1} /\ <<x>>[1] = x
           /\ \A y \in Move : /\ <<x, y>> \in Seq(Move) /\ DOMAIN <<x, y>> = {1, 2}
                              /\ <<x, y>>[1] = x /\ <<x, y>>[2] = y
  OBVIOUS

\* The moves w are m between the fee and what is returned of it.
FeeAround(w, a, m, n) ==
    /\ w \in Seq(Move) /\ DOMAIN w = 1..n + 2
    /\ w[1] = Move1(Home, a, Paymaster, 2) /\ w[n + 2] = Move1(Home, Paymaster, a, 1)
    /\ \A j \in 1..n : w[j + 1] = m[j]

\* So are the moves of an operation whose fee is paid in the home coin.
LEMMA FeeMoves ==
    ASSUME NEW a \in Accounts, NEW m \in Seq(Move), NEW n \in Nat, n = Len(m)
    PROVE  FeeAround(WithFee(a, m), a, m, n)
<1> DEFINE x == Move1(Home, a, Paymaster, 2)
           y == Move1(Home, Paymaster, a, 1)
           p == <<x>> \o m
           w == p \o <<y>>
<1>1. x \in Move /\ y \in Move
  BY Constants, MoveType
<1> HIDE DEF x, y
<1>2. <<x>> \in Seq(Move) /\ Len(<<x>>) = 1 /\ <<x>>[1] = x /\ <<y>> \in Seq(Move) /\ Len(<<y>>) = 1 /\ <<y>>[1] = y
  BY <1>1
<1>3. n \in Nat /\ n = Len(m)
  OBVIOUS
<1>4. p \in Seq(Move) /\ Len(p) = n + 1 /\ p[1] = x /\ \A j \in 1..n : p[j + 1] = m[j]
  BY <1>2, <1>3, ConcatProperties
<1> HIDE DEF p
<1>5. w \in Seq(Move) /\ Len(w) = n + 2 /\ (\A j \in 1..n + 1 : w[j] = p[j]) /\ w[n + 2] = y
  BY <1>2, <1>3, <1>4, ConcatProperties
<1>6. DOMAIN w = 1..n + 2
  BY <1>5, LenProperties
<1>7. w[1] = x /\ \A j \in 1..n : w[j + 1] = m[j]
  BY <1>3, <1>4, <1>5
<1>8. WithFee(a, m) = w
  BY DEF WithFee, x, y, p, w
<1> HIDE DEF w
<1> QED
  BY <1>5, <1>6, <1>7, <1>8 DEF x, y, FeeAround

\* A set can be listed.
LEMMA SetToSeqIsSeq ==
    ASSUME NEW S, IsFiniteSet(S)
    PROVE  SetToSeq(S) \in Seq(S)
<1>1. Cardinality(S) \in Nat /\ ExistsBijection(1..Cardinality(S), S)
  BY FS_CardinalityType
<1>2. \E f \in [1..Cardinality(S) -> S] : IsInjective(f)
  BY <1>1 DEF ExistsBijection, Bijection, Injection
<1>3. SetToSeq(S) \in [1..Cardinality(S) -> S]
  BY <1>2 DEF SetToSeq
<1> QED
  BY <1>1, <1>3

\* The logs of moves are the moves, at their places.
LEMMA LogsOfMoves ==
    ASSUME NEW i \in Nat, NEW m \in Seq(Move)
    PROVE  /\ AreRows(LogsOf(i, m))
           /\ \A r \in LogsOf(i, m) :
                 /\ r.tx = i /\ r.log \in 1..Len(m) /\ r = LogOf(i, r.log, m[r.log])
                 /\ r.token = m[r.log].token /\ r.from = m[r.log].from /\ r.to = m[r.log].to
                 /\ r.value = m[r.log].value
                 /\ r.token \in Coins /\ r.from \in Addresses /\ r.to \in Addresses /\ r.value \in Nat
           /\ i \in 1..MaxTxs => LogsOf(i, m) \subseteq Row
<1> DEFINE f == [k \in 1..Len(m) |-> LogOf(i, k, m[k])]
<1>1. Len(m) \in Nat /\ DOMAIN m = 1..Len(m) /\ \A k \in 1..Len(m) : m[k] \in Move
  BY LenProperties, ElementOfSeq
<1>2. LogsOf(i, m) = {f[k] : k \in 1..Len(m)}
  BY <1>1 DEF LogsOf
<1>3. IsFiniteSet(LogsOf(i, m))
  <2>1. IsFiniteSet(1..Len(m))
    BY <1>1, FS_Interval, 1 \in Int, Len(m) \in Int
  <2>2. f = [k \in 1..Len(m) |-> f[k]]
    OBVIOUS
  <2> HIDE DEF f
  <2> QED
    BY <1>2, <2>1, <2>2, ImageIsFinite
<1>4. ASSUME NEW k \in 1..Len(m)
      PROVE  LET r == f[k] IN
             /\ r = LogOf(i, k, m[k]) /\ r.tx = i /\ r.log = k /\ r.token = m[k].token /\ r.from = m[k].from
             /\ r.to = m[k].to /\ r.value = m[k].value
             /\ r.token \in Coins /\ r.from \in Addresses /\ r.to \in Addresses /\ r.value \in Nat
             /\ i \in 1..MaxTxs => r \in Row
  BY <1>1 DEF LogOf, Move, Row
<1> HIDE DEF f
<1>5. \A r \in LogsOf(i, m) : \E k \in 1..Len(m) : r = f[k]
  BY <1>2
<1>6. \A r \in LogsOf(i, m) : r.value \in Nat
  BY <1>4, <1>5
<1>7. AreRows(LogsOf(i, m))
  BY <1>3, <1>6 DEF AreRows
<1>8. ASSUME NEW r \in LogsOf(i, m)
      PROVE  /\ r.tx = i /\ r.log \in 1..Len(m) /\ r = LogOf(i, r.log, m[r.log])
             /\ r.token = m[r.log].token /\ r.from = m[r.log].from /\ r.to = m[r.log].to
             /\ r.value = m[r.log].value
             /\ r.token \in Coins /\ r.from \in Addresses /\ r.to \in Addresses /\ r.value \in Nat
             /\ i \in 1..MaxTxs => r \in Row
  <2>1. PICK k \in 1..Len(m) : r = f[k]
    BY <1>5
  <2>2. r.log = k
    BY <2>1, <1>4
  <2> QED
    BY <2>1, <2>2, <1>4
<1> QED
  BY <1>7, <1>8

LEMMA InOutRows ==
    ASSUME NEW rows, AreRows(rows), NEW a, NEW k
    PROVE  /\ SumOf(InOf(rows, a, k)) \in Nat /\ AreRows(InOf(rows, a, k))
           /\ SumOf(OutOf(rows, a, k)) \in Nat /\ AreRows(OutOf(rows, a, k))
<1>1. InOf(rows, a, k) \subseteq rows /\ OutOf(rows, a, k) \subseteq rows
  BY DEF InOf, OutOf
<1> QED
  BY <1>1, SomeRows, SumType

\* After transfers nobody holds less than nothing.
LEMMA MovedHeld ==
    ASSUME NEW rows, AreRows(rows), NEW held \in [Accounts \X Coins -> Nat],
           \A a \in Accounts, k \in Coins : SumOf(OutOf(rows, a, k)) <= held[<<a, k>>]
    PROVE  /\ Moved(held, rows) \in [Accounts \X Coins -> Nat]
           /\ \A a \in Accounts, k \in Coins :
                Moved(held, rows)[<<a, k>>] =
                    held[<<a, k>>] + SumOf(InOf(rows, a, k)) - SumOf(OutOf(rows, a, k))
<1>1. ASSUME NEW p \in Accounts \X Coins
      PROVE  held[p] + SumOf(InOf(rows, p[1], p[2])) - SumOf(OutOf(rows, p[1], p[2])) \in Nat
  <2>1. p[1] \in Accounts /\ p[2] \in Coins /\ p = <<p[1], p[2]>>
    OBVIOUS
  <2>2. SumOf(OutOf(rows, p[1], p[2])) <= held[p] /\ held[p] \in Nat
    BY <2>1
  <2>3. SumOf(InOf(rows, p[1], p[2])) \in Nat /\ SumOf(OutOf(rows, p[1], p[2])) \in Nat
    BY InOutRows
  <2> QED
    BY <2>2, <2>3
<1> QED
  BY <1>1, Zenon DEF Moved

\* Nobody sends more than he has, and what is held afterwards accounts for it.
Affordable(rows, held) == \A b \in Accounts, k \in Coins : SumOf(OutOf(rows, b, k)) <= held[<<b, k>>]

Follows(after, rows, held) == \A b \in Accounts, k \in Coins :
    after[<<b, k>>] = held[<<b, k>>] + SumOf(InOf(rows, b, k)) - SumOf(OutOf(rows, b, k))

IsHeld(held) == held \in [Accounts \X Coins -> Nat]

\* A transaction accounts for what is held after it.
LEMMA TxOfType ==
    ASSUME NEW i \in Nat, NEW kind \in Kinds, NEW a \in Accounts, NEW op \in BOOLEAN, NEW m \in Seq(Move),
           NEW held, IsHeld(held), Affordable(LogsOf(i, m), held), NEW t, t = TxOf(i, kind, a, op, m, held)
    PROVE  /\ t \in Tx /\ t.kind = kind /\ t.acct = a /\ t.op = op /\ t.moves = m
           /\ Follows(t.held, LogsOf(i, m), held)
<1>1. AreRows(LogsOf(i, m))
  BY LogsOfMoves
<1>2. /\ Moved(held, LogsOf(i, m)) \in [Accounts \X Coins -> Nat]
      /\ \A b \in Accounts, k \in Coins : Moved(held, LogsOf(i, m))[<<b, k>>] =
             held[<<b, k>>] + SumOf(InOf(LogsOf(i, m), b, k)) - SumOf(OutOf(LogsOf(i, m), b, k))
  BY <1>1, MovedHeld DEF IsHeld, Affordable
<1>3. /\ t \in Tx /\ t.kind = kind /\ t.acct = a /\ t.op = op /\ t.moves = m
      /\ t.held = Moved(held, LogsOf(i, m))
  BY <1>2 DEF TxOf, Tx
<1> QED
  BY <1>2, <1>3 DEF Follows

\* The transactions that are on the chain stay as they are.
ChainGrows == Len(txs) <= Len(txs') /\ \A i \in 1..Len(txs) : txs'[i] = txs[i]

\* A transaction is added to a chain that accounts for what is held.
LEMMA AddKeeps ==
    ASSUME ChainInv, NEW kind \in Kinds, NEW a \in Accounts, NEW op \in BOOLEAN, NEW m \in Seq(Move),
           Add(kind, a, op, m), \A h : Shape(TxOf(Len(txs) + 1, kind, a, op, m, h))
    PROVE  ChainInv' /\ ChainGrows
<1>0. PICK n \in Nat : n = Len(txs)
  <2>1. Len(txs) \in Nat
    BY LenProperties DEF ChainInv
  <2> QED
    BY <2>1
<1>1. txs \in Seq(Tx) /\ n = Len(txs) /\ n \in 1..MaxTxs /\ n \in Nat /\ n + 1 \in Nat
  BY <1>0, Constants DEF ChainInv
<1>00. PICK t : t = TxOf(n + 1, kind, a, op, m, txs[n].held)
  OBVIOUS
<1>2. n < MaxTxs /\ txs' = Append(txs, t)
  BY <1>1, <1>00 DEF Add
<1>01. PICK h : h = txs[n].held
  OBVIOUS
<1>3. Affordable(LogsOf(n + 1, m), h)
  BY <1>1, <1>01 DEF Add, Held, Affordable
<1>4. IsHeld(h)
  <2>1. txs[n] \in Tx
    BY <1>1, ElementOfSeq
  <2> QED
    BY <2>1, <1>01 DEF Tx, IsHeld
<1>5. t \in Tx /\ t.moves = m /\ Follows(t.held, LogsOf(n + 1, m), h)
  BY <1>00, <1>01, <1>1, <1>3, <1>4, TxOfType
<1>6. Shape(t)
  BY <1>00, <1>1
<1>7. txs' \in Seq(Tx) /\ Len(txs') = n + 1 /\ (\A i \in 1..n : txs'[i] = txs[i]) /\ txs'[n + 1] = t
  BY <1>1, <1>2, <1>5, AppendProperties
<1>8. ASSUME NEW i \in 1..n PROVE Shape(txs'[i]) /\ Balanced(i)'
  <2>1. Shape(txs[i]) /\ Balanced(i)
    BY <1>1 DEF ChainInv
  <2>2. txs'[i] = txs[i] /\ (i = 1 \/ (i - 1 \in 1..n /\ txs'[i - 1] = txs[i - 1]))
    BY <1>7, <1>1
  <2>3. ASSUME NEW b \in Accounts, NEW k \in Coins
        PROVE  HeldAfter(b, k, i - 1)' = HeldAfter(b, k, i - 1) /\ Held(b, k, i)' = Held(b, k, i)
    BY <2>2 DEF HeldAfter, Held
  <2>4. RowsOf(i)' = RowsOf(i)
    BY <2>2 DEF RowsOf
  <2> QED
    BY <2>1, <2>2, <2>3, <2>4 DEF Balanced
<1>9. Shape(txs'[n + 1]) /\ Balanced(n + 1)'
  <2>1. RowsOf(n + 1)' = LogsOf(n + 1, m)
    BY <1>5, <1>7 DEF RowsOf
  <2>2. (n + 1) - 1 = n /\ n # 0 /\ txs'[n] = txs[n]
    BY <1>1, <1>7
  <2>3. ASSUME NEW b \in Accounts, NEW k \in Coins
        PROVE  HeldAfter(b, k, (n + 1) - 1)' = h[<<b, k>>] /\ Held(b, k, n + 1)' = t.held[<<b, k>>]
    BY <2>2, <1>7, <1>01 DEF HeldAfter, Held
  <2> QED
    BY <2>1, <2>3, <1>3, <1>5, <1>6, <1>7 DEF Balanced, Follows, Affordable
<1>10. \A i \in 1..n + 1 : i \in 1..n \/ i = n + 1
  BY <1>1
<1> QED
  <2>1. ChainGrows
    BY <1>1, <1>7 DEF ChainGrows
  <2>2. n + 1 \in 1..MaxTxs
    BY <1>1, <1>2, Constants
  <2>3. \A i \in 1..n + 1 : Shape(txs'[i]) /\ Balanced(i)'
    BY <1>8, <1>9, <1>10
  <2> QED
    BY <2>1, <2>2, <2>3, <1>7 DEF ChainInv

\* Moves from outside to accounts, in some order.
Inward(M) == IsFiniteSet(M) /\ M \subseteq Move /\ \A x \in M : x.from = Outside /\ x.to \in Accounts

LEMMA InwardMoves ==
    ASSUME NEW M, Inward(M), NEW m, m = SetToSeq(M)
    PROVE  m \in Seq(Move) /\ \A j \in DOMAIN m : m[j].from = Outside /\ m[j].to \in Accounts
<1>1. m \in Seq(M)
  BY SetToSeqIsSeq DEF Inward
<1>2. \A j \in DOMAIN m : m[j] \in M
  BY <1>1
<1>3. m \in Seq(Move)
  BY <1>1, <1>2 DEF Inward
<1> QED
  BY <1>2, <1>3 DEF Inward

\* What the moves of each kind look like.
ShapeOf(kind, a, op, m) ==
    \A t : t.kind = kind /\ t.acct = a /\ (t.op <=> op) /\ t.moves = m => Shape(t)

\* The moves of each kind of transaction have the shape.
LEMMA InwardShape ==
    ASSUME NEW m, \A j \in DOMAIN m : m[j].from = Outside /\ m[j].to \in Accounts,
           NEW kind \in {"receive", "name"}, NEW a
    PROVE  ShapeOf(kind, a, FALSE, m)
<1> SUFFICES ASSUME NEW t, t.kind = kind, t.acct = a, ~t.op, t.moves = m PROVE Shape(t)
  BY Zenon DEF ShapeOf
<1>2. \A j \in DOMAIN m : m[j].from \notin Accounts /\ m[j].to # Cctp
  BY Constants
<1>3. kind \notin {"bridge", "arrive"}
  OBVIOUS
<1> QED
  BY <1>2, <1>3 DEF Shape

LEMMA NoMovesShape ==
    ASSUME NEW a \in Accounts
    PROVE  <<>> \in Seq(Move) /\ ShapeOf("name", a, FALSE, <<>>)
<1>1. DOMAIN <<>> = {} /\ <<>> \in Seq(Move)
  OBVIOUS
<1> QED
  BY <1>1, InwardShape

LEMMA SwapShape ==
    ASSUME NEW a \in Accounts, NEW k \in Tokens, NEW v \in Nat,
           NEW m, m = <<Move1(k, a, Dex, v), Move1(Home, Dex, a, v)>>
    PROVE  m \in Seq(Move) /\ ShapeOf("swap", a, TRUE, m)
<1>1. m \in Seq(Move) /\ DOMAIN m = {1, 2} /\ m[1] = Move1(k, a, Dex, v) /\ m[2] = Move1(Home, Dex, a, v)
  BY MoveType, OneMove, Constants
<1>2. /\ m[1].token = k /\ m[1].from = a /\ m[1].to = Dex
      /\ m[2].token = Home /\ m[2].from = Dex /\ m[2].to = a
  BY <1>1 DEF Move1
<1> SUFFICES ASSUME NEW t, t.kind = "swap", t.acct = a, t.op, t.moves = m PROVE Shape(t)
  BY <1>1, Zenon DEF ShapeOf
<1> QED
  BY <1>1, <1>2, Constants DEF Shape

LEMMA SendShape ==
    ASSUME NEW a \in Accounts, NEW k \in Tokens, NEW v \in Nat, NEW to \in (Accounts \cup {Outside}) \ {a},
           NEW m, m = <<Move1(k, a, to, v)>>
    PROVE  m \in Seq(Move) /\ ShapeOf("send", a, TRUE, m)
<1>1. m \in Seq(Move) /\ DOMAIN m = {1} /\ m[1] = Move1(k, a, to, v)
  BY MoveType, OneMove, Constants
<1>2. m[1].token = k /\ m[1].from = a /\ m[1].to = to
  BY <1>1 DEF Move1
<1> SUFFICES ASSUME NEW t, t.kind = "send", t.acct = a, t.op, t.moves = m PROVE Shape(t)
  BY <1>1, Zenon DEF ShapeOf
<1> QED
  BY <1>1, <1>2, Constants DEF Shape

\* Moves of the home coin alone, other than to another chain.
LEMMA HomeShape ==
    ASSUME NEW a \in Accounts, NEW m, \A j \in DOMAIN m : m[j].token = Home /\ m[j].to # Cctp
    PROVE  ShapeOf("pay", a, TRUE, m)
<1> SUFFICES ASSUME NEW t, t.kind = "pay", t.acct = a, t.op, t.moves = m PROVE Shape(t)
  BY Zenon DEF ShapeOf
<1> QED
  BY Constants DEF Shape

LEMMA PayShape ==
    ASSUME NEW a \in Accounts, NEW v \in Nat, NEW to \in (Accounts \cup {Outside}) \ {a},
           NEW m, m = <<Move1(Home, a, to, v)>>
    PROVE  /\ m \in Seq(Move) /\ ShapeOf("pay", a, TRUE, m)
           /\ WithFee(a, m) \in Seq(Move) /\ ShapeOf("pay", a, TRUE, WithFee(a, m))
<1>1. m \in Seq(Move) /\ DOMAIN m = {1} /\ m[1] = Move1(Home, a, to, v) /\ Len(m) = 1
  BY MoveType, OneMove, Constants
<1>2. m[1].token = Home /\ m[1].to = to /\ to # Cctp
  BY <1>1, Constants DEF Move1
<1> DEFINE w == WithFee(a, m)
<1>3. /\ w \in Seq(Move) /\ DOMAIN w = 1..3
      /\ w[1] = Move1(Home, a, Paymaster, 2) /\ w[3] = Move1(Home, Paymaster, a, 1) /\ w[2] = m[1]
  <2>1. PICK n \in Nat : n = Len(m) /\ n = 1
    BY <1>1
  <2>2. /\ w \in Seq(Move) /\ DOMAIN w = 1..n + 2
        /\ w[1] = Move1(Home, a, Paymaster, 2) /\ w[n + 2] = Move1(Home, Paymaster, a, 1)
        /\ \A j \in 1..n : w[j + 1] = m[j]
    BY <1>1, <2>1, FeeMoves DEF FeeAround
  <2> HIDE DEF w
  <2>3. w[1 + 1] = m[1]
    BY <2>1, <2>2
  <2> QED
    BY <2>1, <2>2, <2>3
<1> HIDE DEF w
<1>4. w[1].token = Home /\ w[1].to = Paymaster /\ w[3].token = Home /\ w[3].to = a
  BY <1>3 DEF Move1
<1>5. \A j \in DOMAIN w : w[j].token = Home /\ w[j].to # Cctp
  BY <1>2, <1>3, <1>4, Constants
<1>6. ShapeOf("pay", a, TRUE, w) /\ ShapeOf("pay", a, TRUE, m)
  BY <1>1, <1>2, <1>5, HomeShape
<1> QED
  BY <1>1, <1>3, <1>6 DEF w

LEMMA PaySwappedShape ==
    ASSUME NEW a \in Accounts, NEW v \in Nat, NEW k \in Tokens,
           NEW m, m = <<Move1(Home, a, Dex, v), Move1(k, Dex, Outside, v)>>
    PROVE  /\ m \in Seq(Move) /\ ShapeOf("paySwapped", a, TRUE, m)
           /\ WithFee(a, m) \in Seq(Move) /\ ShapeOf("paySwapped", a, TRUE, WithFee(a, m))
<1>1. /\ m \in Seq(Move) /\ DOMAIN m = {1, 2} /\ Len(m) = 2
      /\ m[1] = Move1(Home, a, Dex, v) /\ m[2] = Move1(k, Dex, Outside, v)
  BY MoveType, OneMove, Constants
<1>2. /\ m[1].token = Home /\ m[1].from = a /\ m[1].to = Dex /\ m[1].value = v
      /\ m[2].token = k /\ m[2].from = Dex /\ m[2].to = Outside /\ m[2].value = v
  BY <1>1 DEF Move1
<1> DEFINE w == WithFee(a, m)
<1>3. /\ w \in Seq(Move) /\ DOMAIN w = 1..4
      /\ w[1] = Move1(Home, a, Paymaster, 2) /\ w[4] = Move1(Home, Paymaster, a, 1)
      /\ w[2] = m[1] /\ w[3] = m[2]
  <2>1. PICK n \in Nat : n = Len(m) /\ n = 2
    BY <1>1
  <2>2. /\ w \in Seq(Move) /\ DOMAIN w = 1..n + 2
        /\ w[1] = Move1(Home, a, Paymaster, 2) /\ w[n + 2] = Move1(Home, Paymaster, a, 1)
        /\ \A j \in 1..n : w[j + 1] = m[j]
    BY <1>1, <2>1, FeeMoves DEF FeeAround
  <2> HIDE DEF w
  <2>3. w[1 + 1] = m[1] /\ w[2 + 1] = m[2]
    BY <2>1, <2>2
  <2> QED
    BY <2>1, <2>2, <2>3
<1> HIDE DEF w
<1>4. /\ w[1].token = Home /\ w[1].from = a /\ w[1].to = Paymaster
      /\ w[4].token = Home /\ w[4].from = Paymaster /\ w[4].to = a
  BY <1>3 DEF Move1
<1>5. ASSUME NEW t, t.kind = "paySwapped", t.acct = a, t.op, t.moves = m PROVE Shape(t)
  <2> QED
    BY <1>1, <1>2, <1>5, Constants DEF Shape
<1>6. ASSUME NEW t, t.kind = "paySwapped", t.acct = a, t.op, t.moves = w PROVE Shape(t)
  <2>2. DOMAIN w = {1, 2, 3, 4}
    BY <1>3
  <2> QED
    BY <1>2, <1>3, <1>4, <1>6, <2>2, Constants DEF Shape
<1> QED
  BY <1>1, <1>3, <1>5, <1>6, Zenon DEF ShapeOf, w

LEMMA OtherChainShape ==
    ASSUME NEW a \in Accounts, NEW v \in Nat, NEW m, NEW p
    PROVE  /\ m = <<Move1(Home, a, Cctp, v)>> => m \in Seq(Move) /\ ShapeOf("bridge", a, TRUE, m)
           /\ p = <<Move1(Home, Cctp, a, v)>> => p \in Seq(Move) /\ ShapeOf("arrive", a, FALSE, p)
<1>1. ASSUME m = <<Move1(Home, a, Cctp, v)>> PROVE m \in Seq(Move) /\ ShapeOf("bridge", a, TRUE, m)
  <2>1. m \in Seq(Move) /\ DOMAIN m = {1} /\ m[1] = Move1(Home, a, Cctp, v)
    BY <1>1, MoveType, OneMove, Constants
  <2>2. m[1].token = Home /\ m[1].from = a /\ m[1].to = Cctp
    BY <2>1 DEF Move1
  <2> SUFFICES ASSUME NEW t, t.kind = "bridge", t.acct = a, t.op, t.moves = m PROVE Shape(t)
    BY <2>1, Zenon DEF ShapeOf
  <2> QED
    BY <2>1, <2>2, Constants DEF Shape
<1>2. ASSUME p = <<Move1(Home, Cctp, a, v)>> PROVE p \in Seq(Move) /\ ShapeOf("arrive", a, FALSE, p)
  <2>1. p \in Seq(Move) /\ DOMAIN p = {1} /\ p[1] = Move1(Home, Cctp, a, v)
    BY <1>2, MoveType, OneMove, Constants
  <2>2. p[1].token = Home /\ p[1].from = Cctp /\ p[1].to = a
    BY <2>1 DEF Move1
  <2> SUFFICES ASSUME NEW t, t.kind = "arrive", t.acct = a, ~t.op, t.moves = p PROVE Shape(t)
    BY <2>1, Zenon DEF ShapeOf
  <2> QED
    BY <2>1, <2>2, Constants DEF Shape
<1> QED
  BY <1>1, <1>2

\* The first transaction has the shape, and accounts for what is held.
LEMMA ChainInit ==
    ASSUME Init
    PROVE  ChainInv
<1>0. PICK kind \in {"receive", "name"}, k \in Tokens : \E v \in Amounts[k] : txs = <<Grant(kind, k, v)>>
  BY DEF Init
<1>1. PICK v \in Amounts[k] : txs = <<Grant(kind, k, v)>>
  BY <1>0
<1>2. v \in Nat /\ k \in Coins
  BY <1>1, Constants
<1> DEFINE f == [a \in Accounts |-> Move1(Home, Outside, a, 9)]
           g == [a \in Accounts |-> Move1(k, Outside, a, v)]
           F == {f[a] : a \in Accounts}
           G == {g[a] : a \in Accounts}
<1>3. PICK M : M = {Move1(Home, Outside, a, 9) : a \in Accounts} \cup {Move1(k, Outside, a, v) : a \in Accounts}
  OBVIOUS
<1>4. Inward(M)
  <2>1. IsFiniteSet(F) /\ IsFiniteSet(G)
    <3>1. f = [a \in Accounts |-> f[a]] /\ g = [a \in Accounts |-> g[a]]
      OBVIOUS
    <3> HIDE DEF f, g
    <3> QED
      BY <3>1, Constants, ImageIsFinite
  <2>2. F = {Move1(Home, Outside, a, 9) : a \in Accounts} /\ G = {Move1(k, Outside, a, v) : a \in Accounts}
    OBVIOUS
  <2>3. M = F \cup G
    BY <2>2, <1>3
  <2>4. IsFiniteSet(M)
    BY <2>1, <2>3, FS_Union
  <2>5. ASSUME NEW x \in M PROVE x \in Move /\ x.from = Outside /\ x.to \in Accounts
    <3>1. CASE \E a \in Accounts : x = Move1(Home, Outside, a, 9)
      BY <3>1, Constants, MoveType DEF Move1
    <3>2. CASE \E a \in Accounts : x = Move1(k, Outside, a, v)
      BY <3>2, <1>2, Constants, MoveType DEF Move1
    <3> QED
      BY <1>3, <3>1, <3>2
  <2> QED
    BY <2>4, <2>5 DEF Inward
<1>5. PICK m : m = SetToSeq(M)
  OBVIOUS
<1>6. m \in Seq(Move) /\ \A j \in DOMAIN m : m[j].from = Outside /\ m[j].to \in Accounts
  BY <1>4, <1>5, InwardMoves
<1>7. PICK a : a = CHOOSE x \in Accounts : TRUE
  OBVIOUS
<1>8. a \in Accounts
  BY <1>7, Constants
<1>9. PICK h : h = [p \in Accounts \X Coins |-> 0]
  OBVIOUS
<1>10. IsHeld(h) /\ \A b \in Accounts, c \in Coins : h[<<b, c>>] = 0
  BY <1>9 DEF IsHeld
<1>11. Affordable(LogsOf(1, m), h)
  <2> SUFFICES ASSUME NEW b \in Accounts, NEW c \in Coins PROVE SumOf(OutOf(LogsOf(1, m), b, c)) <= 0
    BY <1>10 DEF Affordable
  <2>1. \A r \in LogsOf(1, m) : r.from = m[r.log].from /\ r.log \in 1..Len(m)
    BY <1>6, LogsOfMoves
  <2>2. DOMAIN m = 1..Len(m)
    BY <1>6
  <2>3. OutOf(LogsOf(1, m), b, c) = {}
    BY <1>6, <2>1, <2>2, Constants DEF OutOf
  <2> QED
    BY <2>3, SumOfNone
<1>12. PICK t : t = TxOf(1, kind, a, FALSE, m, h)
  OBVIOUS
<1>13. t \in Tx /\ t.kind = kind /\ t.acct = a /\ t.op = FALSE /\ t.moves = m /\ Follows(t.held, LogsOf(1, m), h)
  <2>1. kind \in Kinds /\ FALSE \in BOOLEAN /\ 1 \in Nat
    BY DEF Kinds
  <2>2. PICK op \in BOOLEAN : op = FALSE
    OBVIOUS
  <2>3. t = TxOf(1, kind, a, op, m, h)
    BY <2>2, <1>12
  <2>4. t \in Tx /\ t.kind = kind /\ t.acct = a /\ t.op = op /\ t.moves = m /\ Follows(t.held, LogsOf(1, m), h)
    BY <2>1, <2>3, <1>6, <1>8, <1>10, <1>11, TxOfType
  <2> QED
    BY <2>2, <2>4
<1>14. Shape(t)
  <2>1. ShapeOf(kind, a, FALSE, m)
    BY <1>6, InwardShape
  <2> QED
    BY <1>13, <2>1, Zenon DEF ShapeOf
<1>15. txs = <<t>>
  BY <1>1, <1>3, <1>5, <1>7, <1>9, <1>12, Zenon DEF Grant
<1>16. txs \in Seq(Tx) /\ Len(txs) = 1 /\ txs[1] = t
  BY <1>13, <1>15
<1>17. Balanced(1)
  <2>1. RowsOf(1) = LogsOf(1, m)
    BY <1>13, <1>16 DEF RowsOf
  <2>2. ASSUME NEW b \in Accounts, NEW c \in Coins
        PROVE  HeldAfter(b, c, 0) = h[<<b, c>>] /\ Held(b, c, 1) = t.held[<<b, c>>]
    BY <1>10, <1>16 DEF HeldAfter, Held
  <2>3. 1 - 1 = 0
    OBVIOUS
  <2> QED
    BY <2>1, <2>2, <2>3, <1>11, <1>13 DEF Balanced, Follows, Affordable
<1>18. 1..Len(txs) = {1} /\ Len(txs) \in 1..MaxTxs
  BY <1>16, Constants
<1> QED
  BY <1>14, <1>16, <1>17, <1>18 DEF ChainInv

LEMMA AddShapeKeeps ==
    ASSUME ChainInv, NEW kind \in Kinds, NEW a \in Accounts, NEW op \in BOOLEAN, NEW m,
           m \in Seq(Move) /\ ShapeOf(kind, a, op, m), Add(kind, a, op, m)
    PROVE  ChainInv' /\ ChainGrows
<1>1. ASSUME NEW h PROVE Shape(TxOf(Len(txs) + 1, kind, a, op, m, h))
  <2>1. PICK t : t = TxOf(Len(txs) + 1, kind, a, op, m, h)
    OBVIOUS
  <2>2. t.kind = kind /\ t.acct = a /\ t.op = op /\ t.moves = m
    BY <2>1 DEF TxOf
  <2>3. Shape(t)
    BY <2>2, Zenon DEF ShapeOf
  <2> QED
    BY <2>1, <2>3
<1> QED
  BY <1>1, AddKeeps

LEMMA ReceiptMoves ==
    ASSUME NEW a \in Accounts, NEW S, S \subseteq Tokens, NEW v, \A k \in S : v[k] \in Nat,
           NEW m, m = SetToSeq({Move1(k, Outside, a, v[k]) : k \in S})
    PROVE  m \in Seq(Move) /\ ShapeOf("receive", a, FALSE, m)
<1>1. PICK M : M = {Move1(k, Outside, a, v[k]) : k \in S}
  OBVIOUS
<1>2. Inward(M)
  <2> DEFINE f == [k \in S |-> Move1(k, Outside, a, v[k])]
  <2>1. IsFiniteSet(S)
    BY Constants, FS_Subset
  <2>2. IsFiniteSet({f[k] : k \in S})
    <3>1. f = [k \in S |-> f[k]]
      OBVIOUS
    <3> HIDE DEF f
    <3> QED
      BY <3>1, <2>1, ImageIsFinite
  <2>3. M = {f[k] : k \in S}
    BY <1>1
  <2>4. ASSUME NEW x \in M PROVE x \in Move /\ x.from = Outside /\ x.to \in Accounts
    <3>1. PICK k \in S : x = Move1(k, Outside, a, v[k])
      BY <1>1
    <3> QED
      BY <3>1, Constants, MoveType DEF Move1
  <2> HIDE DEF f
  <2> QED
    BY <2>2, <2>3, <2>4 DEF Inward
<1>3. m \in Seq(Move) /\ \A j \in DOMAIN m : m[j].from = Outside /\ m[j].to \in Accounts
  BY <1>1, <1>2, InwardMoves
<1> QED
  BY <1>3, InwardShape

\* No step changes what is on the chain, and what is added accounts for what is held.
LEMMA ChainStepKeeps ==
    ASSUME ChainInv, [Next]_vars
    PROVE  ChainInv' /\ ChainGrows
<1>0. TRUE \in BOOLEAN /\ FALSE \in BOOLEAN
      /\ {"name", "receive", "send", "swap", "pay", "paySwapped", "bridge", "arrive"} \subseteq Kinds
      /\ "name" \in Kinds /\ "receive" \in Kinds /\ "send" \in Kinds /\ "swap" \in Kinds
      /\ "pay" \in Kinds /\ "paySwapped" \in Kinds /\ "bridge" \in Kinds /\ "arrive" \in Kinds
  BY DEF Kinds
<1>1. ASSUME UNCHANGED txs PROVE ChainInv' /\ ChainGrows
  <2>1. Len(txs) \in Nat
    BY Constants DEF ChainInv
  <2> QED
    BY <1>1, <2>1 DEF ChainInv, ChainGrows, Balanced, HeldAfter, Held, RowsOf
<1>2. ASSUME NEW a \in Accounts, RegisterName(a) PROVE ChainInv' /\ ChainGrows
  BY <1>0, <1>2, NoMovesShape, AddShapeKeeps DEF RegisterName
<1>3. ASSUME NEW a \in Accounts, ReceiveTokens(a) PROVE ChainInv' /\ ChainGrows
  <2>0. PICK S \in SUBSET Tokens : \E v \in [S -> AllAmounts] :
            Add("receive", a, FALSE, SetToSeq({Move1(k, Outside, a, v[k]) : k \in S}))
    BY <1>3 DEF ReceiveTokens
  <2>1. PICK v \in [S -> AllAmounts] : Add("receive", a, FALSE, SetToSeq({Move1(k, Outside, a, v[k]) : k \in S}))
    BY <2>0
  <2>2. \A k \in S : v[k] \in Nat
    BY <2>1, Constants
  <2>3. PICK m : m = SetToSeq({Move1(k, Outside, a, v[k]) : k \in S})
    OBVIOUS
  <2>4. m \in Seq(Move) /\ ShapeOf("receive", a, FALSE, m)
    BY <2>2, <2>3, ReceiptMoves
  <2>5. Add("receive", a, FALSE, m)
    BY <2>1, <2>3
  <2> QED
    BY <1>0, <2>4, <2>5, AddShapeKeeps
<1>4. ASSUME NEW a \in Accounts, SwapTokens(a) PROVE ChainInv' /\ ChainGrows
  <2>0. PICK k \in Tokens : \E v \in Amounts[k] : Add("swap", a, TRUE, <<Move1(k, a, Dex, v), Move1(Home, Dex, a, v)>>)
    BY <1>4 DEF SwapTokens
  <2>1. PICK v \in Amounts[k] : Add("swap", a, TRUE, <<Move1(k, a, Dex, v), Move1(Home, Dex, a, v)>>)
    BY <2>0
  <2>2. v \in Nat
    BY <2>1, Constants
  <2> QED
    BY <1>0, <2>1, <2>2, SwapShape, AddShapeKeeps
<1>5. ASSUME NEW a \in Accounts, SendTokens(a) PROVE ChainInv' /\ ChainGrows
  <2>0. PICK k \in Tokens : \E v \in Amounts[k] : \E to \in (Accounts \cup {Outside}) \ {a} :
            Add("send", a, TRUE, <<Move1(k, a, to, v)>>)
    BY <1>5 DEF SendTokens
  <2>1. PICK v \in Amounts[k], to \in (Accounts \cup {Outside}) \ {a} :
            Add("send", a, TRUE, <<Move1(k, a, to, v)>>)
    BY <2>0
  <2>2. v \in Nat
    BY <2>1, Constants
  <2> QED
    BY <1>0, <2>1, <2>2, SendShape, AddShapeKeeps
<1>6. ASSUME NEW a \in Accounts, PayHome(a) PROVE ChainInv' /\ ChainGrows
  <2>1. PICK v \in Amounts[Home], to \in (Accounts \cup {Outside}) \ {a} :
            \/ Add("pay", a, TRUE, <<Move1(Home, a, to, v)>>)
            \/ Add("pay", a, TRUE, WithFee(a, <<Move1(Home, a, to, v)>>))
    BY <1>6 DEF PayHome, AddHome
  <2>2. v \in Nat
    BY <2>1, Constants
  <2> QED
    BY <1>0, <2>1, <2>2, PayShape, AddShapeKeeps
<1>7. ASSUME NEW a \in Accounts, PaySwapped(a) PROVE ChainInv' /\ ChainGrows
  <2>1. PICK v \in Amounts[Home], k \in Tokens :
            \/ Add("paySwapped", a, TRUE, <<Move1(Home, a, Dex, v), Move1(k, Dex, Outside, v)>>)
            \/ Add("paySwapped", a, TRUE, WithFee(a, <<Move1(Home, a, Dex, v), Move1(k, Dex, Outside, v)>>))
    BY <1>7 DEF PaySwapped, AddHome
  <2>2. v \in Nat
    BY <2>1, Constants
  <2> QED
    BY <1>0, <2>1, <2>2, PaySwappedShape, AddShapeKeeps
<1>8. ASSUME NEW a \in Accounts, Bridge(a) \/ Arrive(a) PROVE ChainInv' /\ ChainGrows
  <2>1. PICK v \in Amounts[Home] :
            \/ Add("bridge", a, TRUE, <<Move1(Home, a, Cctp, v)>>)
            \/ Add("arrive", a, FALSE, <<Move1(Home, Cctp, a, v)>>)
    BY <1>8 DEF Bridge, Arrive, AddHome
  <2>2. v \in Nat
    BY <2>1, Constants
  <2> QED
    BY <1>0, <2>1, <2>2, OtherChainShape, AddShapeKeeps
<1>9. CASE ChainStep
  <2>1. ASSUME NEW i, IndexStart(i) PROVE UNCHANGED txs
    BY <2>1 DEF IndexStart
  <2> QED
    BY <1>9, <1>1, <1>2, <1>3, <1>4, <1>5, <1>6, <1>7, <1>8, <2>1 DEF ChainStep
<1>10. CASE Tick
  BY <1>10, <1>1 DEF Tick, Load, chainVars
<1>11. CASE Clogs
  BY <1>11, <1>1 DEF Clogs, LoadClogTransfers, LoadStarts, LoadCrossChain, chainVars
<1>12. CASE Restart
  BY <1>12, <1>1 DEF Restart, chainVars
<1>13. CASE UNCHANGED vars
  BY <1>13, <1>1 DEF vars, chainVars
<1> QED
  BY <1>9, <1>10, <1>11, <1>12, <1>13 DEF Next

-----------------------------------------------------------------------------
(* What a log does to the foreign coin indexer *)

\* The states of the foreign coin indexer.
IndexStates ==
    {st \in [inbox : [Accounts \X Tokens -> Nat], pending : [Accounts -> SUBSET Row],
             receiveOf : [Accounts \X (1..MaxTxs) -> Row \cup {None}], unmatched : SUBSET Accounts] :
        \A a \in Accounts : IsFiniteSet(st.pending[a])}

\* A transfer of a foreign token.
ForeignRow(row) == row \in Row /\ row.token \in Tokens

\* The first of some transfers is one of them.
LEMMA FirstIsLeast ==
    ASSUME NEW rows, rows \subseteq Row, rows # {}
    PROVE  First(rows) \in rows
<1> DEFINE T == {r.tx : r \in rows}
<1>1. T \subseteq Nat /\ T # {}
  BY DEF Row
<1>2. PICK n \in T : \A x \in T : n <= x
  BY <1>1, LeastNumber
<1> DEFINE L == {r.log : r \in {s \in rows : s.tx = n}}
<1>3. L \subseteq Nat /\ L # {}
  BY <1>2 DEF Row
<1>4. PICK l \in L : \A x \in L : l <= x
  BY <1>3, LeastNumber
<1>5. PICK m \in rows : m.tx = n /\ m.log = l
  BY <1>4
<1>6. \A t \in rows : t.tx \in Nat /\ t.log \in Nat
  BY DEF Row
<1>7. ASSUME NEW t \in rows PROVE m.tx < t.tx \/ (m.tx = t.tx /\ m.log <= t.log)
  BY <1>2, <1>4, <1>5, <1>6
<1> QED
  BY <1>5, <1>7 DEF First

LEMMA FirstMatching ==
    ASSUME NEW st, NEW a, NEW row, st.pending[a] \subseteq Row, Matching(st, a, row) # {}
    PROVE  First(Matching(st, a, row)) \in Matching(st, a, row)
<1>1. Matching(st, a, row) \subseteq Row
  BY DEF Matching
<1> QED
  BY <1>1, FirstIsLeast

\* What each step of the indexer leaves, part by part.
LEMMA ReceiveParts ==
    ASSUME NEW st \in IndexStates, NEW a \in Accounts, NEW row, ForeignRow(row)
    PROVE  /\ Receive(st, a, row) \in IndexStates
           /\ Receive(st, a, row).inbox = [st.inbox EXCEPT ![<<a, row.token>>] = @ + row.value]
           /\ Receive(st, a, row).pending = [st.pending EXCEPT ![a] = @ \cup {row}]
           /\ Receive(st, a, row).receiveOf = st.receiveOf
           /\ Receive(st, a, row).unmatched = st.unmatched
<1>1. /\ st \in [inbox : [Accounts \X Tokens -> Nat], pending : [Accounts -> SUBSET Row],
             receiveOf : [Accounts \X (1..MaxTxs) -> Row \cup {None}], unmatched : SUBSET Accounts]
      /\ \A b \in Accounts : IsFiniteSet(st.pending[b])
  BY DEF IndexStates
<1>2. row \in Row /\ row.token \in Tokens /\ row.value \in Nat
  BY DEF ForeignRow, Row
<1> DEFINE in == [st.inbox EXCEPT ![<<a, row.token>>] = @ + row.value]
           pe == [st.pending EXCEPT ![a] = @ \cup {row}]
<1>3. Receive(st, a, row) = [st EXCEPT !.inbox = in, !.pending = pe]
  BY <1>1 DEF Receive
<1>4. in \in [Accounts \X Tokens -> Nat]
  BY <1>1, <1>2
<1>5. pe \in [Accounts -> SUBSET Row]
  BY <1>1, <1>2
<1>6. \A b \in Accounts : IsFiniteSet(pe[b])
  <2> SUFFICES ASSUME NEW b \in Accounts PROVE IsFiniteSet(pe[b])
    OBVIOUS
  <2>1. IsFiniteSet(st.pending[b]) /\ IsFiniteSet(st.pending[a] \cup {row})
    BY <1>1, FS_AddElement
  <2> QED
    BY <2>1, <1>1
<1> HIDE DEF in, pe
<1>7. /\ [st EXCEPT !.inbox = in, !.pending = pe].inbox = in
      /\ [st EXCEPT !.inbox = in, !.pending = pe].pending = pe
      /\ [st EXCEPT !.inbox = in, !.pending = pe].receiveOf = st.receiveOf
      /\ [st EXCEPT !.inbox = in, !.pending = pe].unmatched = st.unmatched
  BY <1>1
<1>8. [st EXCEPT !.inbox = in, !.pending = pe] \in IndexStates
  BY <1>1, <1>4, <1>5, <1>6 DEF IndexStates
<1> QED
  BY <1>3, <1>7, <1>8 DEF in, pe

\* A balance after a transfer out.
Left(box, row) == IF box > row.value THEN box - row.value ELSE 0

\* What is left of a token after a bulk swap.
BulkRow(a, row, left) == [row EXCEPT !.from = a, !.to = a, !.value = left]

Leftover(a, row, left) == IF left > 0 THEN {BulkRow(a, row, left)} ELSE {}

LEMMA BulkRowParts ==
    ASSUME NEW a \in Accounts, NEW row \in Row, NEW left \in Nat
    PROVE  /\ BulkRow(a, row, left) \in Row
           /\ BulkRow(a, row, left).tx = row.tx /\ BulkRow(a, row, left).log = row.log
           /\ BulkRow(a, row, left).token = row.token /\ BulkRow(a, row, left).to = a
           /\ BulkRow(a, row, left).value = left
  BY Constants DEF Row, BulkRow

LEMMA BulkParts ==
    ASSUME NEW st \in IndexStates, NEW a \in Accounts, NEW row, ForeignRow(row),
           Matching(st, a, row) = {}, NEW left, left = Left(st.inbox[<<a, row.token>>], row)
    PROVE  /\ SendOut(st, a, row) \in IndexStates
           /\ SendOut(st, a, row).inbox = [st.inbox EXCEPT ![<<a, row.token>>] = left]
           /\ SendOut(st, a, row).pending = [st.pending EXCEPT ![a] = Leftover(a, row, left)]
           /\ SendOut(st, a, row).receiveOf = st.receiveOf
           /\ SendOut(st, a, row).unmatched = st.unmatched \cup {a}
<1>1. /\ st \in [inbox : [Accounts \X Tokens -> Nat], pending : [Accounts -> SUBSET Row],
             receiveOf : [Accounts \X (1..MaxTxs) -> Row \cup {None}], unmatched : SUBSET Accounts]
      /\ \A b \in Accounts : IsFiniteSet(st.pending[b])
  BY DEF IndexStates
<1>2. row \in Row /\ row.token \in Tokens /\ row.value \in Nat
  BY DEF ForeignRow, Row
<1>3. left \in Nat
  <2>1. st.inbox[<<a, row.token>>] \in Nat
    BY <1>1, <1>2
  <2> QED
    BY <1>2, <2>1 DEF Left
<1> DEFINE in == [st.inbox EXCEPT ![<<a, row.token>>] = left]
           pe == [st.pending EXCEPT ![a] = Leftover(a, row, left)]
           un == st.unmatched \cup {a}
<1>4. SendOut(st, a, row) = [st EXCEPT !.inbox = in, !.pending = pe, !.unmatched = un]
  <2>1. SendOut(st, a, row) = BulkSend(st, a, row, left)
    BY DEF SendOut, Left
  <2> QED
    BY <1>1, <2>1 DEF BulkSend, BulkRow, Leftover
<1>5. in \in [Accounts \X Tokens -> Nat]
  BY <1>1, <1>2, <1>3
<1>6. Leftover(a, row, left) \subseteq Row /\ IsFiniteSet(Leftover(a, row, left))
  <2>1. BulkRow(a, row, left) \in Row
    BY <1>2, <1>3, BulkRowParts
  <2>2. IsFiniteSet({}) /\ IsFiniteSet({BulkRow(a, row, left)})
    BY FS_EmptySet, FS_Singleton
  <2> QED
    BY <2>1, <2>2 DEF Leftover
<1>7. pe \in [Accounts -> SUBSET Row] /\ \A b \in Accounts : IsFiniteSet(pe[b])
  BY <1>1, <1>6
<1>8. un \in SUBSET Accounts
  BY <1>1
<1> HIDE DEF in, pe, un
<1>9. /\ [st EXCEPT !.inbox = in, !.pending = pe, !.unmatched = un].inbox = in
      /\ [st EXCEPT !.inbox = in, !.pending = pe, !.unmatched = un].pending = pe
      /\ [st EXCEPT !.inbox = in, !.pending = pe, !.unmatched = un].receiveOf = st.receiveOf
      /\ [st EXCEPT !.inbox = in, !.pending = pe, !.unmatched = un].unmatched = un
  BY <1>1
<1>10. [st EXCEPT !.inbox = in, !.pending = pe, !.unmatched = un] \in IndexStates
  BY <1>1, <1>5, <1>7, <1>8 DEF IndexStates
<1> QED
  BY <1>4, <1>9, <1>10 DEF in, pe, un

LEMMA MatchedParts ==
    ASSUME NEW st \in IndexStates, NEW a \in Accounts, NEW row, ForeignRow(row),
           Matching(st, a, row) # {}, NEW m, m = First(Matching(st, a, row))
    PROVE  /\ SendOut(st, a, row) \in IndexStates
           /\ SendOut(st, a, row).inbox = [st.inbox EXCEPT ![<<a, row.token>>] = Left(@, row)]
           /\ SendOut(st, a, row).pending = [st.pending EXCEPT ![a] = {t \in @ : t.tx # m.tx}]
           /\ SendOut(st, a, row).receiveOf = [st.receiveOf EXCEPT ![<<a, row.tx>>] = m]
           /\ SendOut(st, a, row).unmatched = st.unmatched
           /\ m \in st.pending[a] /\ m.token = row.token /\ m.value = row.value
<1>1. /\ st \in [inbox : [Accounts \X Tokens -> Nat], pending : [Accounts -> SUBSET Row],
             receiveOf : [Accounts \X (1..MaxTxs) -> Row \cup {None}], unmatched : SUBSET Accounts]
      /\ \A b \in Accounts : IsFiniteSet(st.pending[b])
  BY DEF IndexStates
<1>2. row \in Row /\ row.token \in Tokens /\ row.value \in Nat /\ row.tx \in 1..MaxTxs
  BY DEF ForeignRow, Row
<1>3. m \in st.pending[a] /\ m.token = row.token /\ m.value = row.value /\ m \in Row
  <2>1. st.pending[a] \subseteq Row
    BY <1>1
  <2>2. m \in Matching(st, a, row)
    BY <2>1, FirstMatching
  <2> QED
    BY <2>1, <2>2 DEF Matching
<1> DEFINE in == [st.inbox EXCEPT ![<<a, row.token>>] = Left(@, row)]
           pe == [st.pending EXCEPT ![a] = {t \in @ : t.tx # m.tx}]
           re == [st.receiveOf EXCEPT ![<<a, row.tx>>] = m]
<1>4. SendOut(st, a, row) = [st EXCEPT !.inbox = in, !.receiveOf = re, !.pending = pe]
  <2>1. SendOut(st, a, row) = MatchedSend(st, a, row, m)
    BY DEF SendOut
  <2> QED
    BY <1>1, <2>1 DEF MatchedSend, StillPending, Left
<1>5. in \in [Accounts \X Tokens -> Nat]
  <2>1. Left(st.inbox[<<a, row.token>>], row) \in Nat
    <3>1. st.inbox[<<a, row.token>>] \in Nat
      BY <1>1, <1>2
    <3> QED
      BY <1>2, <3>1 DEF Left
  <2> QED
    BY <1>1, <1>2, <2>1
<1>6. {t \in st.pending[a] : t.tx # m.tx} \subseteq Row /\ IsFiniteSet({t \in st.pending[a] : t.tx # m.tx})
  BY <1>1, FS_Subset
<1>7. pe \in [Accounts -> SUBSET Row] /\ \A b \in Accounts : IsFiniteSet(pe[b])
  BY <1>1, <1>6
<1>8. re \in [Accounts \X (1..MaxTxs) -> Row \cup {None}]
  BY <1>1, <1>2, <1>3
<1> HIDE DEF in, pe, re
<1>9. /\ [st EXCEPT !.inbox = in, !.receiveOf = re, !.pending = pe].inbox = in
      /\ [st EXCEPT !.inbox = in, !.receiveOf = re, !.pending = pe].pending = pe
      /\ [st EXCEPT !.inbox = in, !.receiveOf = re, !.pending = pe].receiveOf = re
      /\ [st EXCEPT !.inbox = in, !.receiveOf = re, !.pending = pe].unmatched = st.unmatched
  BY <1>1
<1>10. [st EXCEPT !.inbox = in, !.receiveOf = re, !.pending = pe] \in IndexStates
  BY <1>1, <1>5, <1>7, <1>8 DEF IndexStates
<1> QED
  BY <1>3, <1>4, <1>9, <1>10 DEF in, pe, re

\* A transfer of a foreign token leaves a state of the indexer.
LEMMA ProcessType ==
    ASSUME NEW st \in IndexStates, NEW row, ForeignRow(row), NEW named, named \subseteq Accounts
    PROVE  Process(st, row, named) \in IndexStates
<1>1. PICK mid : mid = IF row.to \in named THEN Receive(st, row.to, row) ELSE st
  OBVIOUS
<1>2. mid \in IndexStates
  BY <1>1, ReceiveParts
<1>3. row.from \in Accounts => SendOut(mid, row.from, row) \in IndexStates
  BY <1>2, BulkParts, MatchedParts
<1> QED
  BY <1>1, <1>2, <1>3 DEF Process

-----------------------------------------------------------------------------
(* The logs of a block, and the blocks of a load *)

\* The k-th transfer of block i, and how many there are.
BlockRow(i, k) == LogOf(i, k, txs[i].moves[k])

Size(i) == Len(txs[i].moves)

\* What the invariant says of a transaction.
LEMMA TxParts ==
    ASSUME ChainInv, NEW i \in 1..Len(txs)
    PROVE  /\ i \in Nat /\ i \in 1..MaxTxs /\ txs[i] \in Tx /\ txs[i].moves \in Seq(Move)
           /\ Size(i) \in Nat /\ DOMAIN txs[i].moves = 1..Size(i)
           /\ txs[i].acct \in Accounts /\ txs[i].kind \in Kinds /\ txs[i].op \in BOOLEAN
           /\ txs[i].held \in [Accounts \X Coins -> Nat]
           /\ Shape(txs[i]) /\ Balanced(i)
<1>1. i \in Nat /\ i \in 1..MaxTxs
  BY Constants DEF ChainInv
<1>2. txs[i] \in Tx
  BY ElementOfSeq DEF ChainInv
<1>3. /\ txs[i].moves \in Seq(Move) /\ txs[i].acct \in Accounts /\ txs[i].kind \in Kinds /\ txs[i].op \in BOOLEAN
      /\ txs[i].held \in [Accounts \X Coins -> Nat]
  BY <1>2 DEF Tx
<1>4. Size(i) \in Nat /\ DOMAIN txs[i].moves = 1..Size(i)
  BY <1>3, LenProperties DEF Size
<1> QED
  BY <1>1, <1>2, <1>3, <1>4 DEF ChainInv

LEMMA BlockRowParts ==
    ASSUME ChainInv, NEW i \in 1..Len(txs), NEW k \in 1..Size(i)
    PROVE  LET r == BlockRow(i, k)
               m == txs[i].moves[k]
           IN  /\ r \in RowsOf(i) /\ r \in Row /\ r.tx = i /\ r.log = k
               /\ r.token = m.token /\ r.from = m.from /\ r.to = m.to /\ r.value = m.value
<1>1. i \in Nat /\ i \in 1..MaxTxs /\ txs[i].moves \in Seq(Move) /\ DOMAIN txs[i].moves = 1..Size(i)
  BY TxParts
<1>2. BlockRow(i, k) \in RowsOf(i)
  BY <1>1 DEF RowsOf, LogsOf, BlockRow
<1>3. RowsOf(i) \subseteq Row
  BY <1>1, LogsOfMoves DEF RowsOf
<1> QED
  BY <1>2, <1>3 DEF BlockRow, LogOf

LEMMA RowsOfParts ==
    ASSUME ChainInv, NEW i \in 1..Len(txs)
    PROVE  /\ AreRows(RowsOf(i)) /\ RowsOf(i) \subseteq Row
           /\ \A r \in RowsOf(i) :
                 /\ r.tx = i /\ r.log \in 1..Size(i) /\ r = BlockRow(i, r.log)
                 /\ r.token = txs[i].moves[r.log].token /\ r.from = txs[i].moves[r.log].from
                 /\ r.to = txs[i].moves[r.log].to /\ r.value = txs[i].moves[r.log].value
                 /\ r.token \in Coins /\ r.from \in Addresses /\ r.to \in Addresses /\ r.value \in Nat
<1>1. i \in Nat /\ i \in 1..MaxTxs /\ txs[i].moves \in Seq(Move)
  BY TxParts
<1> QED
  BY <1>1, LogsOfMoves DEF RowsOf, BlockRow, Size

\* The states of the indexer along the logs of a block.
IsBlockRun(S, st, i, named) ==
    /\ S \in [0..Size(i) -> IndexStates] /\ S[0] = st
    /\ \A k \in 1..Size(i) :
          S[k] = IF BlockRow(i, k).token \in Tokens THEN Process(S[k - 1], BlockRow(i, k), named) ELSE S[k - 1]

\* The recursion over the logs of a block has a solution, and ProcessBlock is its end.
LEMMA BlockRun ==
    ASSUME ChainInv, NEW i \in 1..Len(txs), NEW st \in IndexStates, NEW named, named \subseteq Accounts
    PROVE  \E S : IsBlockRun(S, st, i, named) /\ ProcessBlock(st, i, named) = S[Size(i)]
<1>1. PICK n \in Nat : n = Size(i)
  BY TxParts
<1> DEFINE E(S) == S = [k \in 0..n |->
                IF k = 0 THEN st
                ELSE IF BlockRow(i, k).token \in Tokens THEN Process(S[k - 1], BlockRow(i, k), named) ELSE S[k - 1]]
           step == [p \in Nat \X IndexStates |->
                IF p[1] + 1 \in 1..n /\ BlockRow(i, p[1] + 1).token \in Tokens
                THEN Process(p[2], BlockRow(i, p[1] + 1), named) ELSE p[2]]
<1>2. ASSUME NEW k \in 1..n, BlockRow(i, k).token \in Tokens, NEW s \in IndexStates
      PROVE  Process(s, BlockRow(i, k), named) \in IndexStates
  <2>1. ForeignRow(BlockRow(i, k))
    BY <1>1, <1>2, BlockRowParts DEF ForeignRow
  <2> QED
    BY <2>1, ProcessType
<1>3. IsStep(IndexStates, st, step)
  <2>1. ASSUME NEW p \in Nat \X IndexStates PROVE step[p] \in IndexStates
    <3>1. p[2] \in IndexStates /\ p[1] \in Nat
      OBVIOUS
    <3> QED
      BY <3>1, <1>2
  <2>2. step \in [Nat \X IndexStates -> IndexStates]
    BY <2>1
  <2> QED
    BY <2>2 DEF IsStep
<1>4. PICK S : IsRunUpto(S, IndexStates, st, step, n)
  <2> HIDE DEF step
  <2> QED
    BY <1>1, <1>3, RunUpto
<1>5. S \in [0..n -> IndexStates] /\ \A k \in 0..n : S[k] = IF k = 0 THEN st ELSE step[<<k - 1, S[k - 1]>>]
  BY <1>4 DEF IsRunUpto
<1>6. ASSUME NEW k \in 0..n
      PROVE  S[k] = IF k = 0 THEN st
                    ELSE IF BlockRow(i, k).token \in Tokens THEN Process(S[k - 1], BlockRow(i, k), named) ELSE S[k - 1]
  <2>1. CASE k = 0
    BY <2>1, <1>5
  <2>2. CASE k # 0
    <3>1. k - 1 \in 0..n /\ k - 1 \in Nat /\ (k - 1) + 1 = k /\ k \in 1..n
      BY <2>2, <1>1
    <3>2. S[k - 1] \in IndexStates /\ S[k] = step[<<k - 1, S[k - 1]>>]
      BY <3>1, <2>2, <1>5
    <3>3. <<k - 1, S[k - 1]>> \in Nat \X IndexStates
      BY <3>1, <3>2
    <3> QED
      BY <2>2, <3>1, <3>2, <3>3
  <2> QED
    BY <2>1, <2>2
<1>7. E(S)
  <2>1. S = [k \in 0..n |-> S[k]]
    BY <1>5
  <2> HIDE DEF step
  <2> QED
    BY <2>1, <1>6, Zenon
<1> DEFINE T == CHOOSE f : E(f)
<1>8. E(T)
  BY <1>7, Zenon
<1>9. ProcessBlock(st, i, named) = T[n]
  BY <1>1, Zenon DEF ProcessBlock, BlockRow, Size
<1> HIDE DEF T
<1>10. /\ T = [k \in 0..n |-> T[k]]
       /\ \A k \in 0..n : T[k] =
              IF k = 0 THEN st
              ELSE IF BlockRow(i, k).token \in Tokens THEN Process(T[k - 1], BlockRow(i, k), named) ELSE T[k - 1]
  <2>1. T = [k \in 0..n |->
                IF k = 0 THEN st
                ELSE IF BlockRow(i, k).token \in Tokens THEN Process(T[k - 1], BlockRow(i, k), named) ELSE T[k - 1]]
    BY <1>8
  <2> QED
    BY <2>1
<1> DEFINE G == {k \in Nat : k <= n => T[k] \in IndexStates}
<1>11. 0 \in G
  BY <1>10
<1>12. ASSUME NEW k \in Nat, k \in G PROVE k + 1 \in G
  <2> SUFFICES ASSUME k + 1 <= n PROVE T[k + 1] \in IndexStates
    OBVIOUS
  <2>1. k + 1 \in 1..n /\ k + 1 \in 0..n /\ (k + 1) - 1 = k /\ k + 1 # 0 /\ k <= n
    OBVIOUS
  <2>2. T[k + 1] = IF BlockRow(i, k + 1).token \in Tokens THEN Process(T[k], BlockRow(i, k + 1), named) ELSE T[k]
    BY <1>10, <2>1
  <2>3. T[k] \in IndexStates
    BY <1>12, <2>1
  <2> QED
    BY <1>2, <2>1, <2>2, <2>3
<1>13. \A k \in 0..n : T[k] \in IndexStates
  <2>1. Nat \subseteq G
    <3> HIDE DEF G
    <3> QED
      BY <1>11, <1>12, Induction
  <2> QED
    BY <2>1
<1>14. IsBlockRun(T, st, i, named)
  <2>1. T \in [0..n -> IndexStates]
    BY <1>10, <1>13
  <2>2. T[0] = st
    BY <1>10
  <2>3. ASSUME NEW k \in 1..n
        PROVE  T[k] = IF BlockRow(i, k).token \in Tokens THEN Process(T[k - 1], BlockRow(i, k), named) ELSE T[k - 1]
    <3>1. k \in 0..n /\ k # 0
      OBVIOUS
    <3> QED
      BY <1>10, <3>1
  <2> QED
    BY <1>1, <2>1, <2>2, <2>3 DEF IsBlockRun
<1> QED
  BY <1>1, <1>9, <1>14

LEMMA BlockType ==
    ASSUME ChainInv, NEW i \in 1..Len(txs), NEW st \in IndexStates, NEW named, named \subseteq Accounts
    PROVE  ProcessBlock(st, i, named) \in IndexStates
<1>1. PICK S : IsBlockRun(S, st, i, named) /\ ProcessBlock(st, i, named) = S[Size(i)]
  BY BlockRun
<1>2. Size(i) \in Nat
  BY TxParts
<1> QED
  BY <1>1, <1>2 DEF IsBlockRun

LEMMA NamedParts ==
    ASSUME ChainInv, NEW n \in Nat, n <= Len(txs)
    PROVE  Named(n) \subseteq Accounts /\ \A i \in 0..n : Named(i) \subseteq Named(n)
<1>1. \A i \in 1..n : txs[i].acct \in Accounts
  BY TxParts
<1> QED
  BY <1>1 DEF Named

\* The states of the indexer along the blocks of a load.
IsLoadRun(S, n) ==
    /\ S \in [0..n -> IndexStates]
    /\ \A i \in 0..n : S[i] = IF i <= tip THEN Now ELSE ProcessBlock(S[i - 1], i, Named(n))

\* The recursion over the blocks of a load has a solution.
LEMMA LoadRun ==
    ASSUME ChainInv, Now \in IndexStates, tip \in Nat, NEW n \in Nat, n <= Len(txs)
    PROVE  \E S : IsLoadRun(S, n) /\ Loaded(n)[n] = S[n]
<1> DEFINE E(S) == S = [i \in 0..n |-> IF i <= tip THEN Now ELSE ProcessBlock(S[i - 1], i, Named(n))]
           step == [p \in Nat \X IndexStates |->
                IF p[1] + 1 > tip /\ p[1] + 1 <= n THEN ProcessBlock(p[2], p[1] + 1, Named(n)) ELSE Now]
<1>1. PICK now : now = Now
  OBVIOUS
<1>2. ASSUME NEW i \in 1..n, NEW s \in IndexStates PROVE ProcessBlock(s, i, Named(n)) \in IndexStates
  <2>1. Len(txs) \in Nat /\ i \in 1..Len(txs)
    BY Constants DEF ChainInv
  <2> QED
    BY <2>1, NamedParts, BlockType
<1>3. IsStep(IndexStates, now, step)
  <2>1. ASSUME NEW p \in Nat \X IndexStates PROVE step[p] \in IndexStates
    <3>1. p[2] \in IndexStates /\ p[1] \in Nat
      OBVIOUS
    <3> QED
      BY <3>1, <1>2
  <2>2. step \in [Nat \X IndexStates -> IndexStates]
    BY <2>1
  <2> QED
    BY <2>2, <1>1 DEF IsStep
<1>4. PICK S : IsRunUpto(S, IndexStates, now, step, n)
  <2> HIDE DEF step
  <2> QED
    BY <1>3, RunUpto
<1>5. S \in [0..n -> IndexStates] /\ \A k \in 0..n : S[k] = IF k = 0 THEN now ELSE step[<<k - 1, S[k - 1]>>]
  BY <1>4 DEF IsRunUpto
<1>6. ASSUME NEW i \in 0..n
      PROVE  S[i] = IF i <= tip THEN Now ELSE ProcessBlock(S[i - 1], i, Named(n))
  <2>1. CASE i = 0
    <3>1. 0 <= tip /\ S[0] = now
      <4> HIDE DEF step
      <4> QED
        BY <1>5
    <3> QED
      BY <2>1, <3>1, <1>1
  <2>2. CASE i # 0
    <3>1. i - 1 \in 0..n /\ i - 1 \in Nat /\ (i - 1) + 1 = i /\ i \in 1..n
      BY <2>2
    <3>2. S[i - 1] \in IndexStates /\ S[i] = step[<<i - 1, S[i - 1]>>]
      BY <3>1, <2>2, <1>5
    <3>3. <<i - 1, S[i - 1]>> \in Nat \X IndexStates
      BY <3>1, <3>2
    <3> QED
      BY <2>2, <3>1, <3>2, <3>3
  <2> QED
    BY <2>1, <2>2
<1>7. E(S)
  <2>1. S = [k \in 0..n |-> S[k]]
    BY <1>5
  <2> HIDE DEF step
  <2> QED
    BY <2>1, <1>6, Zenon
<1> DEFINE T == CHOOSE f : E(f)
<1>8. E(T)
  BY <1>7, Zenon
<1>9. Loaded(n) = T
  BY Zenon DEF Loaded
<1> HIDE DEF T
<1>10. /\ T = [i \in 0..n |-> T[i]]
       /\ \A i \in 0..n : T[i] = IF i <= tip THEN Now ELSE ProcessBlock(T[i - 1], i, Named(n))
  <2>1. T = [i \in 0..n |-> IF i <= tip THEN Now ELSE ProcessBlock(T[i - 1], i, Named(n))]
    BY <1>8
  <2> QED
    BY <2>1
<1> DEFINE G == {i \in Nat : i <= n => T[i] \in IndexStates}
<1>11. 0 \in G
  BY <1>10
<1>12. ASSUME NEW i \in Nat, i \in G PROVE i + 1 \in G
  <2> SUFFICES ASSUME i + 1 <= n PROVE T[i + 1] \in IndexStates
    OBVIOUS
  <2>1. i + 1 \in 1..n /\ i + 1 \in 0..n /\ (i + 1) - 1 = i /\ i <= n
    OBVIOUS
  <2>2. T[i + 1] = IF i + 1 <= tip THEN Now ELSE ProcessBlock(T[i], i + 1, Named(n))
    BY <1>10, <2>1
  <2>3. T[i] \in IndexStates
    BY <1>12, <2>1
  <2> QED
    BY <1>2, <2>1, <2>2, <2>3
<1>13. \A i \in 0..n : T[i] \in IndexStates
  <2>1. Nat \subseteq G
    <3> HIDE DEF G
    <3> QED
      BY <1>11, <1>12, Induction
  <2> QED
    BY <2>1
<1>14. IsLoadRun(T, n)
  <2>1. T \in [0..n -> IndexStates]
    BY <1>10, <1>13
  <2> QED
    BY <1>10, <2>1 DEF IsLoadRun
<1> QED
  BY <1>9, <1>14

-----------------------------------------------------------------------------
(* What is held in the middle of a block *)

\* The first j logs of block i, and what an account holds after them.
Part(i, j) == {r \in RowsOf(i) : r.log <= j}

InAt(a, k, i, j) == SumOf(InOf(Part(i, j), a, k))

OutAt(a, k, i, j) == SumOf(OutOf(Part(i, j), a, k))

HeldAt(a, k, i, j) == HeldAfter(a, k, i - 1) + InAt(a, k, i, j) - OutAt(a, k, i, j)

LEMMA HeldAfterType ==
    ASSUME ChainInv, NEW i \in 0..Len(txs), NEW a \in Accounts, NEW k \in Coins
    PROVE  HeldAfter(a, k, i) \in Nat
<1>1. CASE i = 0
  BY <1>1 DEF HeldAfter
<1>2. CASE i # 0
  <2>1. i \in 1..Len(txs)
    BY <1>2
  <2>2. txs[i].held \in [Accounts \X Coins -> Nat]
    BY <2>1, TxParts
  <2> QED
    BY <1>2, <2>2 DEF HeldAfter, Held
<1> QED
  BY <1>1, <1>2

\* The next log is added to the sums.
LEMMA PartStep ==
    ASSUME ChainInv, NEW i \in 1..Len(txs), NEW j \in Nat, j + 1 \in 1..Size(i),
           NEW row, row = BlockRow(i, j + 1), NEW a, NEW k
    PROVE  /\ Part(i, j + 1) = Part(i, j) \cup {row} /\ row \notin Part(i, j)
           /\ InAt(a, k, i, j) \in Nat /\ OutAt(a, k, i, j) \in Nat
           /\ InAt(a, k, i, j + 1) = InAt(a, k, i, j) + (IF row.token = k /\ row.to = a THEN row.value ELSE 0)
           /\ OutAt(a, k, i, j + 1) = OutAt(a, k, i, j) + (IF row.token = k /\ row.from = a THEN row.value ELSE 0)
<1>1. row \in RowsOf(i) /\ row.log = j + 1 /\ row.value \in Nat
  BY BlockRowParts DEF Row
<1>2. /\ AreRows(RowsOf(i))
      /\ \A r \in RowsOf(i) : r.log \in Nat /\ r = BlockRow(i, r.log)
  BY RowsOfParts, TxParts
<1>3. Part(i, j + 1) = Part(i, j) \cup {row} /\ row \notin Part(i, j)
  <2>1. ASSUME NEW r \in RowsOf(i), r.log <= j + 1 PROVE r.log <= j \/ r = row
    <3>1. CASE r.log = j + 1
      BY <3>1, <1>2
    <3> QED
      BY <3>1, <2>1, <1>2
  <2>2. \A r \in RowsOf(i) : r.log <= j => r.log <= j + 1
    BY <1>2
  <2> QED
    BY <1>1, <2>1, <2>2 DEF Part
<1>4. AreRows(Part(i, j))
  BY <1>2, SomeRows DEF Part
<1>5. /\ AreRows(InOf(Part(i, j), a, k)) /\ AreRows(OutOf(Part(i, j), a, k))
      /\ InAt(a, k, i, j) \in Nat /\ OutAt(a, k, i, j) \in Nat
  BY <1>4, InOutRows DEF InAt, OutAt
<1>6. InAt(a, k, i, j + 1) = InAt(a, k, i, j) + (IF row.token = k /\ row.to = a THEN row.value ELSE 0)
  <2>1. CASE row.token = k /\ row.to = a
    <3>1. InOf(Part(i, j + 1), a, k) = InOf(Part(i, j), a, k) \cup {row} /\ row \notin InOf(Part(i, j), a, k)
      BY <2>1, <1>3 DEF InOf
    <3> QED
      BY <2>1, <3>1, <1>1, <1>5, SumWithOne DEF InAt
  <2>2. CASE ~(row.token = k /\ row.to = a)
    <3>1. InOf(Part(i, j + 1), a, k) = InOf(Part(i, j), a, k)
      BY <2>2, <1>3 DEF InOf
    <3> QED
      BY <2>2, <3>1, <1>5 DEF InAt
  <2> QED
    BY <2>1, <2>2
<1>7. OutAt(a, k, i, j + 1) = OutAt(a, k, i, j) + (IF row.token = k /\ row.from = a THEN row.value ELSE 0)
  <2>1. CASE row.token = k /\ row.from = a
    <3>1. OutOf(Part(i, j + 1), a, k) = OutOf(Part(i, j), a, k) \cup {row} /\ row \notin OutOf(Part(i, j), a, k)
      BY <2>1, <1>3 DEF OutOf
    <3> QED
      BY <2>1, <3>1, <1>1, <1>5, SumWithOne DEF OutAt
  <2>2. CASE ~(row.token = k /\ row.from = a)
    <3>1. OutOf(Part(i, j + 1), a, k) = OutOf(Part(i, j), a, k)
      BY <2>2, <1>3 DEF OutOf
    <3> QED
      BY <2>2, <3>1, <1>5 DEF OutAt
  <2> QED
    BY <2>1, <2>2
<1> QED
  BY <1>3, <1>5, <1>6, <1>7

\* The logs of a block lead from what is held before it to what is held after it.
LEMMA PartEnds ==
    ASSUME ChainInv, NEW i \in 1..Len(txs), NEW a \in Accounts, NEW k \in Coins
    PROVE  /\ HeldAt(a, k, i, 0) = HeldAfter(a, k, i - 1)
           /\ HeldAt(a, k, i, Size(i)) = HeldAfter(a, k, i)
           /\ Part(i, Size(i)) = RowsOf(i) /\ Part(i, 0) = {}
<1>1. /\ AreRows(RowsOf(i)) /\ Size(i) \in Nat
      /\ \A r \in RowsOf(i) : r.log \in 1..Size(i)
  BY RowsOfParts, TxParts
<1>2. Part(i, 0) = {} /\ Part(i, Size(i)) = RowsOf(i)
  BY <1>1 DEF Part
<1>3. InOf({}, a, k) = {} /\ OutOf({}, a, k) = {}
  BY DEF InOf, OutOf
<1>4. InAt(a, k, i, 0) = 0 /\ OutAt(a, k, i, 0) = 0
  BY <1>2, <1>3, SumOfNone DEF InAt, OutAt
<1>5. i \in Nat /\ i # 0 /\ i - 1 \in 0..Len(txs) /\ Len(txs) \in Nat
  BY TxParts, Constants DEF ChainInv
<1>6. HeldAfter(a, k, i - 1) \in Nat
  BY <1>5, HeldAfterType
<1>7. HeldAt(a, k, i, 0) = HeldAfter(a, k, i - 1)
  BY <1>4, <1>6 DEF HeldAt
<1>8. HeldAt(a, k, i, Size(i)) = HeldAfter(a, k, i)
  <2>1. Balanced(i)
    BY TxParts
  <2>2. HeldAfter(a, k, i) = Held(a, k, i)
    BY <1>5 DEF HeldAfter
  <2> QED
    BY <2>1, <2>2, <1>2 DEF Balanced, HeldAt, InAt, OutAt
<1> QED
  BY <1>2, <1>7, <1>8

\* At no log does an account hold less than nothing.
LEMMA HeldStep ==
    ASSUME ChainInv, NEW i \in 1..Len(txs), NEW j \in Nat, j + 1 \in 1..Size(i),
           NEW row, row = BlockRow(i, j + 1), NEW a \in Accounts, NEW k \in Coins
    PROVE  /\ HeldAt(a, k, i, j) \in Nat /\ HeldAt(a, k, i, j + 1) \in Nat
           /\ (row.token # k \/ a \notin {row.from, row.to}) => HeldAt(a, k, i, j + 1) = HeldAt(a, k, i, j)
           /\ row.token = k /\ row.to = a /\ row.from # a =>
                HeldAt(a, k, i, j + 1) = HeldAt(a, k, i, j) + row.value
           /\ row.token = k /\ row.from = a /\ row.to # a =>
                HeldAt(a, k, i, j + 1) = HeldAt(a, k, i, j) - row.value /\ row.value <= HeldAt(a, k, i, j)
<1>1. /\ InAt(a, k, i, j) \in Nat /\ OutAt(a, k, i, j) \in Nat
      /\ InAt(a, k, i, j + 1) = InAt(a, k, i, j) + (IF row.token = k /\ row.to = a THEN row.value ELSE 0)
      /\ OutAt(a, k, i, j + 1) = OutAt(a, k, i, j) + (IF row.token = k /\ row.from = a THEN row.value ELSE 0)
  BY PartStep
<1>2. row.value \in Nat
  BY BlockRowParts DEF Row
<1>3. HeldAfter(a, k, i - 1) \in Nat
  <2>1. i - 1 \in 0..Len(txs)
    BY TxParts, Constants DEF ChainInv
  <2> QED
    BY <2>1, HeldAfterType
<1>4. OutAt(a, k, i, j + 1) <= HeldAfter(a, k, i - 1)
  <2>1. AreRows(RowsOf(i))
    BY RowsOfParts
  <2>2. AreRows(OutOf(RowsOf(i), a, k))
    BY <2>1, InOutRows
  <2>3. OutOf(Part(i, j + 1), a, k) \subseteq OutOf(RowsOf(i), a, k)
    BY DEF Part, OutOf
  <2>4. OutAt(a, k, i, j + 1) <= SumOf(OutOf(RowsOf(i), a, k)) /\ OutAt(a, k, i, j + 1) \in Nat
        /\ SumOf(OutOf(RowsOf(i), a, k)) \in Nat
    BY <2>2, <2>3, SumOfPart DEF OutAt
  <2>5. SumOf(OutOf(RowsOf(i), a, k)) <= HeldAfter(a, k, i - 1)
    BY TxParts DEF Balanced
  <2> QED
    BY <2>4, <2>5, <1>3
<1>5. /\ HeldAt(a, k, i, j) = HeldAfter(a, k, i - 1) + InAt(a, k, i, j) - OutAt(a, k, i, j)
      /\ HeldAt(a, k, i, j + 1) = HeldAfter(a, k, i - 1) + InAt(a, k, i, j + 1) - OutAt(a, k, i, j + 1)
  BY DEF HeldAt
<1>6. CASE row.token # k \/ a \notin {row.from, row.to}
  BY <1>1, <1>3, <1>4, <1>5, <1>6
<1> DEFINE h == HeldAfter(a, k, i - 1)
           x == InAt(a, k, i, j)
           y == OutAt(a, k, i, j)
           v == row.value
<1>7. CASE row.token = k /\ row.to = a /\ row.from # a
  <2>1. InAt(a, k, i, j + 1) = x + v /\ OutAt(a, k, i, j + 1) = y
    BY <1>1, <1>2, <1>7
  <2>2. HeldAt(a, k, i, j) = h + x - y /\ HeldAt(a, k, i, j + 1) = h + (x + v) - y /\ y <= h
    BY <2>1, <1>4, <1>5
  <2>3. h \in Nat /\ x \in Nat /\ y \in Nat /\ v \in Nat
    BY <1>1, <1>2, <1>3
  <2> HIDE DEF h, x, y, v
  <2>4. HeldAt(a, k, i, j) \in Nat /\ HeldAt(a, k, i, j + 1) = HeldAt(a, k, i, j) + v
    BY <2>2, <2>3
  <2> QED
    BY <2>3, <2>4, <1>7 DEF v
<1>8. CASE row.token = k /\ row.from = a /\ row.to # a
  <2>1. InAt(a, k, i, j + 1) = x /\ OutAt(a, k, i, j + 1) = y + v
    BY <1>1, <1>2, <1>8
  <2>2. HeldAt(a, k, i, j) = h + x - y /\ HeldAt(a, k, i, j + 1) = h + x - (y + v) /\ y + v <= h
    BY <2>1, <1>4, <1>5
  <2>3. h \in Nat /\ x \in Nat /\ y \in Nat /\ v \in Nat
    BY <1>1, <1>2, <1>3
  <2> HIDE DEF h, x, y, v
  <2>4. HeldAt(a, k, i, j) \in Nat /\ HeldAt(a, k, i, j + 1) \in Nat
        /\ HeldAt(a, k, i, j + 1) = HeldAt(a, k, i, j) - v /\ v <= HeldAt(a, k, i, j)
    BY <2>2, <2>3
  <2> QED
    BY <2>3, <2>4, <1>8 DEF v
<1>9. CASE row.token = k /\ row.from = a /\ row.to = a
  <2>1. InAt(a, k, i, j + 1) = x + v /\ OutAt(a, k, i, j + 1) = y + v
    BY <1>1, <1>2, <1>9
  <2>2. HeldAt(a, k, i, j) = h + x - y /\ HeldAt(a, k, i, j + 1) = h + (x + v) - (y + v) /\ y + v <= h
    BY <2>1, <1>4, <1>5
  <2>3. h \in Nat /\ x \in Nat /\ y \in Nat /\ v \in Nat
    BY <1>1, <1>2, <1>3
  <2> HIDE DEF h, x, y, v
  <2>4. HeldAt(a, k, i, j) \in Nat /\ HeldAt(a, k, i, j + 1) \in Nat
    BY <2>2, <2>3
  <2> QED
    BY <2>4, <1>9
<1> QED
  BY <1>6, <1>7, <1>8, <1>9

-----------------------------------------------------------------------------
(* What is pending *)

\* The sum of the pending receipts of a token.
PendSum(pend, k) == SumOf({r \in pend : r.token = k})

LEMMA PendSumParts ==
    ASSUME NEW pend, AreRows(pend), NEW k
    PROVE  /\ PendSum(pend, k) \in Nat
           /\ \A S : S \subseteq pend => PendSum(S, k) <= PendSum(pend, k) /\ PendSum(S, k) \in Nat
<1>1. {r \in pend : r.token = k} \subseteq pend
  OBVIOUS
<1>2. AreRows({r \in pend : r.token = k})
  BY <1>1, SomeRows
<1>3. ASSUME NEW S, S \subseteq pend PROVE PendSum(S, k) <= PendSum(pend, k) /\ PendSum(S, k) \in Nat
  <2>1. {r \in S : r.token = k} \subseteq {r \in pend : r.token = k}
    BY <1>3
  <2> QED
    BY <2>1, <1>2, SumOfPart DEF PendSum
<1> QED
  BY <1>2, <1>3, SumType DEF PendSum

LEMMA PendSumNone == \A k : PendSum({}, k) = 0
<1> SUFFICES ASSUME NEW k PROVE PendSum({}, k) = 0
  OBVIOUS
<1>1. {r \in {} : r.token = k} = {}
  OBVIOUS
<1> QED
  BY <1>1, SumOfNone DEF PendSum

\* What a transfer adds to the sum of a token.
Counted(row, k) == IF row.token = k THEN row.value ELSE 0

LEMMA PendSumAdd ==
    ASSUME NEW pend, AreRows(pend), NEW row, row.value \in Nat, row \notin pend, NEW k
    PROVE  /\ AreRows(pend \cup {row})
           /\ PendSum(pend \cup {row}, k) = PendSum(pend, k) + Counted(row, k)
<1> DEFINE S == {r \in pend : r.token = k}
<1>1. AreRows(S) /\ row \notin S
  BY SomeRows
<1>2. AreRows(pend \cup {row})
  BY SumWithOne
<1>3. CASE row.token = k
  <2>1. {r \in pend \cup {row} : r.token = k} = S \cup {row}
    BY <1>3
  <2> QED
    BY <2>1, <1>1, <1>2, <1>3, SumWithOne DEF PendSum, Counted
<1>4. CASE row.token # k
  <2>1. {r \in pend \cup {row} : r.token = k} = S
    BY <1>4
  <2>2. SumOf(S) \in Nat
    BY <1>1, SumType
  <2> QED
    <3>1. PendSum(pend \cup {row}, k) = SumOf(S) /\ PendSum(pend, k) = SumOf(S)
      BY <2>1, Zenon DEF PendSum, Counted
    <3> HIDE DEF S
    <3> QED
      BY <3>1, <2>2, <1>2, <1>4 DEF Counted
<1> QED
  BY <1>3, <1>4

LEMMA PendSumWithout ==
    ASSUME NEW pend, AreRows(pend), NEW m \in pend, NEW S, S \subseteq pend, m \notin S, NEW k
    PROVE  /\ AreRows(S) /\ PendSum(S, k) \in Nat /\ PendSum(pend, k) \in Nat
           /\ PendSum(S, k) + Counted(m, k) <= PendSum(pend, k)
           /\ S = pend \ {m} => PendSum(S, k) + Counted(m, k) = PendSum(pend, k)
<1> DEFINE T == pend \ {m}
<1>1. m.value \in Nat /\ AreRows(T) /\ m \notin T /\ S \subseteq T /\ AreRows(S)
  BY SomeRows DEF AreRows
<1>2. T \cup {m} = pend
  OBVIOUS
<1>3. PendSum(T \cup {m}, k) = PendSum(T, k) + Counted(m, k)
  <2> HIDE DEF T
  <2> QED
    BY <1>1, PendSumAdd
<1>4. PendSum(S, k) <= PendSum(T, k) /\ PendSum(S, k) \in Nat /\ PendSum(T, k) \in Nat /\ PendSum(pend, k) \in Nat
  <2> HIDE DEF T
  <2> QED
    BY <1>1, PendSumParts
<1> HIDE DEF T
<1>5. PendSum(pend, k) = PendSum(T, k) + Counted(m, k)
  BY <1>2, <1>3
<1> QED
  BY <1>1, <1>4, <1>5 DEF T, Counted

-----------------------------------------------------------------------------
(* The indexer fits the chain, account by account *)

\* Account a takes part in the transfer of a token among the first j logs of block i.
Touched(a, i, j) == \E r \in Part(i, j) : r.token \in Tokens /\ a \in {r.from, r.to}

Apart(a, i) == \A l \in 1..i : \A r \in RowsOf(l) :
    r.token \in Tokens /\ r.to = a =>
        a \in Named(l) /\ \A s \in RowsOf(l) : s.token \in Tokens /\ s.to = a => s = r

(* What the indexer has of an account, its balances, pending receipts and origins, after the first j *)
(* logs of block i. *)
AtMostHeld(box, pend, a, i, j) ==
    \A k \in Tokens : PendSum(pend, k) <= box[k] /\ box[k] <= HeldAt(a, k, i, j)

NothingYet(box, pend, a, named) == a \notin named => pend = {} /\ \A k \in Tokens : box[k] = 0

AllHeld(pend, un, a, i, j) == a \notin un /\ Apart(a, i) =>
    /\ \A k \in Tokens : PendSum(pend, k) = HeldAt(a, k, i, j)
    /\ \A r \in pend : r \in RowsOf(r.tx)

Came(pend, a, i, j) == \A r \in pend :
    /\ r.to = a /\ r.token \in Tokens /\ r.tx <= i
    /\ r.tx = i => Touched(a, i, j) /\ r.log <= j

Origins(recv, pend, a, i) == \A l \in 1..MaxTxs : recv[l] # None =>
    /\ recv[l].to = a /\ recv[l].token \in Tokens /\ recv[l].tx < l /\ l <= i
    /\ \E s \in RowsOf(l) : s.from = a /\ s.token = recv[l].token /\ s.value = recv[l].value
    /\ \A n \in 1..MaxTxs : recv[n] = recv[l] => n = l
    /\ \A t \in pend : t.tx # recv[l].tx

Typed(box, pend, recv) ==
    /\ box \in [Tokens -> Nat] /\ pend \subseteq Row /\ IsFiniteSet(pend)
    /\ recv \in [1..MaxTxs -> Row \cup {None}]

GoodFor(box, pend, recv, un, a, i, j, named) ==
    /\ Typed(box, pend, recv)
    /\ AtMostHeld(box, pend, a, i, j)
    /\ NothingYet(box, pend, a, named)
    /\ AllHeld(pend, un, a, i, j)
    /\ Came(pend, a, i, j)
    /\ Origins(recv, pend, a, i)

\* The log after the first j of block i.
NextLog(i, j, row) ==
    /\ i \in 1..Len(txs) /\ j \in Nat /\ j + 1 \in 1..Size(i)
    /\ row = BlockRow(i, j + 1)

LEMMA PendRows ==
    ASSUME NEW pend, pend \subseteq Row, IsFiniteSet(pend)
    PROVE  AreRows(pend) /\ \A r \in pend : r.tx \in 1..MaxTxs /\ r.tx \in Nat /\ r.log \in Nat /\ r.value \in Nat
<1>1. \A r \in pend : r.value \in Nat /\ r.tx \in 1..MaxTxs /\ r.tx \in Nat /\ r.log \in Nat
  BY Constants DEF Row
<1> QED
  BY <1>1 DEF AreRows

\* An account sends its tokens before it takes part in any other transfer of the transaction, and not to itself.
LEMMA NextLogParts ==
    ASSUME ChainInv, NEW i, NEW j, NEW row, NextLog(i, j, row)
    PROVE  /\ row \in RowsOf(i) /\ row \in Row /\ row.tx = i /\ row.log = j + 1 /\ row.value \in Nat
           /\ i \in Nat /\ i \in 1..MaxTxs /\ j \in Nat /\ i \in 1..Len(txs)
           /\ Part(i, j + 1) = Part(i, j) \cup {row}
           /\ row.token \in Tokens /\ row.from \in Accounts =>
                 row.to # row.from /\ ~Touched(row.from, i, j)
           /\ row.token \in Tokens => Touched(row.from, i, j + 1) /\ Touched(row.to, i, j + 1)
           /\ \A a : Touched(a, i, j) => Touched(a, i, j + 1)
<1>1. i \in 1..Len(txs) /\ j \in Nat /\ j + 1 \in 1..Size(i) /\ row = BlockRow(i, j + 1)
  BY DEF NextLog
<1>2. /\ row \in RowsOf(i) /\ row \in Row /\ row.tx = i /\ row.log = j + 1 /\ row.value \in Nat
      /\ row.token = txs[i].moves[j + 1].token /\ row.from = txs[i].moves[j + 1].from
      /\ row.to = txs[i].moves[j + 1].to
  BY <1>1, BlockRowParts DEF Row
<1>3. i \in Nat /\ i \in 1..MaxTxs /\ DOMAIN txs[i].moves = 1..Size(i) /\ Shape(txs[i])
  BY <1>1, TxParts
<1>4. Part(i, j + 1) = Part(i, j) \cup {row}
  <2>1. /\ Part(i, j + 1) = Part(i, j) \cup {row} /\ row \notin Part(i, j)
        /\ InAt(row, row, i, j) \in Nat /\ OutAt(row, row, i, j) \in Nat
    BY <1>1, PartStep
  <2> QED
    BY <2>1
<1>5. ASSUME row.token \in Tokens, row.from \in Accounts PROVE row.to # row.from /\ ~Touched(row.from, i, j)
  <2>1. \A x, y \in 1..Size(i) : txs[i].moves[x].token \in Tokens /\ txs[i].moves[y].token \in Tokens
              /\ txs[i].moves[x].from \in Accounts =>
              txs[i].moves[y].to # txs[i].moves[x].from /\ (txs[i].moves[y].from = txs[i].moves[x].from => x = y)
    BY <1>3, Zenon DEF Shape
  <2>2. row.to # row.from
    BY <1>1, <1>2, <1>5, <2>1
  <2>3. ASSUME NEW r \in Part(i, j), r.token \in Tokens PROVE row.from \notin {r.from, r.to}
    <3>1. /\ r \in RowsOf(i) /\ r.log <= j /\ r.log \in 1..Size(i) /\ r.token = txs[i].moves[r.log].token
          /\ r.from = txs[i].moves[r.log].from /\ r.to = txs[i].moves[r.log].to
      BY <1>1, RowsOfParts DEF Part
    <3>2. r.log # j + 1
      BY <3>1, <1>1, <1>3
    <3> QED
      BY <1>1, <1>2, <1>5, <2>1, <2>3, <3>1, <3>2
  <2> QED
    BY <2>2, <2>3 DEF Touched
<1>6. row.token \in Tokens => Touched(row.from, i, j + 1) /\ Touched(row.to, i, j + 1)
  BY <1>4 DEF Touched
<1>7. \A a : Touched(a, i, j) => Touched(a, i, j + 1)
  BY <1>4 DEF Touched
<1> QED
  BY <1>1, <1>2, <1>3, <1>4, <1>5, <1>6, <1>7

\* A log that the indexer takes no notice of.
LEMMA IdleGood ==
    ASSUME ChainInv, NEW i, NEW j, NEW row, NextLog(i, j, row), NEW a \in Accounts, NEW named,
           NEW box, NEW pend, NEW recv, NEW un, GoodFor(box, pend, recv, un, a, i, j, named),
           Named(i) \subseteq named,
           row.token \notin Tokens \/ a \notin {row.from, row.to} \/ a \notin named
    PROVE  GoodFor(box, pend, recv, un, a, i, j + 1, named)
<1>1. /\ i \in 1..Len(txs) /\ j \in Nat /\ j + 1 \in 1..Size(i) /\ row = BlockRow(i, j + 1)
      /\ row \in RowsOf(i) /\ row.value \in Nat /\ i \in Nat
  BY NextLogParts DEF NextLog
<1>2. /\ Typed(box, pend, recv) /\ AtMostHeld(box, pend, a, i, j) /\ NothingYet(box, pend, a, named)
      /\ AllHeld(pend, un, a, i, j) /\ Came(pend, a, i, j) /\ Origins(recv, pend, a, i)
  BY DEF GoodFor
<1>3. Came(pend, a, i, j + 1)
  <2>1. ASSUME NEW r \in pend PROVE r.log <= j => r.log <= j + 1
    BY <1>1, <1>2, PendRows DEF Typed
  <2> QED
    BY <2>1, <1>2, NextLogParts DEF Came
<1>4. \A k \in Tokens : k \in Coins
  BY Constants
<1>5. CASE row.token \notin Tokens \/ a \notin {row.from, row.to}
  <2>1. \A k \in Tokens : HeldAt(a, k, i, j + 1) = HeldAt(a, k, i, j)
    BY <1>1, <1>4, <1>5, HeldStep
  <2> QED
    BY <1>2, <1>3, <2>1 DEF GoodFor, AtMostHeld, AllHeld
<1>6. CASE row.token \in Tokens /\ a \in {row.from, row.to} /\ a \notin named
  <2>1. pend = {} /\ \A k \in Tokens : box[k] = 0
    BY <1>2, <1>6 DEF NothingYet
  <2>2. \A k \in Tokens : HeldAt(a, k, i, j) \in Nat /\ HeldAt(a, k, i, j + 1) \in Nat
    BY <1>1, <1>4, HeldStep
  <2>3. \A k : PendSum(pend, k) = 0
    BY <2>1, PendSumNone
  <2>4. AtMostHeld(box, pend, a, i, j + 1)
    BY <2>1, <2>2, <2>3 DEF AtMostHeld
  <2>5. AllHeld(pend, un, a, i, j + 1)
    <3> SUFFICES ASSUME a \notin un, Apart(a, i), NEW k \in Tokens PROVE HeldAt(a, k, i, j + 1) = 0
      BY <2>1, <2>3 DEF AllHeld
    <3>1. HeldAt(a, k, i, j) = 0
      BY <1>2, <2>3 DEF AllHeld
    <3>2. row.to # a
      BY <1>1, <1>6 DEF Apart
    <3>3. row.token = k => HeldAt(a, k, i, j + 1) = HeldAt(a, k, i, j) - row.value /\ row.value <= HeldAt(a, k, i, j)
      BY <1>1, <1>4, <1>6, <3>2, HeldStep
    <3>4. row.token # k => HeldAt(a, k, i, j + 1) = HeldAt(a, k, i, j)
      BY <1>1, <1>4, HeldStep
    <3> QED
      BY <3>1, <3>3, <3>4, <1>1
  <2> QED
    BY <1>2, <1>3, <2>4, <2>5 DEF GoodFor
<1> QED
  BY <1>5, <1>6

\* A receipt.
LEMMA ReceiveGood ==
    ASSUME ChainInv, NEW i, NEW j, NEW row, NextLog(i, j, row), NEW a \in Accounts, NEW named,
           NEW box, NEW pend, NEW recv, NEW un, GoodFor(box, pend, recv, un, a, i, j, named),
           a \in named, row.token \in Tokens, row.to = a,
           NEW more, more = [box EXCEPT ![row.token] = @ + row.value]
    PROVE  GoodFor(more, pend \cup {row}, recv, un, a, i, j + 1, named)
<1>1. /\ i \in 1..Len(txs) /\ j \in Nat /\ j + 1 \in 1..Size(i) /\ row = BlockRow(i, j + 1)
      /\ row \in RowsOf(i) /\ row.value \in Nat /\ i \in Nat /\ row.tx = i /\ row.log = j + 1 /\ row \in Row
      /\ row.from # a /\ Touched(a, i, j + 1)
  <2>1. /\ row \in RowsOf(i) /\ row.value \in Nat /\ i \in Nat /\ row.tx = i /\ row.log = j + 1 /\ row \in Row
        /\ row.from \in Accounts => row.to # row.from
        /\ Touched(row.to, i, j + 1)
    BY NextLogParts
  <2> QED
    BY <2>1 DEF NextLog
<1>2. /\ Typed(box, pend, recv) /\ AtMostHeld(box, pend, a, i, j) /\ NothingYet(box, pend, a, named)
      /\ AllHeld(pend, un, a, i, j) /\ Came(pend, a, i, j) /\ Origins(recv, pend, a, i)
  BY DEF GoodFor
<1>3. /\ AreRows(pend)
      /\ \A r \in pend : r.tx \in 1..MaxTxs /\ r.tx \in Nat /\ r.log \in Nat
  BY <1>2, PendRows DEF Typed
<1>4. row \notin pend
  BY <1>1, <1>2, <1>3 DEF Came
<1>5. Typed(more, pend \cup {row}, recv)
  <2>1. more \in [Tokens -> Nat]
    BY <1>1, <1>2 DEF Typed
  <2>2. IsFiniteSet(pend \cup {row})
    BY <1>2, FS_AddElement DEF Typed
  <2> QED
    BY <1>1, <1>2, <2>1, <2>2 DEF Typed
<1>6. ASSUME NEW k \in Tokens
      PROVE  /\ PendSum(pend \cup {row}, k) = PendSum(pend, k) + Counted(row, k)
             /\ PendSum(pend, k) \in Nat /\ box[k] \in Nat /\ HeldAt(a, k, i, j) \in Nat
             /\ HeldAt(a, k, i, j + 1) = HeldAt(a, k, i, j) + Counted(row, k)
             /\ more[k] = box[k] + Counted(row, k)
  <2>1. PendSum(pend \cup {row}, k) = PendSum(pend, k) + Counted(row, k)
    BY <1>1, <1>3, <1>4, PendSumAdd
  <2>2. PendSum(pend, k) \in Nat
    BY <1>3, PendSumParts
  <2>3. box[k] \in Nat /\ more[k] = box[k] + Counted(row, k)
    BY <1>1, <1>2 DEF Typed, Counted
  <2>4. k \in Coins
    BY Constants
  <2>5. HeldAt(a, k, i, j) \in Nat
        /\ HeldAt(a, k, i, j + 1) = HeldAt(a, k, i, j) + Counted(row, k)
    BY <1>1, <2>4, HeldStep DEF Counted
  <2> QED
    BY <2>1, <2>2, <2>3, <2>5
<1>7. AtMostHeld(more, pend \cup {row}, a, i, j + 1)
  <2> SUFFICES ASSUME NEW k \in Tokens
               PROVE  PendSum(pend \cup {row}, k) <= more[k] /\ more[k] <= HeldAt(a, k, i, j + 1)
    BY DEF AtMostHeld
  <2>1. PendSum(pend, k) <= box[k] /\ box[k] <= HeldAt(a, k, i, j)
    BY <1>2 DEF AtMostHeld
  <2>2. PICK x, y, z, w : x = PendSum(pend, k) /\ y = box[k] /\ z = HeldAt(a, k, i, j) /\ w = Counted(row, k)
    OBVIOUS
  <2>3. /\ x \in Nat /\ y \in Nat /\ z \in Nat /\ PendSum(pend \cup {row}, k) = x + w
        /\ HeldAt(a, k, i, j + 1) = z + w /\ more[k] = y + w
    BY <1>6, <2>2
  <2>4. w \in Nat
    BY <2>2, <1>1 DEF Counted
  <2> QED
    BY <2>1, <2>2, <2>3, <2>4
<1>8. AllHeld(pend \cup {row}, un, a, i, j + 1)
  <2> SUFFICES ASSUME a \notin un, Apart(a, i)
               PROVE  /\ \A k \in Tokens : PendSum(pend \cup {row}, k) = HeldAt(a, k, i, j + 1)
                      /\ \A r \in pend \cup {row} : r \in RowsOf(r.tx)
    BY DEF AllHeld
  <2>1. (\A k \in Tokens : PendSum(pend, k) = HeldAt(a, k, i, j)) /\ \A r \in pend : r \in RowsOf(r.tx)
    BY <1>2 DEF AllHeld
  <2>2. ASSUME NEW k \in Tokens PROVE PendSum(pend \cup {row}, k) = HeldAt(a, k, i, j + 1)
    <3>1. PendSum(pend, k) = HeldAt(a, k, i, j)
      BY <2>1
    <3> QED
      BY <3>1, <1>6
  <2>3. row \in RowsOf(row.tx)
    BY <1>1
  <2> QED
    BY <2>1, <2>2, <2>3
<1>9. Came(pend \cup {row}, a, i, j + 1)
  <2>1. ASSUME NEW r \in pend PROVE r.log <= j => r.log <= j + 1
    BY <1>1, <1>3
  <2> QED
    BY <1>1, <1>2, <2>1 DEF Came
<1>10. Origins(recv, pend \cup {row}, a, i)
  <2>1. ASSUME NEW l \in 1..MaxTxs, recv[l] # None PROVE row.tx # recv[l].tx
    <3>1. recv[l].tx < l /\ l <= i /\ recv[l] \in Row
      BY <1>2, <2>1 DEF Origins, Typed
    <3>2. recv[l].tx \in Nat /\ l \in Nat
      BY <3>1, Constants DEF Row
    <3> QED
      BY <3>1, <3>2, <1>1
  <2> QED
    BY <1>2, <2>1 DEF Origins
<1> QED
  BY <1>5, <1>7, <1>8, <1>9, <1>10 DEF GoodFor, NothingYet

\* A balance never goes below zero.
LEMMA LeftParts ==
    ASSUME NEW box \in Nat, NEW row, row.value \in Nat
    PROVE  /\ Left(box, row) \in Nat /\ Left(box, row) <= box
           /\ row.value <= box => Left(box, row) = box - row.value
           /\ \A h \in Nat : box <= h /\ row.value <= h => Left(box, row) <= h - row.value
  BY DEF Left

\* A log that sends some of a token out of an account.
SendsOut(i, j, row, a) == NextLog(i, j, row) /\ row.token \in Tokens /\ row.from = a

LEMMA SendsOutParts ==
    ASSUME ChainInv, NEW i, NEW j, NEW row, NEW a \in Accounts, SendsOut(i, j, row, a),
           NEW box, NEW pend, NEW recv, NEW un, NEW named, GoodFor(box, pend, recv, un, a, i, j, named)
    PROVE  /\ row \in RowsOf(i) /\ row.value \in Nat /\ i \in Nat /\ i \in 1..MaxTxs /\ row.tx = i
           /\ row.log = j + 1 /\ row \in Row /\ j \in Nat /\ Touched(a, i, j + 1)
           /\ \A r \in pend : r.tx < i /\ r.tx \in Nat /\ r.value \in Nat
           /\ AreRows(pend)
           /\ \A k \in Tokens :
                /\ PendSum(pend, k) \in Nat /\ box[k] \in Nat /\ HeldAt(a, k, i, j) \in Nat
                /\ HeldAt(a, k, i, j + 1) = HeldAt(a, k, i, j) - Counted(row, k)
                /\ Counted(row, k) <= HeldAt(a, k, i, j) /\ Counted(row, k) \in Nat
                /\ PendSum(pend, k) <= box[k] /\ box[k] <= HeldAt(a, k, i, j)
<1>1. /\ i \in 1..Len(txs) /\ j \in Nat /\ j + 1 \in 1..Size(i) /\ row = BlockRow(i, j + 1)
      /\ NextLog(i, j, row) /\ row.token \in Tokens /\ row.from = a
  BY DEF NextLog, SendsOut
<1>2. /\ row \in RowsOf(i) /\ row.value \in Nat /\ i \in Nat /\ i \in 1..MaxTxs /\ row.tx = i
      /\ row.log = j + 1 /\ row \in Row /\ row.to # a /\ ~Touched(a, i, j) /\ Touched(a, i, j + 1)
  <2>1. /\ row \in RowsOf(i) /\ row.value \in Nat /\ i \in Nat /\ i \in 1..MaxTxs /\ row.tx = i
        /\ row.log = j + 1 /\ row \in Row
        /\ row.token \in Tokens /\ row.from \in Accounts => row.to # row.from /\ ~Touched(row.from, i, j)
        /\ row.token \in Tokens => Touched(row.from, i, j + 1)
    BY <1>1, NextLogParts
  <2> QED
    BY <1>1, <2>1
<1>3. Typed(box, pend, recv) /\ AtMostHeld(box, pend, a, i, j) /\ Came(pend, a, i, j)
  BY DEF GoodFor
<1>4. AreRows(pend) /\ \A r \in pend : r.tx \in Nat /\ r.value \in Nat
  BY <1>3, PendRows DEF Typed
<1>5. ASSUME NEW r \in pend PROVE r.tx < i
  <2>1. r.tx <= i /\ r.tx # i
    BY <1>2, <1>3 DEF Came
  <2> QED
    BY <2>1, <1>2, <1>4
<1>6. ASSUME NEW k \in Tokens
      PROVE  /\ PendSum(pend, k) \in Nat /\ box[k] \in Nat /\ HeldAt(a, k, i, j) \in Nat
             /\ HeldAt(a, k, i, j + 1) = HeldAt(a, k, i, j) - Counted(row, k)
             /\ Counted(row, k) <= HeldAt(a, k, i, j) /\ Counted(row, k) \in Nat
             /\ PendSum(pend, k) <= box[k] /\ box[k] <= HeldAt(a, k, i, j)
  <2>1. PendSum(pend, k) \in Nat
    BY <1>4, PendSumParts
  <2>2. box[k] \in Nat /\ PendSum(pend, k) <= box[k] /\ box[k] <= HeldAt(a, k, i, j)
    BY <1>3 DEF Typed, AtMostHeld
  <2>3. k \in Coins
    BY Constants
  <2>4. HeldAt(a, k, i, j) \in Nat
    BY <1>1, <2>3, HeldStep
  <2>5. CASE row.token = k
    <3>1. HeldAt(a, k, i, j + 1) = HeldAt(a, k, i, j) - row.value /\ row.value <= HeldAt(a, k, i, j)
      BY <1>1, <1>2, <2>3, <2>5, HeldStep
    <3>2. Counted(row, k) = row.value
      BY <2>5 DEF Counted
    <3> QED
      BY <1>2, <2>1, <2>2, <2>4, <3>1, <3>2
  <2>6. CASE row.token # k
    <3>1. HeldAt(a, k, i, j + 1) = HeldAt(a, k, i, j)
      BY <1>1, <2>3, <2>6, HeldStep
    <3>2. Counted(row, k) = 0
      BY <2>6 DEF Counted
    <3> QED
      BY <2>1, <2>2, <2>4, <3>1, <3>2
  <2> QED
    BY <2>5, <2>6
<1> QED
  BY <1>1, <1>2, <1>4, <1>5, <1>6

\* A transfer out that swaps a receipt.
LEMMA MatchedGood ==
    ASSUME ChainInv, NEW i, NEW j, NEW row, NEW a \in Accounts, SendsOut(i, j, row, a), NEW named,
           NEW box, NEW pend, NEW recv, NEW un, GoodFor(box, pend, recv, un, a, i, j, named), a \in named,
           NEW m \in pend, m.token = row.token, m.value = row.value,
           NEW less, less = [box EXCEPT ![row.token] = Left(@, row)],
           NEW rest, rest = {t \in pend : t.tx # m.tx},
           NEW swaps, swaps = [recv EXCEPT ![i] = m]
    PROVE  GoodFor(less, rest, swaps, un, a, i, j + 1, named)
<1>1. /\ row \in RowsOf(i) /\ row.value \in Nat /\ i \in Nat /\ i \in 1..MaxTxs /\ row.tx = i
      /\ row.log = j + 1 /\ row \in Row /\ j \in Nat /\ Touched(a, i, j + 1)
      /\ \A r \in pend : r.tx < i /\ r.tx \in Nat /\ r.value \in Nat
      /\ AreRows(pend)
  BY SendsOutParts
<1>2. \A k \in Tokens :
        /\ PendSum(pend, k) \in Nat /\ box[k] \in Nat /\ HeldAt(a, k, i, j) \in Nat
        /\ HeldAt(a, k, i, j + 1) = HeldAt(a, k, i, j) - Counted(row, k)
        /\ Counted(row, k) <= HeldAt(a, k, i, j) /\ Counted(row, k) \in Nat
        /\ PendSum(pend, k) <= box[k] /\ box[k] <= HeldAt(a, k, i, j)
  BY SendsOutParts
<1>3. /\ Typed(box, pend, recv) /\ AllHeld(pend, un, a, i, j) /\ Came(pend, a, i, j) /\ Origins(recv, pend, a, i)
      /\ row.token \in Tokens /\ row.from = a
  BY DEF GoodFor, SendsOut
<1>4. rest \subseteq pend /\ m \notin rest
  OBVIOUS
<1>5. ASSUME NEW k \in Tokens
      PROVE  /\ PendSum(rest, k) \in Nat /\ PendSum(rest, k) + Counted(row, k) <= PendSum(pend, k)
             /\ rest = pend \ {m} => PendSum(rest, k) + Counted(row, k) = PendSum(pend, k)
  <2>1. /\ PendSum(rest, k) \in Nat /\ PendSum(rest, k) + Counted(m, k) <= PendSum(pend, k)
        /\ rest = pend \ {m} => PendSum(rest, k) + Counted(m, k) = PendSum(pend, k)
    <3>1. AreRows(pend) /\ m \in pend /\ rest \subseteq pend /\ m \notin rest
      BY <1>1, <1>4
    <3>2. /\ AreRows(rest) /\ PendSum(rest, k) \in Nat /\ PendSum(pend, k) \in Nat
          /\ PendSum(rest, k) + Counted(m, k) <= PendSum(pend, k)
          /\ rest = pend \ {m} => PendSum(rest, k) + Counted(m, k) = PendSum(pend, k)
      BY <3>1, PendSumWithout
    <3> QED
      BY <3>2
  <2>2. Counted(m, k) = Counted(row, k)
    BY DEF Counted
  <2> QED
    BY <2>1, <2>2
<1>6. ASSUME NEW k \in Tokens PROVE less[k] = box[k] - Counted(row, k) /\ less[k] \in Nat
  <2>1. Counted(row, k) <= box[k]
    BY <1>2, <1>5
  <2>2. less[k] = IF row.token = k THEN Left(box[k], row) ELSE box[k]
    BY <1>3 DEF Typed
  <2>3. row.token = k => Left(box[k], row) = box[k] - row.value
    BY <1>1, <1>2, <2>1, LeftParts DEF Counted
  <2> QED
    BY <1>1, <1>2, <2>1, <2>2, <2>3 DEF Counted
<1>7. Typed(less, rest, swaps)
  <2>1. less \in [Tokens -> Nat]
    BY <1>3, <1>6 DEF Typed
  <2>2. IsFiniteSet(rest)
    BY <1>3, <1>4, FS_Subset DEF Typed
  <2>3. swaps \in [1..MaxTxs -> Row \cup {None}]
    BY <1>1, <1>3 DEF Typed
  <2> QED
    BY <1>3, <1>4, <2>1, <2>2, <2>3 DEF Typed
<1>8. AtMostHeld(less, rest, a, i, j + 1)
  <2> SUFFICES ASSUME NEW k \in Tokens PROVE PendSum(rest, k) <= less[k] /\ less[k] <= HeldAt(a, k, i, j + 1)
    BY DEF AtMostHeld
  <2> QED
    BY <1>2, <1>5, <1>6
<1>9. AllHeld(rest, un, a, i, j + 1)
  <2> SUFFICES ASSUME a \notin un, Apart(a, i)
               PROVE  /\ \A k \in Tokens : PendSum(rest, k) = HeldAt(a, k, i, j + 1)
                      /\ \A r \in rest : r \in RowsOf(r.tx)
    BY DEF AllHeld
  <2>1. (\A k \in Tokens : PendSum(pend, k) = HeldAt(a, k, i, j)) /\ \A r \in pend : r \in RowsOf(r.tx)
    BY <1>3 DEF AllHeld
  <2>2. rest = pend \ {m}
    <3>1. ASSUME NEW r \in pend, r.tx = m.tx PROVE r = m
      <4>1. /\ m.tx \in 1..i /\ m \in RowsOf(m.tx) /\ r \in RowsOf(m.tx)
            /\ m.token \in Tokens /\ m.to = a /\ r.token \in Tokens /\ r.to = a
        <5>1. m.tx \in 1..MaxTxs /\ m.tx < i
          BY <1>1, <1>3, PendRows DEF Typed
        <5> QED
          BY <5>1, <1>1, <1>3, <2>1, <3>1 DEF Came
      <4> QED
        BY <4>1 DEF Apart
    <3> QED
      BY <3>1
  <2> QED
    BY <1>2, <1>4, <1>5, <2>1, <2>2
<1>10. Came(rest, a, i, j + 1)
  BY <1>1, <1>3, <1>4 DEF Came
<1>11. Origins(swaps, rest, a, i)
  <2> SUFFICES ASSUME NEW l \in 1..MaxTxs, swaps[l] # None
      PROVE  /\ swaps[l].to = a /\ swaps[l].token \in Tokens /\ swaps[l].tx < l /\ l <= i
             /\ \E s \in RowsOf(l) : s.from = a /\ s.token = swaps[l].token /\ s.value = swaps[l].value
             /\ \A n \in 1..MaxTxs : swaps[n] = swaps[l] => n = l
             /\ \A t \in rest : t.tx # swaps[l].tx
    BY DEF Origins
  <2>0. \A n \in 1..MaxTxs : swaps[n] = IF n = i THEN m ELSE recv[n]
    BY <1>3 DEF Typed
  <2>1. \A n \in 1..MaxTxs : recv[n] # None => recv[n].tx # m.tx /\ recv[n] # m
    BY <1>3 DEF Origins
  <2>2. CASE l = i
    <3>1. swaps[l] = m /\ m # None
      BY <2>0, <2>2
    <3>2. m.to = a /\ m.token \in Tokens /\ m.tx < l /\ l <= i
      BY <1>1, <1>3, <2>2 DEF Came
    <3>3. \E s \in RowsOf(l) : s.from = a /\ s.token = m.token /\ s.value = m.value
      BY <1>1, <1>3, <2>2
    <3>4. \A n \in 1..MaxTxs : swaps[n] = m => n = l
      BY <2>0, <2>1, <2>2, <3>1
    <3>5. \A t \in rest : t.tx # m.tx
      OBVIOUS
    <3> QED
      BY <3>1, <3>2, <3>3, <3>4, <3>5
  <2>3. CASE l # i
    <3>1. swaps[l] = recv[l] /\ recv[l] # None
      BY <2>0, <2>3
    <3>2. /\ recv[l].to = a /\ recv[l].token \in Tokens /\ recv[l].tx < l /\ l <= i
          /\ \E s \in RowsOf(l) : s.from = a /\ s.token = recv[l].token /\ s.value = recv[l].value
          /\ \A n \in 1..MaxTxs : recv[n] = recv[l] => n = l
          /\ \A t \in pend : t.tx # recv[l].tx
      BY <1>3, <3>1 DEF Origins
    <3>3. \A n \in 1..MaxTxs : swaps[n] = recv[l] => n = l
      BY <2>0, <2>1, <3>1, <3>2
    <3> QED
      BY <1>4, <3>1, <3>2, <3>3
  <2> QED
    BY <2>2, <2>3
<1> QED
  BY <1>7, <1>8, <1>9, <1>10, <1>11 DEF GoodFor, NothingYet

\* A transfer out of an amount that is not pending.
LEMMA BulkGood ==
    ASSUME ChainInv, NEW i, NEW j, NEW row, NEW a \in Accounts, SendsOut(i, j, row, a), NEW named,
           NEW box, NEW pend, NEW recv, NEW un, GoodFor(box, pend, recv, un, a, i, j, named), a \in named,
           NEW left, left = Left(box[row.token], row),
           NEW less, less = [box EXCEPT ![row.token] = left],
           NEW rest, rest = Leftover(a, row, left)
    PROVE  GoodFor(less, rest, recv, un \cup {a}, a, i, j + 1, named)
<1>1. /\ row \in RowsOf(i) /\ row.value \in Nat /\ i \in Nat /\ i \in 1..MaxTxs /\ row.tx = i
      /\ row.log = j + 1 /\ row \in Row /\ j \in Nat /\ Touched(a, i, j + 1)
  BY SendsOutParts
<1>2. \A k \in Tokens :
        /\ box[k] \in Nat /\ HeldAt(a, k, i, j) \in Nat
        /\ HeldAt(a, k, i, j + 1) = HeldAt(a, k, i, j) - Counted(row, k)
        /\ Counted(row, k) <= HeldAt(a, k, i, j) /\ Counted(row, k) \in Nat
        /\ box[k] <= HeldAt(a, k, i, j)
  BY SendsOutParts
<1>3. /\ Typed(box, pend, recv) /\ Origins(recv, pend, a, i) /\ row.token \in Tokens /\ row.from = a
  BY DEF GoodFor, SendsOut
<1>4. left \in Nat
  BY <1>1, <1>2, <1>3, LeftParts
<1>5. PICK bulk : bulk = BulkRow(a, row, left)
  OBVIOUS
<1>6. bulk \in Row /\ bulk.tx = i /\ bulk.log = j + 1 /\ bulk.token = row.token /\ bulk.to = a /\ bulk.value = left
  <2>1. /\ bulk \in Row /\ bulk.tx = row.tx /\ bulk.log = row.log /\ bulk.token = row.token
        /\ bulk.to = a /\ bulk.value = left
    <3>1. row \in Row
      BY <1>1
    <3>2. /\ BulkRow(a, row, left) \in Row
          /\ BulkRow(a, row, left).tx = row.tx /\ BulkRow(a, row, left).log = row.log
          /\ BulkRow(a, row, left).token = row.token /\ BulkRow(a, row, left).to = a
          /\ BulkRow(a, row, left).value = left
      BY <3>1, <1>4, BulkRowParts
    <3> QED
      BY <1>5, <3>2
  <2> QED
    BY <1>1, <2>1
<1>7. rest = (IF left > 0 THEN {bulk} ELSE {}) /\ rest \subseteq {bulk}
  BY <1>5 DEF Leftover
<1>8. \A k \in Tokens : less[k] = IF row.token = k THEN left ELSE box[k]
  BY <1>3 DEF Typed
<1>9. Typed(less, rest, recv)
  <2>1. less \in [Tokens -> Nat]
    BY <1>3, <1>4 DEF Typed
  <2>2. IsFiniteSet(rest)
    <3>1. IsFiniteSet({bulk})
      BY FS_Singleton
    <3> QED
      BY <1>7, <3>1, FS_Subset
  <2> QED
    BY <1>3, <1>6, <1>7, <2>1, <2>2 DEF Typed
<1>10. ASSUME NEW k \in Tokens PROVE PendSum(rest, k) = IF row.token = k THEN left ELSE 0
  <2>1. CASE left > 0
    <3>1. rest = {} \cup {bulk} /\ AreRows({}) /\ bulk \notin {}
      BY <1>7, <2>1, SumOfNone
    <3>2. PendSum(rest, k) = PendSum({}, k) + Counted(bulk, k)
      BY <1>4, <1>6, <3>1, PendSumAdd
    <3>3. Counted(bulk, k) = IF row.token = k THEN left ELSE 0
      BY <1>6 DEF Counted
    <3>4. PendSum({}, k) = 0
      BY PendSumNone
    <3> QED
      BY <1>4, <3>2, <3>3, <3>4
  <2>2. CASE ~(left > 0)
    <3>1. rest = {} /\ left = 0
      BY <1>4, <1>7, <2>2
    <3> QED
      BY <3>1, PendSumNone
  <2> QED
    BY <2>1, <2>2
<1>11. AtMostHeld(less, rest, a, i, j + 1)
  <2> SUFFICES ASSUME NEW k \in Tokens PROVE PendSum(rest, k) <= less[k] /\ less[k] <= HeldAt(a, k, i, j + 1)
    BY DEF AtMostHeld
  <2>1. CASE row.token = k
    <3>1. Counted(row, k) = row.value
      BY <2>1 DEF Counted
    <3>2. left <= HeldAt(a, k, i, j) - row.value
      BY <1>1, <1>2, <2>1, <3>1, LeftParts
    <3> QED
      BY <1>2, <1>4, <1>8, <1>10, <2>1, <3>1, <3>2
  <2>2. CASE row.token # k
    <3>1. Counted(row, k) = 0
      BY <2>2 DEF Counted
    <3> QED
      BY <1>2, <1>8, <1>10, <2>2, <3>1
  <2> QED
    BY <2>1, <2>2
<1>12. AllHeld(rest, un \cup {a}, a, i, j + 1)
  BY DEF AllHeld
<1>13. Came(rest, a, i, j + 1)
  BY <1>1, <1>3, <1>6, <1>7 DEF Came
<1>14. Origins(recv, rest, a, i)
  <2>1. ASSUME NEW l \in 1..MaxTxs, recv[l] # None PROVE \A t \in rest : t.tx # recv[l].tx
    <3>1. recv[l].tx < l /\ l <= i /\ recv[l] \in Row
      BY <1>3, <2>1 DEF Origins, Typed
    <3>2. recv[l].tx \in Nat /\ l \in Nat
      BY <3>1, Constants DEF Row
    <3> QED
      BY <3>1, <3>2, <1>1, <1>6, <1>7
  <2> QED
    BY <1>3, <2>1 DEF Origins
<1> QED
  BY <1>9, <1>11, <1>12, <1>13, <1>14 DEF GoodFor, NothingYet

-----------------------------------------------------------------------------
(* The indexer fits the chain *)

\* What the indexer has of an account.
Bal(st, a) == [k \in Tokens |-> st.inbox[<<a, k>>]]

Recv(st, a) == [l \in 1..MaxTxs |-> st.receiveOf[<<a, l>>]]

\* What the indexer has of an account stays as it is.
SameFor(st, s, a) ==
    Bal(s, a) = Bal(st, a) /\ s.pending[a] = st.pending[a] /\ Recv(s, a) = Recv(st, a)

\* What it has of all of them.
StateGood(st, a, i, j, named) == GoodFor(Bal(st, a), st.pending[a], Recv(st, a), st.unmatched, a, i, j, named)

Fits(st, i, j, named) == st \in IndexStates /\ \A a \in Accounts : StateGood(st, a, i, j, named)

LEMMA StateParts ==
    ASSUME NEW st \in IndexStates
    PROVE  /\ st.inbox \in [Accounts \X Tokens -> Nat] /\ st.pending \in [Accounts -> SUBSET Row]
           /\ st.receiveOf \in [Accounts \X (1..MaxTxs) -> Row \cup {None}] /\ st.unmatched \in SUBSET Accounts
           /\ \A a \in Accounts : IsFiniteSet(st.pending[a])
  BY DEF IndexStates

\* What a step of the indexer does to each account.
LEMMA ReceiveView ==
    ASSUME NEW st \in IndexStates, NEW a \in Accounts, NEW row, ForeignRow(row), NEW b \in Accounts,
           NEW s, s = Receive(st, a, row)
    PROVE  /\ s \in IndexStates /\ s.unmatched = st.unmatched
           /\ b # a => SameFor(st, s, b)
           /\ b = a => /\ Bal(s, b) = [Bal(st, b) EXCEPT ![row.token] = @ + row.value]
                       /\ s.pending[b] = st.pending[b] \cup {row}
                       /\ Recv(s, b) = Recv(st, b)
<1>1. /\ s \in IndexStates
      /\ s.inbox = [st.inbox EXCEPT ![<<a, row.token>>] = @ + row.value]
      /\ s.pending = [st.pending EXCEPT ![a] = @ \cup {row}]
      /\ s.receiveOf = st.receiveOf /\ s.unmatched = st.unmatched
  BY ReceiveParts
<1>2. row.token \in Tokens
  BY DEF ForeignRow
<1>3. /\ st.inbox \in [Accounts \X Tokens -> Nat] /\ st.pending \in [Accounts -> SUBSET Row]
  BY StateParts
<1>4. \A k \in Tokens : s.inbox[<<b, k>>] =
          IF b = a /\ k = row.token THEN st.inbox[<<b, k>>] + row.value ELSE st.inbox[<<b, k>>]
  BY <1>1, <1>2, <1>3
<1>5. s.pending[b] = IF b = a THEN st.pending[b] \cup {row} ELSE st.pending[b]
  BY <1>1, <1>3
<1>6. Recv(s, b) = Recv(st, b)
  BY <1>1 DEF Recv
<1>7. ASSUME b # a PROVE SameFor(st, s, b)
  BY <1>4, <1>5, <1>6, <1>7 DEF SameFor, Bal
<1>8. ASSUME b = a PROVE Bal(s, b) = [Bal(st, b) EXCEPT ![row.token] = @ + row.value]
  BY <1>2, <1>4, <1>8 DEF Bal
<1> QED
  BY <1>1, <1>5, <1>6, <1>7, <1>8

LEMMA BulkView ==
    ASSUME NEW st \in IndexStates, NEW a \in Accounts, NEW row, ForeignRow(row), NEW b \in Accounts,
           Matching(st, a, row) = {}, NEW left, left = Left(Bal(st, a)[row.token], row),
           NEW s, s = SendOut(st, a, row)
    PROVE  /\ s \in IndexStates /\ s.unmatched = st.unmatched \cup {a}
           /\ b # a => SameFor(st, s, b)
           /\ b = a => /\ Bal(s, b) = [Bal(st, b) EXCEPT ![row.token] = left]
                       /\ s.pending[b] = Leftover(b, row, left)
                       /\ Recv(s, b) = Recv(st, b)
<1>1. row.token \in Tokens
  BY DEF ForeignRow
<1>2. /\ st.inbox \in [Accounts \X Tokens -> Nat] /\ st.pending \in [Accounts -> SUBSET Row]
  BY StateParts
<1>3. left = Left(st.inbox[<<a, row.token>>], row)
  BY <1>1 DEF Bal
<1>4. /\ s \in IndexStates
      /\ s.inbox = [st.inbox EXCEPT ![<<a, row.token>>] = left]
      /\ s.pending = [st.pending EXCEPT ![a] = Leftover(a, row, left)]
      /\ s.receiveOf = st.receiveOf /\ s.unmatched = st.unmatched \cup {a}
  BY <1>3, BulkParts
<1>5. \A k \in Tokens : s.inbox[<<b, k>>] = IF b = a /\ k = row.token THEN left ELSE st.inbox[<<b, k>>]
  BY <1>1, <1>2, <1>4
<1>6. s.pending[b] = IF b = a THEN Leftover(b, row, left) ELSE st.pending[b]
  BY <1>2, <1>4
<1>7. Recv(s, b) = Recv(st, b)
  BY <1>4 DEF Recv
<1>8. ASSUME b # a PROVE SameFor(st, s, b)
  BY <1>5, <1>6, <1>7, <1>8 DEF SameFor, Bal
<1>9. ASSUME b = a PROVE Bal(s, b) = [Bal(st, b) EXCEPT ![row.token] = left]
  BY <1>1, <1>5, <1>9 DEF Bal
<1> QED
  BY <1>4, <1>6, <1>7, <1>8, <1>9

LEMMA MatchedView ==
    ASSUME NEW st \in IndexStates, NEW a \in Accounts, NEW row, ForeignRow(row), NEW b \in Accounts,
           Matching(st, a, row) # {}, NEW m, m = First(Matching(st, a, row)),
           NEW s, s = SendOut(st, a, row)
    PROVE  /\ s \in IndexStates /\ s.unmatched = st.unmatched
           /\ m \in st.pending[a] /\ m.token = row.token /\ m.value = row.value
           /\ b # a => SameFor(st, s, b)
           /\ b = a => /\ Bal(s, b) = [Bal(st, b) EXCEPT ![row.token] = Left(@, row)]
                       /\ s.pending[b] = {t \in st.pending[b] : t.tx # m.tx}
                       /\ Recv(s, b) = [Recv(st, b) EXCEPT ![row.tx] = m]
<1>1. row.token \in Tokens /\ row.tx \in 1..MaxTxs
  BY DEF ForeignRow, Row
<1>2. /\ st.inbox \in [Accounts \X Tokens -> Nat] /\ st.pending \in [Accounts -> SUBSET Row]
      /\ st.receiveOf \in [Accounts \X (1..MaxTxs) -> Row \cup {None}]
  BY StateParts
<1>4. /\ s \in IndexStates
      /\ s.inbox = [st.inbox EXCEPT ![<<a, row.token>>] = Left(@, row)]
      /\ s.pending = [st.pending EXCEPT ![a] = {t \in @ : t.tx # m.tx}]
      /\ s.receiveOf = [st.receiveOf EXCEPT ![<<a, row.tx>>] = m] /\ s.unmatched = st.unmatched
      /\ m \in st.pending[a] /\ m.token = row.token /\ m.value = row.value
  BY MatchedParts
<1>5. \A k \in Tokens : s.inbox[<<b, k>>] =
          IF b = a /\ k = row.token THEN Left(st.inbox[<<b, k>>], row) ELSE st.inbox[<<b, k>>]
  BY <1>1, <1>2, <1>4
<1>6. s.pending[b] = IF b = a THEN {t \in st.pending[b] : t.tx # m.tx} ELSE st.pending[b]
  BY <1>2, <1>4
<1>7. \A l \in 1..MaxTxs : s.receiveOf[<<b, l>>] = IF b = a /\ l = row.tx THEN m ELSE st.receiveOf[<<b, l>>]
  BY <1>1, <1>2, <1>4
<1>8. ASSUME b # a PROVE SameFor(st, s, b)
  BY <1>5, <1>6, <1>7, <1>8 DEF SameFor, Bal, Recv
<1>9. ASSUME b = a PROVE Bal(s, b) = [Bal(st, b) EXCEPT ![row.token] = Left(@, row)]
  BY <1>1, <1>5, <1>9 DEF Bal
<1>10. ASSUME b = a PROVE Recv(s, b) = [Recv(st, b) EXCEPT ![row.tx] = m]
  BY <1>1, <1>7, <1>10 DEF Recv
<1> QED
  BY <1>4, <1>6, <1>8, <1>9, <1>10

\* An account the log does not touch may stand beside one that becomes unmatched.
LEMMA SameGood ==
    ASSUME NEW st, NEW s, NEW a, NEW i, NEW j, NEW named, StateGood(st, a, i, j, named), SameFor(st, s, a),
           st.unmatched \subseteq s.unmatched
    PROVE  StateGood(s, a, i, j, named)
<1>1. GoodFor(Bal(s, a), s.pending[a], Recv(s, a), st.unmatched, a, i, j, named)
  BY Zenon DEF StateGood, SameFor
<1>2. AllHeld(s.pending[a], st.unmatched, a, i, j) => AllHeld(s.pending[a], s.unmatched, a, i, j)
  BY DEF AllHeld
<1> QED
  BY <1>1, <1>2 DEF StateGood, GoodFor

\* The indexer fits the chain after one more log.
LEMMA ProcessGood ==
    ASSUME ChainInv, NEW i, NEW j, NEW row, NextLog(i, j, row), row.token \in Tokens,
           NEW st, NEW named, named \subseteq Accounts, Named(i) \subseteq named, Fits(st, i, j, named)
    PROVE  Fits(Process(st, row, named), i, j + 1, named)
<1>1. ForeignRow(row) /\ row.tx = i
  BY NextLogParts DEF ForeignRow
<1>2. st \in IndexStates
  BY DEF Fits
<1>3. PICK mid : mid = IF row.to \in named THEN Receive(st, row.to, row) ELSE st
  OBVIOUS
<1>4. PICK last : last = Process(st, row, named)
  OBVIOUS
<1>5. last = IF row.from \in named THEN SendOut(mid, row.from, row) ELSE mid
  BY <1>3, <1>4 DEF Process
<1>6. last \in IndexStates /\ mid \in IndexStates
  BY <1>1, <1>2, <1>3, <1>4, ProcessType, ReceiveParts
<1>7. \A a \in Accounts : a # row.to \/ a \notin named => SameFor(st, mid, a)
  BY <1>1, <1>2, <1>3, ReceiveView DEF SameFor
<1>8. mid.unmatched = st.unmatched
  BY <1>1, <1>2, <1>3, ReceiveView
<1>9. ASSUME NEW a \in Accounts, a # row.from \/ a \notin named
      PROVE  SameFor(mid, last, a) /\ mid.unmatched \subseteq last.unmatched
  <2>1. CASE row.from \notin named
    BY <1>5, <2>1 DEF SameFor
  <2>2. CASE row.from \in named /\ Matching(mid, row.from, row) = {}
    <3>1. last = SendOut(mid, row.from, row) /\ row.from \in Accounts /\ a # row.from
      BY <1>5, <1>9, <2>2
    <3>2. PICK left : left = Left(Bal(mid, row.from)[row.token], row)
      OBVIOUS
    <3>3. last.unmatched = mid.unmatched \cup {row.from} /\ SameFor(mid, last, a)
      BY <1>1, <1>6, <2>2, <3>1, <3>2, BulkView
    <3> QED
      BY <3>3
  <2>3. CASE row.from \in named /\ Matching(mid, row.from, row) # {}
    <3>1. last = SendOut(mid, row.from, row) /\ row.from \in Accounts /\ a # row.from
      BY <1>5, <1>9, <2>3
    <3>2. PICK m : m = First(Matching(mid, row.from, row))
      OBVIOUS
    <3>3. last.unmatched = mid.unmatched /\ SameFor(mid, last, a)
      BY <1>1, <1>6, <2>3, <3>1, <3>2, MatchedView
    <3> QED
      BY <3>3
  <2> QED
    BY <2>1, <2>2, <2>3
<1>10. \A a \in Accounts : StateGood(st, a, i, j, named)
  BY DEF Fits
<1>11. ASSUME NEW a \in Accounts PROVE StateGood(last, a, i, j + 1, named)
  <2>1. CASE a = row.to /\ a \in named
    <3>1. a # row.from
      BY <2>1, NextLogParts
    <3>2. /\ Bal(mid, a) = [Bal(st, a) EXCEPT ![row.token] = @ + row.value]
          /\ mid.pending[a] = st.pending[a] \cup {row} /\ Recv(mid, a) = Recv(st, a)
      BY <1>1, <1>2, <1>3, <2>1, ReceiveView
    <3>3. GoodFor(Bal(st, a), st.pending[a], Recv(st, a), st.unmatched, a, i, j, named)
      BY <1>10 DEF StateGood
    <3>4. GoodFor(Bal(mid, a), st.pending[a] \cup {row}, Recv(st, a), st.unmatched, a, i, j + 1, named)
      BY <2>1, <3>2, <3>3, ReceiveGood
    <3>5. StateGood(mid, a, i, j + 1, named)
      BY <1>8, <3>2, <3>4 DEF StateGood
    <3> QED
      BY <1>9, <3>1, <3>5, SameGood
  <2>2. CASE a = row.from /\ a \in named
    <3>1. a # row.to
      BY <2>2, NextLogParts
    <3>2. StateGood(mid, a, i, j, named)
      BY <1>7, <1>8, <1>10, <3>1, SameGood
    <3>3. GoodFor(Bal(mid, a), mid.pending[a], Recv(mid, a), mid.unmatched, a, i, j, named)
      BY <3>2 DEF StateGood
    <3>4. last = SendOut(mid, a, row) /\ SendsOut(i, j, row, a)
      BY <1>5, <2>2 DEF SendsOut
    <3>5. CASE Matching(mid, a, row) = {}
      <4>1. PICK left : left = Left(Bal(mid, a)[row.token], row)
        OBVIOUS
      <4>2. /\ last.unmatched = mid.unmatched \cup {a}
            /\ Bal(last, a) = [Bal(mid, a) EXCEPT ![row.token] = left]
            /\ last.pending[a] = Leftover(a, row, left) /\ Recv(last, a) = Recv(mid, a)
        BY <1>1, <1>6, <3>4, <3>5, <4>1, BulkView
      <4>3. GoodFor(Bal(last, a), last.pending[a], Recv(mid, a), mid.unmatched \cup {a}, a, i, j + 1, named)
        BY <2>2, <3>3, <3>4, <4>1, <4>2, BulkGood
      <4> QED
        BY <4>2, <4>3 DEF StateGood
    <3>6. CASE Matching(mid, a, row) # {}
      <4>1. PICK m : m = First(Matching(mid, a, row))
        OBVIOUS
      <4>2. /\ last.unmatched = mid.unmatched
            /\ m \in mid.pending[a] /\ m.token = row.token /\ m.value = row.value
            /\ Bal(last, a) = [Bal(mid, a) EXCEPT ![row.token] = Left(@, row)]
            /\ last.pending[a] = {t \in mid.pending[a] : t.tx # m.tx}
            /\ Recv(last, a) = [Recv(mid, a) EXCEPT ![i] = m]
        BY <1>1, <1>6, <3>4, <3>6, <4>1, MatchedView
      <4>3. GoodFor(Bal(last, a), last.pending[a], Recv(last, a), mid.unmatched, a, i, j + 1, named)
        BY <2>2, <3>3, <3>4, <4>2, MatchedGood
      <4> QED
        BY <4>2, <4>3 DEF StateGood
    <3> QED
      BY <3>5, <3>6
  <2>3. CASE a \notin named \/ a \notin {row.from, row.to}
    <3>1. GoodFor(Bal(st, a), st.pending[a], Recv(st, a), st.unmatched, a, i, j, named)
      BY <1>10 DEF StateGood
    <3>2. GoodFor(Bal(st, a), st.pending[a], Recv(st, a), st.unmatched, a, i, j + 1, named)
      BY <2>3, <3>1, IdleGood
    <3>3. StateGood(st, a, i, j + 1, named)
      BY <3>2 DEF StateGood
    <3>4. StateGood(mid, a, i, j + 1, named)
      BY <1>7, <1>8, <2>3, <3>3, SameGood
    <3> QED
      BY <1>9, <2>3, <3>4, SameGood
  <2> QED
    BY <2>1, <2>2, <2>3
<1> QED
  BY <1>4, <1>6, <1>11 DEF Fits

\* And after a block.
LEMMA BlockGood ==
    ASSUME ChainInv, NEW i \in 1..Len(txs), NEW st, NEW named, named \subseteq Accounts, Named(i) \subseteq named,
           Fits(st, i, 0, named)
    PROVE  Fits(ProcessBlock(st, i, named), i, Size(i), named)
<1>1. st \in IndexStates
  BY DEF Fits
<1>2. PICK S : IsBlockRun(S, st, i, named) /\ ProcessBlock(st, i, named) = S[Size(i)]
  BY <1>1, BlockRun
<1>3. PICK n \in Nat : n = Size(i)
  BY TxParts
<1> DEFINE G == {j \in Nat : j <= n => Fits(S[j], i, j, named)}
<1>4. 0 \in G
  BY <1>2 DEF IsBlockRun
<1>5. ASSUME NEW j \in Nat, j \in G PROVE j + 1 \in G
  <2> SUFFICES ASSUME j + 1 <= n PROVE Fits(S[j + 1], i, j + 1, named)
    OBVIOUS
  <2>1. j + 1 \in 1..Size(i) /\ (j + 1) - 1 = j /\ j <= n /\ j + 1 \in Nat
    BY <1>3
  <2>2. Fits(S[j], i, j, named)
    BY <1>5, <2>1
  <2>3. PICK row : row = BlockRow(i, j + 1)
    OBVIOUS
  <2>4. NextLog(i, j, row)
    BY <2>1, <2>3 DEF NextLog
  <2>5. S[j + 1] = IF row.token \in Tokens THEN Process(S[j], row, named) ELSE S[j]
    BY <1>2, <2>1, <2>3 DEF IsBlockRun
  <2>6. CASE row.token \in Tokens
    BY <2>2, <2>4, <2>5, <2>6, ProcessGood
  <2>7. CASE row.token \notin Tokens
    <3>1. PICK s : s = S[j]
      OBVIOUS
    <3>2. s \in IndexStates /\ \A a \in Accounts : GoodFor(Bal(s, a), s.pending[a], Recv(s, a), s.unmatched, a, i, j, named)
      BY <2>2, <3>1 DEF Fits, StateGood
    <3>3. \A a \in Accounts : GoodFor(Bal(s, a), s.pending[a], Recv(s, a), s.unmatched, a, i, j + 1, named)
      BY <2>4, <2>7, <3>2, IdleGood
    <3>4. Fits(s, i, j + 1, named)
      BY <3>2, <3>3 DEF Fits, StateGood
    <3> QED
      BY <2>5, <2>7, <3>1, <3>4
  <2> QED
    BY <2>6, <2>7
<1>6. n \in G
  <2>1. Nat \subseteq G
    <3> HIDE DEF G
    <3> QED
      BY <1>4, <1>5, Induction
  <2> QED
    BY <2>1
<1> QED
  BY <1>2, <1>3, <1>6

\* What fits the end of a block fits the beginning of the next one.
LEMMA NextBlock ==
    ASSUME ChainInv, NEW i \in 1..Len(txs), i + 1 \in 1..Len(txs), NEW st, NEW named, Fits(st, i, Size(i), named)
    PROVE  Fits(st, i + 1, 0, named)
<1>1. st \in IndexStates /\ i \in Nat /\ (i + 1) - 1 = i /\ i + 1 \in Nat
  BY TxParts DEF Fits
<1> SUFFICES ASSUME NEW a \in Accounts PROVE StateGood(st, a, i + 1, 0, named)
  BY <1>1 DEF Fits
<1>2. PICK box, pend, recv, un : box = Bal(st, a) /\ pend = st.pending[a] /\ recv = Recv(st, a) /\ un = st.unmatched
  OBVIOUS
<1>3. GoodFor(box, pend, recv, un, a, i, Size(i), named)
  BY <1>2 DEF Fits, StateGood
<1>4. \A k \in Tokens : HeldAt(a, k, i + 1, 0) = HeldAt(a, k, i, Size(i))
  <2> SUFFICES ASSUME NEW k \in Tokens PROVE HeldAt(a, k, i + 1, 0) = HeldAt(a, k, i, Size(i))
    OBVIOUS
  <2>1. k \in Coins
    BY Constants
  <2>2. HeldAt(a, k, i + 1, 0) = HeldAfter(a, k, (i + 1) - 1)
    BY <2>1, PartEnds
  <2>3. HeldAt(a, k, i, Size(i)) = HeldAfter(a, k, i)
    BY <2>1, PartEnds
  <2> QED
    BY <1>1, <2>2, <2>3
<1>5. /\ Typed(box, pend, recv) /\ AtMostHeld(box, pend, a, i, Size(i)) /\ NothingYet(box, pend, a, named)
      /\ AllHeld(pend, un, a, i, Size(i)) /\ Came(pend, a, i, Size(i)) /\ Origins(recv, pend, a, i)
  BY <1>3 DEF GoodFor
<1>6. AtMostHeld(box, pend, a, i + 1, 0)
  BY <1>4, <1>5 DEF AtMostHeld
<1>7. AllHeld(pend, un, a, i + 1, 0)
  <2>1. Apart(a, i + 1) => Apart(a, i)
    <3>1. 1..i \subseteq 1..i + 1
      BY <1>1
    <3> QED
      BY <3>1 DEF Apart
  <2> QED
    BY <1>4, <1>5, <2>1 DEF AllHeld
<1>8. Came(pend, a, i + 1, 0)
  <2>1. ASSUME NEW r \in pend PROVE r.tx <= i => r.tx <= i + 1 /\ r.tx # i + 1
    BY <1>1, <1>5, PendRows DEF Typed
  <2> QED
    BY <1>5, <2>1 DEF Came
<1>9. Origins(recv, pend, a, i + 1)
  <2>1. \A l \in 1..MaxTxs : l <= i => l <= i + 1
    BY <1>1, Constants
  <2> QED
    BY <1>5, <2>1 DEF Origins
<1> QED
  BY <1>2, <1>5, <1>6, <1>7, <1>8, <1>9 DEF StateGood, GoodFor

\* More names do not disturb what there is.
LEMMA MoreNames ==
    ASSUME NEW st, NEW i, NEW j, NEW named, NEW more, named \subseteq more, Fits(st, i, j, named)
    PROVE  Fits(st, i, j, more)
<1> SUFFICES ASSUME NEW a \in Accounts PROVE StateGood(st, a, i, j, more)
  BY DEF Fits
<1>1. StateGood(st, a, i, j, named)
  BY DEF Fits
<1>2. NothingYet(Bal(st, a), st.pending[a], a, named) => NothingYet(Bal(st, a), st.pending[a], a, more)
  BY DEF NothingYet
<1> QED
  BY <1>1, <1>2 DEF StateGood, GoodFor

\* The indexer at its start.
Fresh(st) ==
    /\ st \in IndexStates
    /\ st.inbox = [p \in Accounts \X Tokens |-> 0] /\ st.pending = [a \in Accounts |-> {}]
    /\ st.receiveOf = [p \in Accounts \X (1..MaxTxs) |-> None] /\ st.unmatched = {}

\* It fits the start of the chain.
LEMMA FreshGood ==
    ASSUME ChainInv, NEW st, Fresh(st), NEW named
    PROVE  Fits(st, 1, 0, named)
<1> SUFFICES ASSUME NEW a \in Accounts PROVE StateGood(st, a, 1, 0, named)
  BY DEF Fits, Fresh
<1>1. PICK box, pend, recv, un : box = Bal(st, a) /\ pend = st.pending[a] /\ recv = Recv(st, a) /\ un = st.unmatched
  OBVIOUS
<1>2. box = [k \in Tokens |-> 0] /\ pend = {} /\ recv = [l \in 1..MaxTxs |-> None]
  <2>1. \A k \in Tokens : st.inbox[<<a, k>>] = 0
    BY DEF Fresh
  <2>2. \A l \in 1..MaxTxs : st.receiveOf[<<a, l>>] = None
    BY DEF Fresh
  <2>3. st.pending[a] = {}
    BY DEF Fresh
  <2> QED
    BY <1>1, <2>1, <2>2, <2>3 DEF Bal, Recv
<1>3. Typed(box, pend, recv)
  BY <1>2, FS_EmptySet DEF Typed
<1>4. \A k \in Tokens : HeldAt(a, k, 1, 0) = 0 /\ PendSum(pend, k) = 0 /\ box[k] = 0
  <2> SUFFICES ASSUME NEW k \in Tokens PROVE HeldAt(a, k, 1, 0) = 0 /\ PendSum(pend, k) = 0 /\ box[k] = 0
    OBVIOUS
  <2>1. k \in Coins /\ 1 \in 1..Len(txs)
    BY Constants DEF ChainInv
  <2>2. HeldAt(a, k, 1, 0) = HeldAfter(a, k, 1 - 1)
    BY <2>1, PartEnds
  <2>3. HeldAfter(a, k, 1 - 1) = 0
    BY DEF HeldAfter
  <2> QED
    BY <1>2, <2>2, <2>3, PendSumNone
<1>5. AtMostHeld(box, pend, a, 1, 0) /\ AllHeld(pend, un, a, 1, 0) /\ NothingYet(box, pend, a, named)
  BY <1>2, <1>4 DEF AtMostHeld, AllHeld, NothingYet
<1>6. Came(pend, a, 1, 0) /\ Origins(recv, pend, a, 1)
  BY <1>2 DEF Came, Origins
<1> QED
  BY <1>1, <1>3, <1>5, <1>6 DEF StateGood, GoodFor

\* The indexer between two loads.
IndexInv ==
    /\ tip \in 0..Len(txs) /\ Now \in IndexStates
    /\ tip = 0 => Fresh(Now)
    /\ tip # 0 => Fits(Now, tip, Size(tip), Named(tip))

\* After a load from where the last one ended, or from the start, the indexer fits the chain.
LEMMA LoadGood ==
    ASSUME ChainInv, IndexInv, NEW n \in Nat, tip < n, n <= Len(txs)
    PROVE  Fits(Loaded(n)[n], n, Size(n), Named(n)) /\ n \in 1..Len(txs)
<1>1. Len(txs) \in Nat /\ tip \in Nat /\ Now \in IndexStates /\ n \in 1..Len(txs)
  BY Constants DEF ChainInv, IndexInv
<1>2. PICK S : IsLoadRun(S, n) /\ Loaded(n)[n] = S[n]
  BY <1>1, LoadRun
<1>3. PICK named : named = Named(n)
  OBVIOUS
<1>4. named \subseteq Accounts /\ \A i \in 0..n : Named(i) \subseteq named
  BY <1>1, <1>3, NamedParts
<1> DEFINE G == {d \in Nat : tip + d < n => Fits(S[tip + d], tip + d + 1, 0, named)}
<1>5. 0 \in G
  <2>1. S[tip] = Now
    BY <1>1, <1>2 DEF IsLoadRun
  <2>2. CASE tip = 0
    <3>1. Fits(Now, 1, 0, named)
      BY <2>2, FreshGood DEF IndexInv
    <3> QED
      BY <2>1, <2>2, <3>1
  <2>3. CASE tip # 0
    <3>1. Fits(Now, tip, Size(tip), Named(tip)) /\ tip \in 0..n
      BY <1>1, <2>3 DEF IndexInv
    <3>2. Fits(Now, tip, Size(tip), named)
      BY <1>4, <3>1, MoreNames
    <3>3. tip \in 1..Len(txs) /\ tip + 1 \in 1..Len(txs)
      BY <1>1, <2>3
    <3>4. Fits(Now, tip + 1, 0, named)
      BY <3>2, <3>3, NextBlock
    <3> QED
      BY <1>1, <2>1, <3>4
  <2> QED
    BY <2>2, <2>3
<1>6. ASSUME NEW i \in 1..n, tip < i, Fits(S[i - 1], i, 0, named) PROVE Fits(S[i], i, Size(i), named)
  <2>1. i \in 0..n /\ ~(i <= tip) /\ i \in 1..Len(txs)
    BY <1>1, <1>6
  <2>2. S[i] = ProcessBlock(S[i - 1], i, named)
    BY <1>2, <1>3, <2>1 DEF IsLoadRun
  <2> QED
    BY <1>4, <1>6, <2>1, <2>2, BlockGood
<1>7. ASSUME NEW d \in Nat, d \in G PROVE d + 1 \in G
  <2> SUFFICES ASSUME tip + (d + 1) < n PROVE Fits(S[tip + (d + 1)], tip + (d + 1) + 1, 0, named)
    OBVIOUS
  <2>1. PICK i \in Nat : i = tip + d + 1
    BY <1>1
  <2>2. i \in 1..n /\ tip < i /\ i - 1 = tip + d /\ tip + d < n /\ i + 1 = tip + (d + 1) + 1 /\ i = tip + (d + 1)
        /\ i + 1 \in 1..Len(txs) /\ i \in 1..Len(txs)
    BY <1>1, <2>1
  <2>3. Fits(S[tip + d], tip + d + 1, 0, named)
    BY <1>7, <2>2
  <2>4. Fits(S[i - 1], i, 0, named)
    BY <2>1, <2>2, <2>3
  <2>5. Fits(S[i], i, Size(i), named)
    BY <1>6, <2>2, <2>4
  <2>6. Fits(S[i], i + 1, 0, named)
    BY <2>2, <2>5, NextBlock
  <2> QED
    BY <2>2, <2>6
<1>8. Fits(S[n - 1], n, 0, named)
  <2>1. Nat \subseteq G
    <3> HIDE DEF G
    <3> QED
      BY <1>5, <1>7, Induction
  <2>2. PICK d \in Nat : d = (n - 1) - tip
    BY <1>1
  <2>3. tip + d = n - 1 /\ tip + d < n /\ tip + d + 1 = n
    BY <1>1, <2>2
  <2>4. Fits(S[tip + d], tip + d + 1, 0, named)
    BY <2>1, <2>3
  <2> QED
    BY <2>3, <2>4
<1>9. Fits(S[n], n, Size(n), named)
  BY <1>1, <1>6, <1>8
<1> QED
  BY <1>1, <1>2, <1>3, <1>9

-----------------------------------------------------------------------------
(* Every step keeps the fit *)

\* What is on the chain stays there.
LEMMA SamePast ==
    ASSUME ChainInv, ChainGrows, NEW l \in 1..Len(txs)
    PROVE  /\ txs'[l] = txs[l] /\ RowsOf(l)' = RowsOf(l) /\ Size(l)' = Size(l) /\ Named(l)' = Named(l)
           /\ \A j : Part(l, j)' = Part(l, j)
           /\ \A a, k : HeldAfter(a, k, l)' = HeldAfter(a, k, l) /\ HeldAfter(a, k, l - 1)' = HeldAfter(a, k, l - 1)
<1>1. \A i \in 1..Len(txs) : txs'[i] = txs[i]
  BY DEF ChainGrows
<1>2. Len(txs) \in Nat /\ l \in Nat
  BY Constants DEF ChainInv
<1>3. RowsOf(l)' = RowsOf(l) /\ Size(l)' = Size(l)
  BY <1>1 DEF RowsOf, Size
<1>4. \A j : Part(l, j)' = Part(l, j)
  BY <1>3 DEF Part
<1>5. Named(l)' = Named(l)
  <2>1. \A j \in 1..l : txs'[j] = txs[j]
    BY <1>1, <1>2
  <2> QED
    BY <2>1 DEF Named
<1>6. \A a, k : HeldAfter(a, k, l)' = HeldAfter(a, k, l) /\ HeldAfter(a, k, l - 1)' = HeldAfter(a, k, l - 1)
  <2>1. l - 1 = 0 \/ l - 1 \in 1..Len(txs)
    BY <1>2
  <2> QED
    BY <1>1, <2>1 DEF HeldAfter, Held
<1> QED
  BY <1>1, <1>3, <1>4, <1>5, <1>6

\* What the indexer has of the past does not change with what comes after it.
LEMMA FitsStable ==
    ASSUME ChainInv, ChainGrows, NEW n \in 1..Len(txs), NEW s, NEW named, NEW z, Fits(s, n, z, named)
    PROVE  Fits(s, n, z, named)'
<1>0. Len(txs) \in Nat /\ n \in Nat /\ s \in IndexStates
  BY Constants DEF ChainInv, Fits
<1> SUFFICES ASSUME NEW a \in Accounts PROVE StateGood(s, a, n, z, named)'
  BY <1>0 DEF Fits
<1>1. PICK box, pend, recv, un : box = Bal(s, a) /\ pend = s.pending[a] /\ recv = Recv(s, a) /\ un = s.unmatched
  OBVIOUS
<1>2. /\ Typed(box, pend, recv) /\ AtMostHeld(box, pend, a, n, z) /\ NothingYet(box, pend, a, named)
      /\ AllHeld(pend, un, a, n, z) /\ Came(pend, a, n, z) /\ Origins(recv, pend, a, n)
  BY <1>1 DEF Fits, StateGood, GoodFor
<1>3. \A l \in 1..n : RowsOf(l)' = RowsOf(l) /\ Named(l)' = Named(l)
  <2>1. \A l \in 1..n : l \in 1..Len(txs)
    BY <1>0
  <2> QED
    BY <2>1, SamePast
<1>4. \A k : HeldAt(a, k, n, z)' = HeldAt(a, k, n, z)
  BY SamePast DEF HeldAt, InAt, OutAt
<1>5. AtMostHeld(box, pend, a, n, z)'
  BY <1>2, <1>4 DEF AtMostHeld, PendSum
<1>6. AllHeld(pend, un, a, n, z)'
  <2>1. Apart(a, n)' => Apart(a, n)
    BY <1>3 DEF Apart
  <2>2. \A r \in pend : r.tx \in 1..n
    <3>1. \A r \in pend : r.tx \in 1..MaxTxs /\ r.tx \in Nat /\ r.tx <= n
      BY <1>2, PendRows DEF Typed, Came
    <3> QED
      BY <1>0, <3>1
  <2> SUFFICES ASSUME a \notin un, Apart(a, n)'
               PROVE  (\A k \in Tokens : PendSum(pend, k) = HeldAt(a, k, n, z)') /\ \A r \in pend : r \in RowsOf(r.tx)'
    BY DEF AllHeld, PendSum
  <2>3. (\A k \in Tokens : PendSum(pend, k) = HeldAt(a, k, n, z)) /\ \A r \in pend : r \in RowsOf(r.tx)
    BY <1>2, <2>1 DEF AllHeld
  <2>4. ASSUME NEW r \in pend PROVE r \in RowsOf(r.tx)'
    <3>1. PICK l \in 1..n : l = r.tx
      BY <2>2
    <3>2. r \in RowsOf(l)'
      BY <1>3, <2>3, <3>1
    <3> QED
      BY <3>1, <3>2
  <2> QED
    BY <1>4, <2>3, <2>4
<1>7. Came(pend, a, n, z)'
  BY <1>2, SamePast DEF Came, Touched
<1>8. Origins(recv, pend, a, n)'
  <2> SUFFICES ASSUME NEW l \in 1..MaxTxs, recv[l] # None
               PROVE  /\ recv[l].to = a /\ recv[l].token \in Tokens /\ recv[l].tx < l /\ l <= n
                      /\ \E t \in RowsOf(l)' : t.from = a /\ t.token = recv[l].token /\ t.value = recv[l].value
                      /\ \A m \in 1..MaxTxs : recv[m] = recv[l] => m = l
                      /\ \A t \in pend : t.tx # recv[l].tx
    BY DEF Origins
  <2>1. /\ recv[l].to = a /\ recv[l].token \in Tokens /\ recv[l].tx < l /\ l <= n
        /\ \E t \in RowsOf(l) : t.from = a /\ t.token = recv[l].token /\ t.value = recv[l].value
        /\ \A m \in 1..MaxTxs : recv[m] = recv[l] => m = l
        /\ \A t \in pend : t.tx # recv[l].tx
    BY <1>2 DEF Origins
  <2>2. l \in 1..n
    BY <1>0, <2>1
  <2> QED
    BY <1>3, <2>1, <2>2
<1>9. GoodFor(box, pend, recv, un, a, n, z, named)'
  BY <1>2, <1>5, <1>6, <1>7, <1>8 DEF GoodFor, Typed, NothingYet
<1> QED
  BY <1>1, <1>9 DEF StateGood, Bal, Recv

LEMMA FreshNow ==
    ASSUME Nothing
    PROVE  Fresh(Now)
<1>1. Now.inbox = inbox /\ Now.pending = pending /\ Now.receiveOf = receiveOf /\ Now.unmatched = unmatched
  BY DEF Now
<1>2. \A a \in Accounts : IsFiniteSet(pending[a])
  BY FS_EmptySet DEF Nothing
<1>3. Now \in IndexStates
  BY <1>2 DEF Now, IndexStates, Nothing
<1> QED
  BY <1>1, <1>3 DEF Fresh, Nothing

\* At the start nothing is indexed.
LEMMA IndexAtStart ==
    ASSUME Init
    PROVE  IndexInv
<1>1. Nothing /\ tip = 0 /\ ChainInv
  BY ChainInit DEF Init
<1>2. Fresh(Now)
  BY <1>1, FreshNow
<1>3. Now \in IndexStates
  BY <1>2 DEF Fresh
<1> QED
  BY <1>1, <1>2, <1>3 DEF IndexInv, ChainInv

\* A step that loads nothing.
LEMMA IdleIndex ==
    ASSUME ChainInv, ChainInv', ChainGrows, IndexInv, UNCHANGED <<tip, foreignVars>>
    PROVE  IndexInv'
<1>1. PICK s, n, named : s = Now /\ n = tip /\ named = Named(tip)
  OBVIOUS
<1>2. Now' = s /\ tip' = n
  BY <1>1 DEF Now, foreignVars
<1>3. Len(txs) \in Nat /\ Len(txs') \in Nat /\ Len(txs) <= Len(txs')
  BY Constants DEF ChainInv, ChainGrows
<1>4. n \in 0..Len(txs) /\ s \in IndexStates /\ (n = 0 => Fresh(s)) /\ (n # 0 => Fits(s, n, Size(n), Named(n)))
  BY <1>1 DEF IndexInv
<1>5. n # 0 => Fits(s, n, Size(n), Named(n))'
  <2> SUFFICES ASSUME n # 0 PROVE Fits(s, n, Size(n), Named(n))'
    OBVIOUS
  <2>1. n \in 1..Len(txs)
    BY <1>3, <1>4
  <2>2. PICK z, m : z = Size(n) /\ m = Named(n)
    OBVIOUS
  <2>3. Fits(s, n, z, m)'
    BY <1>4, <2>1, <2>2, FitsStable
  <2>4. Size(n)' = z /\ Named(n)' = m
    BY <2>1, <2>2, SamePast
  <2> QED
    BY <2>3, <2>4
<1>6. n \in 0..Len(txs')
  BY <1>3, <1>4
<1> QED
  BY <1>2, <1>4, <1>5, <1>6 DEF IndexInv, Fresh

LEMMA LoadIndex ==
    ASSUME ChainInv, ChainInv', ChainGrows, IndexInv, NEW n \in 1..MaxTxs, Load(n)
    PROVE  IndexInv'
<1>1. tip < n /\ n <= Len(txs) /\ tip' = n /\ LoadForeign(n) /\ n \in Nat /\ txs' = txs
  BY Constants DEF Load, chainVars
<1>2. PICK s, z, m : s = Loaded(n)[n] /\ z = Size(n) /\ m = Named(n)
  OBVIOUS
<1>3. Fits(s, n, z, m) /\ n \in 1..Len(txs)
  BY <1>1, <1>2, LoadGood
<1>4. s \in IndexStates
  BY <1>3 DEF Fits
<1>5. Now' = s
  <2>1. inbox' = s.inbox /\ pending' = s.pending /\ receiveOf' = s.receiveOf /\ unmatched' = s.unmatched
    BY <1>1, <1>2, Zenon DEF LoadForeign
  <2>2. s = [inbox |-> s.inbox, pending |-> s.pending, receiveOf |-> s.receiveOf, unmatched |-> s.unmatched]
    BY <1>4 DEF IndexStates
  <2> QED
    BY <2>1, <2>2 DEF Now
<1>6. Fits(s, n, z, m)' /\ Size(n)' = z /\ Named(n)' = m
  BY <1>2, <1>3, FitsStable, SamePast
<1>7. n # 0 /\ n \in 0..Len(txs')
  BY <1>1, <1>3
<1>8. Fits(s, n, Size(n), Named(n))'
  BY <1>6
<1> QED
  BY <1>1, <1>4, <1>5, <1>7, <1>8 DEF IndexInv

\* A restart forgets everything.
LEMMA RestartIndex ==
    ASSUME ChainInv', Restart
    PROVE  IndexInv'
<1>1. Nothing' /\ tip' = 0
  BY DEF Restart, Nothing
<1>2. Fresh(Now)'
  BY <1>1, FreshNow, PTL
<1>3. (Now \in IndexStates)'
  BY <1>2 DEF Fresh
<1>4. tip' \in 0..Len(txs')
  BY <1>1 DEF ChainInv
<1> QED
  BY <1>1, <1>2, <1>3, <1>4 DEF IndexInv

\* Every step leaves an indexer that fits the chain up to where it has loaded.
LEMMA IndexKeeps ==
    ASSUME ChainInv, ChainInv', ChainGrows, IndexInv, [Next]_vars
    PROVE  IndexInv'
<1>1. CASE ChainStep \/ Clogs \/ UNCHANGED vars
  <2>1. UNCHANGED <<tip, foreignVars>>
    BY <1>1 DEF ChainStep, RegisterName, ReceiveTokens, SwapTokens, SendTokens, PayHome, PaySwapped, Bridge,
                Arrive, IndexStart, AddHome, Add, Clogs, LoadClogTransfers, LoadStarts, LoadCrossChain, vars
  <2> QED
    BY <2>1, IdleIndex
<1>2. CASE Tick
  BY <1>2, LoadIndex DEF Tick
<1>3. CASE Restart
  BY <1>3, RestartIndex
<1> QED
  BY <1>1, <1>2, <1>3 DEF Next

-----------------------------------------------------------------------------
(* What was found of each transaction *)

\* The transfers that were found are of an operation, or the start of a transfer from another chain.
FoundOf(i) ==
    /\ i \in 1..tip
    /\ \/ txs[i].op /\ matched[i] \subseteq Here(i) \cup Start(i)
       \/ txs[i].kind = "arrive" /\ matched[i] = {Origin(i)}

FoundInv ==
    /\ startSeen \subseteq 1..Len(txs) /\ missed \subseteq 1..Len(txs)
    /\ due \subseteq Range2 /\ \A d \in due : d.to <= tip
    /\ matched \in [1..MaxTxs -> SUBSET Match]
    /\ \A i \in 1..MaxTxs : matched[i] # {} => FoundOf(i)

\* What a search finds has its type.
LEMMA FoundTypes ==
    ASSUME ChainInv, NEW i \in 1..Len(txs)
    PROVE  /\ Here(i) \subseteq Match /\ Start(i) \subseteq Match
           /\ txs[i].kind = "arrive" => Origin(i) \in Match
<1>1. /\ \A r \in RowsOf(i) : r.token \in Coins /\ r.from \in Addresses /\ r.to \in Addresses /\ r.value \in Nat
      /\ txs[i].acct \in Accounts /\ txs[i].moves \in Seq(Move) /\ Shape(txs[i])
  BY RowsOfParts, TxParts
<1>2. Here(i) \subseteq Match
  <2>1. ASSUME NEW r \in RowsOf(i)
        PROVE  [token |-> r.token, from |-> r.from, to |-> r.to, value |-> r.value, away |-> FALSE] \in Match
    <3>1. r.token \in Coins /\ r.from \in Addresses /\ r.to \in Addresses /\ r.value \in Nat
      BY <1>1
    <3> QED
      BY <3>1 DEF Match
  <2> QED
    BY <2>1 DEF Here
<1>3. txs[i].kind \in {"bridge", "arrive"} => txs[i].moves[1].value \in Nat
  <2>1. txs[i].kind \in {"bridge", "arrive"} => DOMAIN txs[i].moves = {1}
    BY <1>1 DEF Shape
  <2>2. DOMAIN txs[i].moves = {1} => txs[i].moves[1] \in Move
    BY <1>1
  <2> QED
    BY <2>1, <2>2 DEF Move
<1>4. Home \in Coins /\ Outside \in Addresses /\ txs[i].acct \in Addresses
  BY <1>1, Constants
<1>5. Start(i) \subseteq Match
  <2>1. PICK a, v : a = txs[i].acct /\ v = txs[i].moves[1].value
    OBVIOUS
  <2>2. v \in Nat => [token |-> Home, from |-> a, to |-> Outside, value |-> v, away |-> TRUE] \in Match
    BY <1>4, <2>1 DEF Match
  <2> QED
    BY <1>3, <2>1, <2>2 DEF Start
<1>6. txs[i].kind = "arrive" => Origin(i) \in Match
  BY <1>3, <1>4 DEF Origin, Match
<1> QED
  BY <1>2, <1>5, <1>6

LEMMA SameFound ==
    ASSUME ChainInv, ChainGrows, NEW i \in 1..Len(txs)
    PROVE  Here(i)' = Here(i) /\ Start(i)' = Start(i) /\ Origin(i)' = Origin(i)
<1>1. txs'[i] = txs[i] /\ RowsOf(i)' = RowsOf(i)
  BY SamePast
<1> QED
  BY <1>1 DEF Here, Start, Origin

LEMMA FoundStart ==
    ASSUME Init
    PROVE  FoundInv
<1>1. startSeen = {} /\ due = {} /\ missed = {} /\ matched = [i \in 1..MaxTxs |-> {}]
  BY DEF Init
<1> QED
  BY <1>1 DEF FoundInv

\* What was found is still there when the chain and the index have grown.
LEMMA FoundStays ==
    ASSUME ChainInv, ChainGrows, tip \in 0..Len(txs), NEW n \in Nat, tip <= n, tip' = n,
           NEW i \in 1..MaxTxs, matched[i] # {}, FoundOf(i), matched'[i] = matched[i]
    PROVE  FoundOf(i)'
<1>1. Len(txs) \in Nat /\ i \in 1..tip
  BY Constants DEF ChainInv, FoundOf
<1>2. i \in 1..Len(txs) /\ i \in 1..n
  BY <1>1
<1>3. txs'[i] = txs[i] /\ Here(i)' = Here(i) /\ Start(i)' = Start(i) /\ Origin(i)' = Origin(i)
  BY <1>2, SamePast, SameFound
<1> QED
  BY <1>2, <1>3 DEF FoundOf

LEMMA FoundIdle ==
    ASSUME ChainInv, ChainInv', ChainGrows, tip \in 0..Len(txs), FoundInv,
           UNCHANGED <<tip, matched, missed, due>>, startSeen' \subseteq 1..Len(txs)
    PROVE  FoundInv'
<1>1. tip \in Nat /\ Len(txs) \in Nat /\ Len(txs) <= Len(txs') /\ Len(txs') \in Nat
  BY Constants DEF ChainInv, ChainGrows
<1>2. 1..Len(txs) \subseteq 1..Len(txs')
  BY <1>1
<1>3. ASSUME NEW i \in 1..MaxTxs, matched[i] # {} PROVE FoundOf(i)'
  <2>1. FoundOf(i)
    BY <1>3 DEF FoundInv
  <2> QED
    BY <1>1, <1>3, <2>1, FoundStays
<1> QED
  BY <1>2, <1>3 DEF FoundInv

LEMMA FoundLoad ==
    ASSUME ChainInv, ChainGrows, tip \in 0..Len(txs), FoundInv, NEW n \in 1..MaxTxs, Load(n)
    PROVE  FoundInv'
<1>1. /\ tip < n /\ n <= Len(txs) /\ tip' = n /\ due' = due \cup Loads(n) /\ n \in Nat
      /\ txs' = txs /\ startSeen' = startSeen /\ matched' = matched /\ missed' = missed
  BY Constants DEF Load, chainVars
<1>2. tip \in Nat /\ Len(txs) \in Nat /\ MaxTxs \in Nat
  BY Constants DEF ChainInv
<1>3. tip + 1 \in 1..MaxTxs
  BY <1>1, <1>2
<1>4. \A d \in Loads(n) : d \in Range2 /\ d.to <= n
  BY <1>1, <1>3 DEF Loads, Range2
<1>5. \A d \in due : d \in Range2 /\ d.to <= n
  <2> SUFFICES ASSUME NEW d \in due PROVE d \in Range2 /\ d.to <= n
    OBVIOUS
  <2>1. d \in Range2 /\ d.to <= tip
    BY DEF FoundInv
  <2>2. d.to \in Nat
    BY <2>1, <1>2 DEF Range2
  <2> QED
    BY <1>1, <1>2, <2>1, <2>2
<1>6. ASSUME NEW i \in 1..MaxTxs, matched[i] # {} PROVE FoundOf(i)'
  <2>1. FoundOf(i)
    BY <1>6 DEF FoundInv
  <2> QED
    BY <1>1, <1>2, <1>6, <2>1, FoundStays
<1> QED
  BY <1>1, <1>4, <1>5, <1>6 DEF FoundInv

\* A search for the transfers of operations, late or not, finds those of its transactions.
LEMMA FoundTransfers ==
    ASSUME ChainInv, tip \in 0..Len(txs), FoundInv, NEW d \in due, LoadClogTransfers(d)
    PROVE  FoundInv'
<1>1. /\ matched' = [i \in 1..MaxTxs |->
                       IF i \in Ops(d.from, d.to) THEN matched[i] \cup Here(i) ELSE matched[i]]
      /\ due' = (due \ {d}) \cup {[d EXCEPT !.load = "starts"]} /\ txs' = txs /\ startSeen' = startSeen /\ tip' = tip /\ missed' = missed
  BY DEF LoadClogTransfers, chainVars
<1>2. tip \in Nat /\ Len(txs) \in Nat /\ MaxTxs \in Nat
  BY Constants DEF ChainInv
<1>3. d.from \in 1..MaxTxs /\ d.to \in 1..MaxTxs /\ d.to <= tip
  BY DEF FoundInv, Range2
<1>4. ASSUME NEW i \in Ops(d.from, d.to) PROVE i \in 1..tip /\ txs[i].op /\ i \in 1..Len(txs)
  BY <1>2, <1>3 DEF Ops
<1>5. ASSUME NEW i PROVE Here(i)' = Here(i) /\ Start(i)' = Start(i) /\ Origin(i)' = Origin(i)
  BY <1>1 DEF Here, Start, Origin, RowsOf
<1>6. ASSUME NEW i \in 1..MaxTxs PROVE matched'[i] \subseteq Match /\ (matched'[i] # {} => FoundOf(i)')
  <2>1. matched[i] \subseteq Match /\ (matched[i] # {} => FoundOf(i))
    BY DEF FoundInv
  <2>2. CASE i \in Ops(d.from, d.to)
    <3>1. matched'[i] = matched[i] \cup Here(i)
      BY <1>1, <2>2
    <3>2. i \in 1..tip /\ txs[i].op /\ i \in 1..Len(txs)
      BY <1>4, <2>2
    <3>3. Here(i) \subseteq Match /\ Start(i) \subseteq Match
      BY <3>2, FoundTypes
    <3>4. txs[i].kind # "arrive"
      <4>1. Shape(txs[i])
        BY <3>2, TxParts
      <4> QED
        BY <3>2, <4>1, Zenon DEF Shape
    <3>5. matched'[i] \subseteq Here(i) \cup Start(i)
      BY <2>1, <3>1, <3>4 DEF FoundOf
    <3> QED
      BY <1>1, <1>5, <3>2, <3>3, <3>5 DEF FoundOf
  <2>3. CASE i \notin Ops(d.from, d.to)
    <3>1. matched'[i] = matched[i]
      BY <1>1, <2>3
    <3> QED
      BY <1>1, <1>5, <2>1, <3>1 DEF FoundOf
  <2> QED
    BY <2>2, <2>3
<1>7. matched' \in [1..MaxTxs -> SUBSET Match]
  <2>1. matched' = [i \in 1..MaxTxs |-> matched'[i]]
    BY <1>1
  <2> QED
    BY <1>6, <2>1
<1>8. due' \subseteq Range2 /\ \A e \in due' : e.to <= tip
  <2>1. d \in Range2 /\ due \subseteq Range2 /\ \A e \in due : e.to <= tip
    BY DEF FoundInv
  <2>2. [d EXCEPT !.load = "starts"] \in Range2 /\ [d EXCEPT !.load = "starts"].to = d.to
    BY <2>1 DEF Range2
  <2> QED
    BY <1>1, <1>3, <2>1, <2>2
<1> QED
  BY <1>1, <1>6, <1>7, <1>8 DEF FoundInv

\* So does the search for their starts.
LEMMA FoundStarts ==
    ASSUME ChainInv, tip \in 0..Len(txs), FoundInv, NEW d \in due, LoadStarts(d)
    PROVE  FoundInv'
<1>1. /\ matched' = [i \in 1..MaxTxs |->
                       IF i \in Ops(d.from, d.to) THEN matched[i] \cup Start(i) ELSE matched[i]]
      /\ due' = due \ {d} /\ txs' = txs /\ startSeen' = startSeen /\ tip' = tip /\ missed' = missed
  BY DEF LoadStarts, chainVars
<1>2. tip \in Nat /\ Len(txs) \in Nat /\ MaxTxs \in Nat
  BY Constants DEF ChainInv
<1>3. d.from \in 1..MaxTxs /\ d.to \in 1..MaxTxs /\ d.to <= tip
  BY DEF FoundInv, Range2
<1>4. ASSUME NEW i \in Ops(d.from, d.to) PROVE i \in 1..tip /\ txs[i].op /\ i \in 1..Len(txs)
  BY <1>2, <1>3 DEF Ops
<1>5. ASSUME NEW i PROVE Here(i)' = Here(i) /\ Start(i)' = Start(i) /\ Origin(i)' = Origin(i)
  BY <1>1 DEF Here, Start, Origin, RowsOf
<1>6. ASSUME NEW i \in 1..MaxTxs PROVE matched'[i] \subseteq Match /\ (matched'[i] # {} => FoundOf(i)')
  <2>1. matched[i] \subseteq Match /\ (matched[i] # {} => FoundOf(i))
    BY DEF FoundInv
  <2>2. CASE i \in Ops(d.from, d.to)
    <3>1. matched'[i] = matched[i] \cup Start(i)
      BY <1>1, <2>2
    <3>2. i \in 1..tip /\ txs[i].op /\ i \in 1..Len(txs)
      BY <1>4, <2>2
    <3>3. Here(i) \subseteq Match /\ Start(i) \subseteq Match
      BY <3>2, FoundTypes
    <3>4. txs[i].kind # "arrive"
      <4>1. Shape(txs[i])
        BY <3>2, TxParts
      <4> QED
        BY <3>2, <4>1, Zenon DEF Shape
    <3>5. matched'[i] \subseteq Here(i) \cup Start(i)
      BY <2>1, <3>1, <3>4 DEF FoundOf
    <3> QED
      BY <1>1, <1>5, <3>2, <3>3, <3>5 DEF FoundOf
  <2>3. CASE i \notin Ops(d.from, d.to)
    <3>1. matched'[i] = matched[i]
      BY <1>1, <2>3
    <3> QED
      BY <1>1, <1>5, <2>1, <3>1 DEF FoundOf
  <2> QED
    BY <2>2, <2>3
<1>7. matched' \in [1..MaxTxs -> SUBSET Match]
  <2>1. matched' = [i \in 1..MaxTxs |-> matched'[i]]
    BY <1>1
  <2> QED
    BY <1>6, <2>1
<1> QED
  BY <1>1, <1>6, <1>7 DEF FoundInv

\* A search for the start of arrivals finds that of each.
LEMMA FoundCrossChain ==
    ASSUME ChainInv, tip \in 0..Len(txs), FoundInv, NEW d \in due, LoadCrossChain(d)
    PROVE  FoundInv'
<1>1. /\ matched' = [i \in 1..MaxTxs |->
                       IF i \in Arrivals(d.from, d.to) \cap startSeen THEN matched[i] \cup {Origin(i)} ELSE matched[i]]
      /\ missed' = missed \cup (Arrivals(d.from, d.to) \ startSeen)
      /\ due' = due \ {d} /\ txs' = txs /\ startSeen' = startSeen /\ tip' = tip
  BY DEF LoadCrossChain, chainVars
<1>2. tip \in Nat /\ Len(txs) \in Nat /\ MaxTxs \in Nat
  BY Constants DEF ChainInv
<1>3. d.from \in 1..MaxTxs /\ d.to \in 1..MaxTxs /\ d.to <= tip
  BY DEF FoundInv, Range2
<1>4. ASSUME NEW i \in Arrivals(d.from, d.to) PROVE i \in 1..tip /\ txs[i].kind = "arrive" /\ i \in 1..Len(txs)
  BY <1>2, <1>3 DEF Arrivals
<1>5. ASSUME NEW i PROVE Here(i)' = Here(i) /\ Start(i)' = Start(i) /\ Origin(i)' = Origin(i)
  BY <1>1 DEF Here, Start, Origin, RowsOf
<1>6. ASSUME NEW i \in 1..MaxTxs PROVE matched'[i] \subseteq Match /\ (matched'[i] # {} => FoundOf(i)')
  <2>1. matched[i] \subseteq Match /\ (matched[i] # {} => FoundOf(i))
    BY DEF FoundInv
  <2>2. CASE i \in Arrivals(d.from, d.to) \cap startSeen
    <3>1. matched'[i] = matched[i] \cup {Origin(i)}
      BY <1>1, <2>2
    <3>2. i \in 1..tip /\ txs[i].kind = "arrive" /\ i \in 1..Len(txs)
      BY <1>4, <2>2
    <3>3. Origin(i) \in Match
      BY <3>2, FoundTypes
    <3>4. ~txs[i].op
      <4>1. Shape(txs[i])
        BY <3>2, TxParts
      <4> QED
        BY <3>2, <4>1, Zenon DEF Shape
    <3>5. matched'[i] = {Origin(i)}
      BY <2>1, <3>1, <3>4 DEF FoundOf
    <3> QED
      BY <1>1, <1>5, <3>2, <3>3, <3>5 DEF FoundOf
  <2>3. CASE i \notin Arrivals(d.from, d.to) \cap startSeen
    <3>1. matched'[i] = matched[i]
      BY <1>1, <2>3
    <3> QED
      BY <1>1, <1>5, <2>1, <3>1 DEF FoundOf
  <2> QED
    BY <2>2, <2>3
<1>7. matched' \in [1..MaxTxs -> SUBSET Match]
  <2>1. matched' = [i \in 1..MaxTxs |-> matched'[i]]
    BY <1>1
  <2> QED
    BY <1>6, <2>1
<1>8. missed' \subseteq 1..Len(txs)
  BY <1>1, <1>4 DEF FoundInv
<1> QED
  BY <1>1, <1>6, <1>7, <1>8 DEF FoundInv

\* Every step leaves of each transaction what can be found of it.
LEMMA FoundKeeps ==
    ASSUME ChainInv, ChainInv', ChainGrows, tip \in 0..Len(txs), FoundInv, [Next]_vars
    PROVE  FoundInv'
<1>1. CASE ChainStep
  <2>1. /\ UNCHANGED <<tip, matched, missed, due>>
        /\ startSeen' = startSeen \/ \E i : startSeen' = startSeen \cup {i} /\ i \in 1..Len(txs)
    BY <1>1 DEF ChainStep, RegisterName, ReceiveTokens, SwapTokens, SendTokens, PayHome, PaySwapped, Bridge,
                Arrive, IndexStart, AddHome, Add
  <2>2. startSeen' \subseteq 1..Len(txs)
    BY <2>1 DEF FoundInv
  <2> QED
    BY <2>1, <2>2, FoundIdle
<1>2. CASE UNCHANGED vars
  <2>1. UNCHANGED <<tip, matched, missed, due, startSeen>>
    BY <1>2 DEF vars, chainVars
  <2>2. startSeen' \subseteq 1..Len(txs)
    BY <2>1 DEF FoundInv
  <2> QED
    BY <2>1, <2>2, FoundIdle
<1>3. CASE Tick
  BY <1>3, FoundLoad DEF Tick
<1>4. CASE Clogs
  BY <1>4, FoundTransfers, FoundStarts, FoundCrossChain DEF Clogs
<1>5. CASE Restart
  <2>1. /\ startSeen' = startSeen /\ txs' = txs /\ matched' = [i \in 1..MaxTxs |-> {}] /\ due' = {} /\ missed' = {}
    BY <1>5 DEF Restart, chainVars
  <2> QED
    BY <2>1 DEF FoundInv
<1> QED
  BY <1>1, <1>2, <1>3, <1>4, <1>5 DEF Next

-----------------------------------------------------------------------------
(* Theorems: types and what is pending *)

\* The inductive invariant: the chain accounts for what is held, the foreign coin indexer fits it, and of each
\* transaction only what is its own was found.
Inductive == ChainInv /\ IndexInv /\ FoundInv

\* It holds in every state, for any accounts, tokens, amounts and length of the chain.
THEOREM ClogsInvariant == Spec => []Inductive
<1>1. Init => Inductive
  BY ChainInit, IndexAtStart, FoundStart DEF Inductive
<1>2. Inductive /\ [Next]_vars => Inductive'
  <2> SUFFICES ASSUME Inductive, [Next]_vars PROVE Inductive'
    OBVIOUS
  <2>1. ChainInv /\ IndexInv /\ FoundInv
    BY DEF Inductive
  <2>2. ChainInv' /\ ChainGrows
    BY <2>1, ChainStepKeeps
  <2>3. IndexInv'
    BY <2>1, <2>2, IndexKeeps
  <2>4. FoundInv'
    BY <2>1, <2>2, FoundKeeps DEF IndexInv
  <2> QED
    BY <2>2, <2>3, <2>4 DEF Inductive
<1> QED
  BY <1>1, <1>2, PTL DEF Spec

\* Everything the API keeps has its type, and no more is indexed than there is.
THEOREM ClogsTypes == Spec => []TypeOK
<1>1. Inductive => TypeOK
  <2> SUFFICES ASSUME Inductive PROVE TypeOK
    OBVIOUS
  <2>1. ChainInv /\ IndexInv /\ FoundInv
    BY DEF Inductive
  <2>2. tip \in 0..Len(txs) /\ Now \in IndexStates
    BY <2>1 DEF IndexInv
  <2>3. CoinsTypeOK
    BY <2>2 DEF CoinsTypeOK, Now, IndexStates
  <2> QED
    BY <2>1, <2>3 DEF TypeOK, ChainInv, FoundInv
<1> QED
  BY <1>1, ClogsInvariant, PTL

\* What the invariant says of an account, in terms of what the indexer keeps.
LEMMA AccountParts ==
    ASSUME ChainInv, IndexInv, tip # 0, NEW a \in Accounts
    PROVE  /\ tip \in 1..Len(txs)
           /\ \A k \in Tokens : /\ PendingOf(a, k) <= inbox[<<a, k>>] /\ inbox[<<a, k>>] <= Held(a, k, tip)
                                /\ a \notin unmatched /\ TokensCameApart(a) => PendingOf(a, k) = Held(a, k, tip)
           /\ Origins([l \in 1..MaxTxs |-> receiveOf[<<a, l>>]], pending[a], a, tip)
<1>1. tip \in 1..Len(txs)
  BY Constants DEF ChainInv, IndexInv
<1>2. PICK box, pend, recv, un : box = Bal(Now, a) /\ pend = pending[a] /\ recv = Recv(Now, a) /\ un = unmatched
  OBVIOUS
<1>3. Now.pending = pending /\ Now.unmatched = unmatched
  BY DEF Now
<1>4. GoodFor(box, pend, recv, un, a, tip, Size(tip), Named(tip))
  BY <1>2, <1>3 DEF IndexInv, Fits, StateGood
<1>5. /\ AtMostHeld(box, pend, a, tip, Size(tip)) /\ AllHeld(pend, un, a, tip, Size(tip))
      /\ Origins(recv, pend, a, tip)
  BY <1>4 DEF GoodFor
<1>6. recv = [l \in 1..MaxTxs |-> receiveOf[<<a, l>>]] /\ \A k \in Tokens : box[k] = inbox[<<a, k>>]
  BY <1>2 DEF Recv, Bal, Now
<1>7. TokensCameApart(a) => Apart(a, tip)
  BY DEF TokensCameApart, Apart
<1>8. ASSUME NEW k \in Tokens PROVE PendSum(pend, k) = PendingOf(a, k) /\ HeldAt(a, k, tip, Size(tip)) = Held(a, k, tip)
  <2>1. k \in Coins
    BY Constants
  <2>2. HeldAt(a, k, tip, Size(tip)) = HeldAfter(a, k, tip)
    BY <1>1, <2>1, PartEnds
  <2> QED
    BY <1>2, <2>2 DEF HeldAfter, PendSum, PendingOf
<1>9. ASSUME NEW k \in Tokens
      PROVE  /\ PendingOf(a, k) <= inbox[<<a, k>>] /\ inbox[<<a, k>>] <= Held(a, k, tip)
             /\ a \notin unmatched /\ TokensCameApart(a) => PendingOf(a, k) = Held(a, k, tip)
  <2>1. PendSum(pend, k) <= box[k] /\ box[k] <= HeldAt(a, k, tip, Size(tip))
    BY <1>5 DEF AtMostHeld
  <2>2. a \notin unmatched /\ TokensCameApart(a) => PendSum(pend, k) = HeldAt(a, k, tip, Size(tip))
    BY <1>2, <1>5, <1>7 DEF AllHeld
  <2> QED
    BY <1>6, <1>8, <2>1, <2>2
<1> QED
  BY <1>1, <1>2, <1>5, <1>6, <1>9

\* The phone is never asked to swap more than the account holds, and an account that swaps what it received is asked
\* to swap all it holds, wherever loads end and the API restarts.
THEOREM InboxIsHeld == Spec => []PendingIsHeld
<1>1. Inductive => PendingIsHeld
  <2> SUFFICES ASSUME Inductive, tip > 0 PROVE PendingIsHeld
    BY DEF PendingIsHeld, PendingAtMostHeld, PendingIsAllHeld
  <2>1. ChainInv /\ IndexInv /\ tip # 0
    BY DEF Inductive, IndexInv
  <2> QED
    BY <2>1, AccountParts DEF PendingIsHeld, PendingAtMostHeld, PendingIsAllHeld
<1> QED
  BY <1>1, ClogsInvariant, PTL

-----------------------------------------------------------------------------
(* Theorems: the history shown *)

\* The receipt a swap is told to come from.
LEMMA OriginParts ==
    ASSUME ChainInv, IndexInv, NEW a \in Accounts, NEW i \in 1..MaxTxs, NEW r, r = receiveOf[<<a, i>>], r # None
    PROVE  /\ r.to = a /\ r.token \in Tokens /\ r.tx < i /\ i \in 1..Len(txs) /\ i <= tip
           /\ \E s \in RowsOf(i) : s.from = a /\ s.token = r.token /\ s.value = r.value
           /\ \A j \in 1..MaxTxs : receiveOf[<<a, j>>] = r => j = i
<1>1. tip # 0
  <2> SUFFICES ASSUME tip = 0 PROVE FALSE
    OBVIOUS
  <2>1. Now.receiveOf = [p \in Accounts \X (1..MaxTxs) |-> None]
    BY DEF IndexInv, Fresh
  <2> QED
    BY <2>1 DEF Now
<1>2. tip \in 1..Len(txs)
  BY <1>1, AccountParts
<1>3. PICK recv : recv = [l \in 1..MaxTxs |-> receiveOf[<<a, l>>]]
  OBVIOUS
<1>4. Origins(recv, pending[a], a, tip)
  BY <1>1, <1>3, AccountParts
<1>5. recv[i] = r /\ \A j \in 1..MaxTxs : recv[j] = receiveOf[<<a, j>>]
  BY <1>3
<1>6. /\ r.to = a /\ r.token \in Tokens /\ r.tx < i /\ i <= tip
      /\ \E s \in RowsOf(i) : s.from = a /\ s.token = r.token /\ s.value = r.value
      /\ \A j \in 1..MaxTxs : recv[j] = r => j = i
  BY <1>4, <1>5 DEF Origins
<1>7. i \in 1..Len(txs)
  BY <1>2, <1>6, Constants DEF ChainInv
<1> QED
  BY <1>5, <1>6, <1>7

\* No receipt is told to be the origin of two swaps.
LEMMA OriginsAreOnce ==
    ASSUME ChainInv, IndexInv
    PROVE  SwappedOnce
<1> SUFFICES ASSUME NEW a \in Accounts, NEW i \in 1..MaxTxs, receiveOf[<<a, i>>] # None
             PROVE  LET r == receiveOf[<<a, i>>] IN
                    /\ r.to = a /\ r.tx < i
                    /\ i <= Len(txs) /\ \E s \in RowsOf(i) : s.from = a /\ s.token = r.token /\ s.value = r.value
                    /\ \A j \in 1..MaxTxs : receiveOf[<<a, j>>] = r => j = i
  BY DEF SwappedOnce
<1>1. PICK r : r = receiveOf[<<a, i>>]
  OBVIOUS
<1>2. /\ r.to = a /\ r.token \in Tokens /\ r.tx < i /\ i \in 1..Len(txs) /\ i <= tip
      /\ \E s \in RowsOf(i) : s.from = a /\ s.token = r.token /\ s.value = r.value
      /\ \A j \in 1..MaxTxs : receiveOf[<<a, j>>] = r => j = i
  BY <1>1, OriginParts
<1> QED
  BY <1>1, <1>2

\* What is shown of the home coin is all that moved.
LEMMA ShownIsAll ==
    ASSUME ChainInv, IndexInv
    PROVE  ShownAddsUp
<1> SUFFICES ASSUME NEW a \in Accounts, NEW i \in 2..tip
             PROVE  Held(a, Home, i) - Held(a, Home, i - 1) =
                        SumOf({r \in Shown(i, a) : r.to = a}) - SumOf({r \in Shown(i, a) : r.from = a}) - FeeOf(i, a)
  BY DEF ShownAddsUp
<1>1. tip \in Nat /\ Len(txs) \in Nat /\ i \in Nat /\ i \in 1..Len(txs) /\ i - 1 \in 1..Len(txs) /\ i - 1 # 0
  BY Constants DEF ChainInv, IndexInv
<1>2. PICK rows : rows = RowsOf(i)
  OBVIOUS
<1>3. PICK home, shown, to, from, back, fee :
        /\ home = {r \in rows : r.token = Home /\ a \in {r.from, r.to}}
        /\ shown = {r \in home : ~WithPaymaster(r)}
        /\ to = {r \in shown : r.to = a} /\ from = {r \in shown : r.from = a}
        /\ back = {r \in home : r.from = Paymaster} /\ fee = {r \in home : r.to = Paymaster}
  OBVIOUS
<1>4. AreRows(rows) /\ a # Paymaster
  BY <1>1, <1>2, RowsOfParts, Constants
<1>5. AreRows(to) /\ AreRows(from) /\ AreRows(back) /\ AreRows(fee)
  <2>1. to \subseteq rows /\ from \subseteq rows /\ back \subseteq rows /\ fee \subseteq rows
    BY <1>3
  <2> QED
    BY <1>4, <2>1, SomeRows
<1>6. InOf(rows, a, Home) = to \cup back /\ to \cap back = {}
  BY <1>3, <1>4 DEF InOf, WithPaymaster
<1>7. OutOf(rows, a, Home) = from \cup fee /\ from \cap fee = {}
  BY <1>3, <1>4 DEF OutOf, WithPaymaster
<1>8. PICK x, y, u, v : x = SumOf(to) /\ y = SumOf(from) /\ u = SumOf(back) /\ v = SumOf(fee)
  OBVIOUS
<1>9. x \in Nat /\ y \in Nat /\ u \in Nat /\ v \in Nat
  BY <1>5, <1>8, SumType
<1>10. SumOf(InOf(rows, a, Home)) = x + u /\ SumOf(OutOf(rows, a, Home)) = y + v
  BY <1>5, <1>6, <1>7, <1>8, SumOfUnion
<1>11. Held(a, Home, i) = Held(a, Home, i - 1) + (x + u) - (y + v) /\ Held(a, Home, i - 1) \in Nat
  <2>1. Balanced(i)
    BY <1>1, TxParts
  <2>2. HeldAfter(a, Home, i - 1) = Held(a, Home, i - 1)
    BY <1>1 DEF HeldAfter
  <2>3. Home \in Coins
    BY Constants
  <2>4. Held(a, Home, i) = HeldAfter(a, Home, i - 1) + SumOf(InOf(rows, a, Home)) - SumOf(OutOf(rows, a, Home))
    BY <1>2, <2>1, <2>3 DEF Balanced
  <2>5. HeldAfter(a, Home, i - 1) \in Nat
    <3>1. i - 1 \in 0..Len(txs)
      BY <1>1
    <3> QED
      BY <2>3, <3>1, HeldAfterType
  <2> QED
    BY <1>10, <2>2, <2>4, <2>5
<1>12. FeeOf(i, a) = v - u
  <2>1. HomeRows(i, a) = home
    BY <1>2, <1>3 DEF HomeRows
  <2>2. CASE txs[i].op
    BY <1>3, <1>8, <2>1, <2>2 DEF FeeOf, Fee
  <2>3. CASE ~txs[i].op
    <3>1. \A j \in DOMAIN txs[i].moves : txs[i].moves[j].from \in {Outside, Cctp} /\ txs[i].moves[j].to \in Accounts
      <4>1. Shape(txs[i])
        BY <1>1, TxParts
      <4> QED
        BY <2>3, <4>1, Zenon DEF Shape
    <3>2. \A r \in rows : r.from \in {Outside, Cctp} /\ r.to \in Accounts
      <4>1. DOMAIN txs[i].moves = 1..Size(i)
        BY <1>1, TxParts
      <4>2. \A r \in rows : r.log \in 1..Size(i) /\ r.from = txs[i].moves[r.log].from /\ r.to = txs[i].moves[r.log].to
        BY <1>1, <1>2, RowsOfParts
      <4> QED
        BY <3>1, <4>1, <4>2
    <3>3. back = {} /\ fee = {}
      BY <1>3, <3>2, Constants
    <3>4. u = 0 /\ v = 0
      BY <1>8, <3>3, SumOfNone
    <3> QED
      BY <2>3, <3>4 DEF FeeOf
  <2> QED
    BY <2>2, <2>3
<1>13. to = {r \in Shown(i, a) : r.to = a} /\ from = {r \in Shown(i, a) : r.from = a}
  BY <1>2, <1>3 DEF Shown, HomeRows
<1> QED
  BY <1>8, <1>9, <1>11, <1>12, <1>13

\* A transfer of an account that is shown.
ShownRow(r, i, a) ==
    /\ a \in Accounts /\ i \in 1..Len(txs) /\ i \in 1..MaxTxs
    /\ r \in RowsOf(i) /\ r.tx = i /\ r.token = Home /\ a \in {r.from, r.to} /\ ~WithPaymaster(r)

LEMMA ShownRowParts ==
    ASSUME ChainInv, NEW r, NEW i, NEW a, ShownRow(r, i, a)
    PROVE  /\ r.log \in DOMAIN txs[i].moves /\ DOMAIN txs[i].moves = 1..Size(i)
           /\ r.token = txs[i].moves[r.log].token /\ r.from = txs[i].moves[r.log].from
           /\ r.to = txs[i].moves[r.log].to /\ r.value = txs[i].moves[r.log].value
           /\ r.from # Paymaster /\ r.to # Paymaster
           /\ Shape(txs[i])
<1>1. i \in 1..Len(txs) /\ r \in RowsOf(i)
  BY DEF ShownRow
<1> QED
  BY <1>1, RowsOfParts, TxParts DEF ShownRow, WithPaymaster

\* What happened in a transaction.
CameFrom(m, i, a) ==
    \/ txs[i].kind = "arrive" /\ m = Origin(i)
    \/ txs[i].kind = "swap" /\ m.to = a /\ m.token = txs[i].moves[1].token /\ m.value = txs[i].moves[1].value

WentTo(m, i, r) ==
    \/ txs[i].kind = "bridge" /\ m \in Start(i)
    \/ txs[i].kind = "paySwapped" /\ m.to = Outside /\ m.token # Home /\ m.value = r.value

\* The origin of what was swapped.
LEMMA ReceiptIsReal ==
    ASSUME ChainInv, IndexInv, NEW r, NEW i, NEW a, ShownRow(r, i, a),
           NEW m, m = ReceiveForSwap(a, i), m # None
    PROVE  CameFrom(m, i, a)
<1>1. a \in Accounts /\ i \in 1..MaxTxs /\ i \in 1..Len(txs) /\ m = receiveOf[<<a, i>>]
  BY DEF ShownRow, ReceiveForSwap
<1>2. /\ m.to = a /\ m.token \in Tokens
      /\ \E s \in RowsOf(i) : s.from = a /\ s.token = m.token /\ s.value = m.value
  BY <1>1, OriginParts
<1>3. PICK s \in RowsOf(i) : s.from = a /\ s.token = m.token /\ s.value = m.value
  BY <1>2
<1>4. /\ s.log \in 1..Size(i) /\ s.token = txs[i].moves[s.log].token /\ s.from = txs[i].moves[s.log].from
      /\ s.value = txs[i].moves[s.log].value
  BY <1>1, <1>3, RowsOfParts
<1>5. /\ r.log \in 1..Size(i) /\ DOMAIN txs[i].moves = 1..Size(i) /\ txs[i].moves[r.log].token = Home /\ Shape(txs[i])
  BY ShownRowParts DEF ShownRow
<1>6. \A j \in 1..Size(i) : txs[i].moves[j].token \in Tokens /\ txs[i].moves[j].from \in Accounts =>
          (txs[i].kind = "swap" /\ j = 1) \/ \A k \in 1..Size(i) : txs[i].moves[k].token # Home
  BY <1>5, Zenon DEF Shape
<1>7. txs[i].kind = "swap" /\ s.log = 1
  BY <1>1, <1>2, <1>3, <1>4, <1>5, <1>6
<1> QED
  BY <1>2, <1>3, <1>4, <1>7 DEF CameFrom

\* The end that is on another chain.
LEMMA FarEndIsReal ==
    ASSUME ChainInv, FoundInv, NEW r, NEW i, NEW a, ShownRow(r, i, a), NEW m \in Away(i)
    PROVE  /\ \/ txs[i].op /\ txs[i].kind = "bridge" /\ m \in Start(i)
              \/ ~txs[i].op /\ txs[i].kind = "arrive" /\ m = Origin(i)
           /\ txs[i].kind = "bridge" => r.to = Cctp /\ r.to # a
           /\ ~txs[i].op => r.from # a
<1>1. a \in Accounts /\ i \in 1..MaxTxs /\ m \in matched[i] /\ m.away
  BY DEF ShownRow, Away
<1>2. FoundOf(i)
  BY <1>1 DEF FoundInv
<1>3. \A x \in Here(i) : ~x.away
  BY DEF Here
<1>4. /\ r.log \in DOMAIN txs[i].moves /\ r.from = txs[i].moves[r.log].from /\ r.to = txs[i].moves[r.log].to
      /\ Shape(txs[i])
  BY ShownRowParts
<1>5. /\ txs[i].kind = "arrive" => ~txs[i].op
      /\ txs[i].kind = "bridge" => DOMAIN txs[i].moves = {1} /\ txs[i].moves[1].to = Cctp
      /\ ~txs[i].op => \A j \in DOMAIN txs[i].moves : txs[i].moves[j].from \in {Outside, Cctp}
  BY <1>4, Zenon DEF Shape
<1>6. txs[i].kind = "bridge" => r.to = Cctp /\ r.to # a
  BY <1>1, <1>4, <1>5, Constants
<1>7. ~txs[i].op => r.from # a
  BY <1>1, <1>4, <1>5, Constants
<1>8. CASE txs[i].op /\ matched[i] \subseteq Here(i) \cup Start(i)
  <2>1. m \in Start(i)
    BY <1>1, <1>3, <1>8
  <2>2. txs[i].kind = "bridge"
    BY <2>1 DEF Start
  <2> QED
    BY <1>6, <1>7, <1>8, <2>1, <2>2
<1>9. CASE txs[i].kind = "arrive" /\ matched[i] = {Origin(i)}
  BY <1>1, <1>5, <1>6, <1>7, <1>9
<1> QED
  BY <1>2, <1>8, <1>9 DEF FoundOf

LEMMA FoundIsFinite ==
    ASSUME ChainInv, NEW i \in 1..Len(txs)
    PROVE  IsFiniteSet(Here(i) \cup Start(i))
<1> DEFINE f == [r \in RowsOf(i) |->
                   [token |-> r.token, from |-> r.from, to |-> r.to, value |-> r.value, away |-> FALSE]]
<1>1. IsFiniteSet(RowsOf(i))
  BY RowsOfParts DEF AreRows
<1>2. IsFiniteSet({f[r] : r \in RowsOf(i)})
  <2>1. f = [r \in RowsOf(i) |-> f[r]]
    OBVIOUS
  <2> HIDE DEF f
  <2> QED
    BY <1>1, <2>1, ImageIsFinite
<1>3. Here(i) = {f[r] : r \in RowsOf(i)}
  BY DEF Here
<1>4. IsFiniteSet(Start(i))
  BY FS_EmptySet, FS_Singleton DEF Start
<1> QED
  BY <1>2, <1>3, <1>4, FS_Union

\* A walk ends in one of the transfers it is taken among, as it starts in one.
LEMMA WalkEnds ==
    ASSUME NEW rows, IsFiniteSet(rows), NEW from, NEW w \in Walks(from, rows)
    PROVE  w[1] \in rows /\ w[1].from = from /\ Last(w) \in rows
<1>1. Cardinality(rows) \in Nat
  BY FS_CardinalityType
<1>2. PICK n \in 1..Cardinality(rows) : w \in [1..n -> rows]
  BY DEF Walks
<1>3. n \in Nat /\ 1 \in 1..n /\ n \in 1..n
  BY <1>1, <1>2
<1>4. w \in Seq(rows) /\ Len(w) = n
  BY <1>2, <1>3
<1>5. Last(w) = w[n]
  BY <1>4 DEF Last
<1> QED
  BY <1>2, <1>3, <1>5 DEF Walks

\* The end of a walk.
LEMMA WalkIsReal ==
    ASSUME ChainInv, FoundInv, NEW r, NEW i, NEW a, ShownRow(r, i, a), r.from = a, matched[i] # {},
           NEW m \in Swapped(a, matched[i]), m # None
    PROVE  WentTo(m, i, r)
<1>1. a \in Accounts /\ i \in 1..MaxTxs /\ i \in 1..Len(txs)
  BY DEF ShownRow
<1>2. /\ r.log \in 1..Size(i) /\ DOMAIN txs[i].moves = 1..Size(i) /\ r.from = txs[i].moves[r.log].from
      /\ r.to = txs[i].moves[r.log].to /\ r.token = txs[i].moves[r.log].token /\ r.value = txs[i].moves[r.log].value
      /\ r.to # Paymaster /\ r.token = Home /\ Shape(txs[i])
  BY ShownRowParts DEF ShownRow
<1>3. /\ ~txs[i].op => \A j \in 1..Size(i) : txs[i].moves[j].from \in {Outside, Cctp}
      /\ txs[i].kind = "arrive" => ~txs[i].op
      /\ \A j, k \in 1..Size(i) :
            txs[i].moves[j].token = Home /\ txs[i].moves[j].from \in Accounts /\ txs[i].moves[j].to # Paymaster
               /\ txs[i].moves[k].token \in Tokens =>
               /\ txs[i].kind = "paySwapped" /\ txs[i].moves[k].to = Outside
               /\ txs[i].moves[k].value = txs[i].moves[j].value /\ txs[i].moves[k].from \notin Accounts
  BY <1>2, Zenon DEF Shape
<1>4. txs[i].op
  BY <1>1, <1>2, <1>3, Constants
<1>5. matched[i] \subseteq Here(i) \cup Start(i)
  <2>1. FoundOf(i)
    BY <1>1 DEF FoundInv
  <2> QED
    BY <1>3, <1>4, <2>1 DEF FoundOf
<1>6. IsFiniteSet(matched[i])
  BY <1>1, <1>5, FoundIsFinite, FS_Subset
<1>7. PICK w \in Walks(a, matched[i]) : Last(w).token # w[1].token /\ m = Last(w)
  <2>1. m \in {IF Last(w).token = w[1].token THEN None ELSE Last(w) : w \in Walks(a, matched[i])}
    BY Zenon DEF Swapped
  <2> QED
    BY <2>1
<1>8. w[1] \in matched[i] /\ w[1].from = a /\ m \in matched[i]
  BY <1>6, <1>7, WalkEnds
<1>9. ASSUME NEW x \in matched[i], x.token # Home
      PROVE  /\ txs[i].kind = "paySwapped" /\ x.to = Outside /\ x.value = r.value /\ x.from \notin Accounts
  <2>1. x \in Here(i)
    <3>1. \A y \in Start(i) : y.token = Home
      BY DEF Start
    <3> QED
      BY <1>5, <1>9, <3>1
  <2>2. PICK s \in RowsOf(i) : x.token = s.token /\ x.from = s.from /\ x.to = s.to /\ x.value = s.value
    BY <2>1 DEF Here
  <2>3. /\ s.log \in 1..Size(i) /\ s.token = txs[i].moves[s.log].token /\ s.from = txs[i].moves[s.log].from
        /\ s.to = txs[i].moves[s.log].to /\ s.value = txs[i].moves[s.log].value /\ s.token \in Coins
    BY <1>1, <2>2, RowsOfParts
  <2>4. s.token \in Tokens
    BY <1>9, <2>2, <2>3 DEF Coins
  <2> QED
    BY <1>1, <1>2, <1>3, <2>2, <2>3, <2>4
<1>10. w[1].token = Home
  BY <1>1, <1>8, <1>9
<1>11. m.token # Home
  BY <1>7, <1>10
<1> QED
  BY <1>8, <1>9, <1>11 DEF WentTo

LEMMA EndsOfShown ==
    ASSUME ChainInv, IndexInv, FoundInv, NEW r, NEW i, NEW a, ShownRow(r, i, a)
    PROVE  /\ \A m \in PreSwap(r, a) \ {None} : CameFrom(m, i, a)
           /\ \A m \in PostSwap(r, a) \ {None} : WentTo(m, i, r)
<1>1. r.tx = i
  BY DEF ShownRow
<1>2. ASSUME NEW m \in PreSwap(r, a), m # None PROVE CameFrom(m, i, a)
  <2>1. r.to = a
    BY <1>2, Zenon DEF PreSwap
  <2>2. CASE ReceiveForSwap(a, i) # None
    <3>1. m = ReceiveForSwap(a, i)
      BY <1>1, <1>2, <2>2, Zenon DEF PreSwap
    <3> QED
      BY <1>2, <3>1, ReceiptIsReal
  <2>3. CASE ReceiveForSwap(a, i) = None
    <3>1. m \in Corresponding(r, TRUE)
      BY <1>1, <1>2, <2>3, Zenon DEF PreSwap
    <3>2. m \in OneOf(Away(i))
      BY <1>1, <1>2, <3>1, Zenon DEF Corresponding
    <3>3. m \in Away(i)
      BY <1>2, <3>2, Zenon DEF OneOf
    <3> QED
      BY <2>1, <3>3, FarEndIsReal DEF CameFrom
  <2> QED
    BY <2>2, <2>3
<1>3. ASSUME NEW m \in PostSwap(r, a), m # None PROVE WentTo(m, i, r)
  <2>1. r.from = a
    BY <1>3, Zenon DEF PostSwap
  <2>2. m \in Corresponding(r, FALSE)
    BY <1>3, Zenon DEF PostSwap
  <2>3. matched[i] # {}
    BY <1>1, <1>3, <2>2, Zenon DEF Corresponding
  <2>4. CASE r.to = Cctp
    <3>1. m \in OneOf(Away(i))
      BY <1>1, <2>2, <2>3, <2>4, Zenon DEF Corresponding
    <3>2. m \in Away(i)
      BY <1>3, <3>1, Zenon DEF OneOf
    <3> QED
      BY <2>1, <3>2, FarEndIsReal DEF WentTo
  <2>5. CASE r.to # Cctp
    <3>1. m \in Swapped(a, matched[i])
      BY <1>1, <2>1, <2>2, <2>3, <2>5, Zenon DEF Corresponding
    <3> QED
      BY <1>3, <2>1, <2>3, <3>1, WalkIsReal
  <2> QED
    BY <2>4, <2>5
<1> QED
  BY <1>2, <1>3

\* No line of history tells of a swap or a bridge that was not, or of another amount or fee, though searches run beside
\* the indexers, answer late and may find any walk among the transfers.
THEOREM HistoryIsTrue == Spec => []ClogsTellTruth
<1>1. Inductive => ClogsTellTruth
  <2> SUFFICES ASSUME Inductive PROVE ClogsTellTruth
    OBVIOUS
  <2>1. ChainInv /\ IndexInv /\ FoundInv
    BY DEF Inductive
  <2>2. SwappedOnce /\ ShownAddsUp
    BY <2>1, OriginsAreOnce, ShownIsAll
  <2>3. ASSUME NEW a \in Accounts, NEW i \in 1..tip, NEW r \in Shown(i, a)
        PROVE  /\ \A m \in PreSwap(r, a) \ {None} : CameFrom(m, i, a)
               /\ \A m \in PostSwap(r, a) \ {None} : WentTo(m, i, r)
    <3>1. i \in 1..Len(txs)
      BY <2>1, Constants DEF ChainInv, IndexInv
    <3>2. r \in RowsOf(i) /\ r.token = Home /\ a \in {r.from, r.to} /\ ~WithPaymaster(r)
      BY DEF Shown, HomeRows
    <3>3. r.tx = i /\ i \in 1..MaxTxs
      BY <2>1, <3>1, <3>2, RowsOfParts, TxParts
    <3>4. ShownRow(r, i, a)
      BY <3>1, <3>2, <3>3 DEF ShownRow
    <3> QED
      BY <2>1, <3>4, EndsOfShown
  <2>4. EndsAreReal
    BY <2>3 DEF EndsAreReal, CameFrom, WentTo
  <2> QED
    BY <2>2, <2>4 DEF ClogsTellTruth
<1> QED
  BY <1>1, ClogsInvariant, PTL

=============================================================================

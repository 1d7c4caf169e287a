---------------------------- MODULE NumberLemmas -----------------------------
(***************************************************************************)
(* Lemmas about numbers that the proofs of several components cite: the    *)
(* least and the greatest of a set, induction over a set of numbers, the   *)
(* products and quotients rings and frames are counted with, and the steps *)
(* of a fold over a sequence.                                              *)
(***************************************************************************)
EXTENDS Integers, Sequences, WellFoundedInduction, TLAPS

\* A set of natural numbers has a least one.
LEMMA LeastNumber ==
    ASSUME NEW T \in SUBSET Nat, T # {}
    PROVE  \E x \in T : \A y \in T : x <= y
<1> DEFINE R == OpToRel(<, Nat)
<1>1. IsWellFoundedOn(R, Nat)  BY NatLessThanWellFounded
<1>2. \A x, y \in Nat : <<x, y>> \in R <=> x < y  BY DEF OpToRel
<1> HIDE DEF R
<1>3. PICK x \in T : \A y \in T : <<y, x>> \notin R  BY <1>1, WFMin
<1>4. ASSUME NEW y \in T PROVE x <= y
  <2>1. x \in Nat /\ y \in Nat  OBVIOUS
  <2>2. ~(y < x)  BY <1>2, <1>3, <2>1
  <2> QED  BY <2>1, <2>2
<1> QED  BY <1>4

\* What holds of 0, and of the next of every number it holds of, holds of all; `S` is the
\* set of the numbers it holds of.
LEMMA SetInduction ==
    ASSUME NEW S, 0 \in S, \A n \in Nat : n \in S => n + 1 \in S
    PROVE  Nat \subseteq S
<1> SUFFICES ASSUME Nat \ S # {} PROVE FALSE  OBVIOUS
<1>1. PICK x \in Nat \ S : \A y \in Nat \ S : x <= y  BY LeastNumber
<1>2. x # 0 /\ x - 1 \in Nat /\ x = (x - 1) + 1  OBVIOUS
<1>3. x - 1 \notin S  BY <1>2
<1> QED  BY <1>1, <1>2, <1>3

\* A set of natural numbers with a bound has a greatest one.
LEMMA GreatestNumber ==
    ASSUME NEW T \in SUBSET Nat, T # {}, NEW b \in Nat, \A x \in T : x <= b
    PROVE  \E x \in T : \A y \in T : y <= x
<1> DEFINE D == {b - x : x \in T}
<1>1. D \in SUBSET Nat /\ D # {}
  <2>1. \A x \in T : x \in Nat /\ b - x \in Nat  OBVIOUS
  <2>2. \A d \in D : d \in Nat  BY <2>1
  <2>3. PICK x \in T : TRUE  OBVIOUS
  <2>4. b - x \in D  OBVIOUS
  <2> QED  BY <2>2, <2>4
<1>2. PICK d \in D : \A e \in D : d <= e  BY <1>1, LeastNumber
<1>3. PICK x \in T : d = b - x  OBVIOUS
<1>4. ASSUME NEW y \in T PROVE y <= x
  <2>1. b - y \in D  OBVIOUS
  <2> HIDE DEF D
  <2>2. b - x <= b - y  BY <1>2, <1>3, <2>1
  <2>3. x \in Nat /\ y \in Nat  OBVIOUS
  <2> QED  BY <2>2, <2>3
<1> QED  BY <1>4

\* The numbers of a sequence have a bound.
LEMMA SequenceBound ==
    ASSUME NEW s \in Seq(Nat)
    PROVE  \E b \in Nat : \A i \in 1 .. Len(s) : s[i] <= b
<1> DEFINE S == {n \in Nat : n <= Len(s) => \E b \in Nat : \A i \in 1 .. n : s[i] <= b}
<1>1. 0 \in S  OBVIOUS
<1>2. ASSUME NEW n \in Nat, n \in S PROVE n + 1 \in S
  <2> SUFFICES ASSUME n + 1 <= Len(s) PROVE \E b \in Nat : \A i \in 1 .. n + 1 : s[i] <= b
    OBVIOUS
  <2>1. PICK b \in Nat : \A i \in 1 .. n : s[i] <= b  BY <1>2
  <2>2. s[n + 1] \in Nat  OBVIOUS
  <2>3. b + s[n + 1] \in Nat  BY <2>2
  <2>4. \A i \in 1 .. n + 1 : s[i] <= b + s[n + 1]
    <3> SUFFICES ASSUME NEW i \in 1 .. n + 1 PROVE s[i] <= b + s[n + 1]  OBVIOUS
    <3>1. s[i] \in Nat  OBVIOUS
    <3>2. CASE i \in 1 .. n  BY <2>1, <2>2, <3>1, <3>2
    <3>3. CASE i = n + 1  BY <2>2, <3>3
    <3> QED  BY <3>2, <3>3
  <2> QED  BY <2>3, <2>4
<1> HIDE DEF S
<1>3. Nat \subseteq S  BY <1>1, <1>2, SetInduction
<1>4. Len(s) \in S  BY <1>3
<1> QED  BY <1>4 DEF S

-----------------------------------------------------------------------------
\* Quotient and remainder.
LEMMA Division ==
    ASSUME NEW a \in Int, NEW d \in Nat \ {0}
    PROVE  /\ a \div d \in Int /\ a % d \in 0..d - 1
           /\ a = d * (a \div d) + (a % d)
  OBVIOUS

\* What is less than b times the divisor divides to less than b.
LEMMA QuotientBelow ==
    ASSUME NEW a \in Int, NEW b \in Int, NEW d \in Nat \ {0}, a < b * d
    PROVE  a \div d < b
  OBVIOUS

\* What is at most the quotient, times the divisor, is at most the dividend.
LEMMA QuotientAtLeast ==
    ASSUME NEW a \in Int, NEW b \in Int, NEW d \in Nat \ {0}, b <= a \div d
    PROVE  b * d <= a
  OBVIOUS

\* There is one way to divide.
LEMMA OneRemainder ==
    ASSUME NEW d \in Nat \ {0}, NEW q \in Int, NEW r \in 0 .. d - 1
    PROVE  (d * q + r) % d = r /\ (d * q + r) \div d = q
<1> DEFINE a == d * q + r
           p == a \div d
           s == a % d
<1>1. a \in Int  OBVIOUS
<1>2. p \in Int /\ s \in 0 .. d - 1 /\ a = d * p + s  BY <1>1, Division
<1> HIDE DEF p, s
<1>3. d * (p - q) = r - s /\ r - s < d /\ s - r < d  BY <1>2
<1>4. ~(p - q >= 1)
  <2> SUFFICES ASSUME p - q >= 1 PROVE FALSE  OBVIOUS
  <2>1. d * (p - q) >= d  BY <1>2
  <2> QED  BY <1>2, <1>3, <2>1
<1>5. ~(p - q <= -1)
  <2> SUFFICES ASSUME p - q <= -1 PROVE FALSE  OBVIOUS
  <2>1. d * (p - q) <= -d  BY <1>2
  <2> QED  BY <1>2, <1>3, <2>1
<1>6. p = q  BY <1>2, <1>4, <1>5
<1>7. s = r  BY <1>2, <1>6
<1> QED  BY <1>6, <1>7 DEF p, s

LEMMA Divided ==
    ASSUME NEW a \in Int, NEW d \in Nat \ {0}
    PROVE  \E q \in Int, r \in 0 .. d - 1 : a = d * q + r /\ r = a % d /\ q = a \div d
<1>1. a \div d \in Int /\ a % d \in 0 .. d - 1 /\ a = d * (a \div d) + (a % d)  BY Division
<1> QED  BY <1>1

\* Multiples of the divisor do not count.
LEMMA ModPeriod ==
    ASSUME NEW x \in Int, NEW k \in Int, NEW d \in Nat \ {0}
    PROVE  (x + d * k) % d = x % d /\ (x + d * k) \div d = x \div d + k
<1>1. x \div d \in Int /\ x % d \in 0 .. d - 1 /\ x = d * (x \div d) + (x % d)  BY Division
<1> DEFINE q == x \div d
           r == x % d
<1> HIDE DEF q, r
<1>2. q \in Int /\ r \in 0 .. d - 1 /\ x = d * q + r  BY <1>1 DEF q, r
<1>3. x + d * k = d * (q + k) + r /\ q + k \in Int  BY <1>2
<1>4. (d * (q + k) + r) % d = r /\ (d * (q + k) + r) \div d = q + k  BY <1>2, <1>3, OneRemainder
<1> QED  BY <1>3, <1>4 DEF q, r

\* Numbers with one remainder have one after any other is added.
LEMMA Congruent ==
    ASSUME NEW a \in Int, NEW b \in Int, NEW n \in Int, NEW d \in Nat \ {0}, a % d = b % d
    PROVE  (a + n) % d = (b + n) % d
<1>1. PICK p \in Int, q \in Int, r \in 0 .. d - 1 : a = d * p + r /\ b = d * q + r
  BY Division, ZenonT(60)
<1>2. PICK k \in Int, x \in Int : x = b + n /\ a + n = x + d * k
  <2>1. p - q \in Int /\ b + n \in Int /\ a + n = (b + n) + d * (p - q)  BY <1>1
  <2> QED  BY <2>1
<1>3. (x + d * k) % d = x % d  BY ModPeriod
<1> QED  BY <1>2, <1>3

\* What has no remainder adds none.
LEMMA NoRemainder ==
    ASSUME NEW a \in Int, NEW n \in Int, NEW d \in Nat \ {0}, n % d = 0
    PROVE  (a + n) % d = a % d /\ (a - n) % d = a % d
<1>1. PICK k \in Int : n = d * k
  <2>1. PICK q \in Int, r \in 0 .. d - 1 : n = d * q + r /\ r = n % d  BY Divided
  <2>2. r = 0 /\ n = d * q  BY <2>1
  <2> QED  BY <2>2
<1>2. PICK m \in Int : m = -k  BY <1>1
<1>3. a + n = a + d * k /\ a - n = a + d * m  BY <1>1, <1>2
<1>4. (a + d * k) % d = a % d /\ (a + d * m) % d = a % d  BY ModPeriod
<1> QED  BY <1>3, <1>4

\* Small numbers are their remainders, and the next is one more or none.
LEMMA SmallMod == ASSUME NEW d \in Nat \ {0}, NEW r \in 0 .. d - 1 PROVE r % d = r /\ r \div d = 0
<1>1. (d * 0 + r) % d = r /\ (d * 0 + r) \div d = 0 /\ d * 0 + r = r  BY OneRemainder
<1> QED  BY <1>1

LEMMA NextMod ==
    ASSUME NEW a \in Int, NEW d \in Nat \ {0}
    PROVE  (a + 1) % d = IF a % d = d - 1 THEN 0 ELSE (a % d) + 1
<1>1. PICK q \in Int, r \in 0 .. d - 1 : a = d * q + r /\ r = a % d  BY Division
<1>2. CASE r = d - 1
  <2>1. a + 1 = d * (q + 1) + 0 /\ q + 1 \in Int /\ 0 \in 0 .. d - 1  BY <1>1, <1>2
  <2>2. (a + 1) % d = 0  BY <2>1, OneRemainder, ZenonT(60)
  <2> QED  BY <1>1, <1>2, <2>2
<1>3. CASE r # d - 1
  <2>1. a + 1 = d * q + (r + 1) /\ r + 1 \in 0 .. d - 1  BY <1>1, <1>3
  <2>2. (a + 1) % d = r + 1  BY <2>1, OneRemainder
  <2> QED  BY <1>1, <1>3, <2>2
<1> QED  BY <1>2, <1>3

\* What follows a remainder is what follows the number.
LEMMA FollowOn ==
    ASSUME NEW a \in Int, NEW b \in Int, NEW n \in Int, NEW d \in Nat \ {0}, a = b % d
    PROVE  (a + n) % d = (b + n) % d
<1>1. a \in 0 .. d - 1  BY Division
<1>2. a % d = b % d  BY <1>1, SmallMod
<1> QED  BY <1>2, Congruent, ZenonT(60)

\* Without a remainder a number is a multiple.
LEMMA Multiple ==
    ASSUME NEW a \in Nat, NEW d \in Nat \ {0}, a % d = 0
    PROVE  \E k \in Nat : a = d * k /\ k = a \div d
<1>1. PICK q \in Int, r \in 0 .. d - 1 : a = d * q + r /\ r = a % d /\ q = a \div d  BY Divided
<1>2. ~(q <= -1)
  <2> SUFFICES ASSUME q <= -1 PROVE FALSE  OBVIOUS
  <2>1. d * q <= -d  OBVIOUS
  <2> QED  BY <1>1, <2>1
<1> QED  BY <1>1, <1>2

LEMMA ProductNat == ASSUME NEW a \in Nat, NEW b \in Nat PROVE a * b \in Nat
  OBVIOUS

\* A product is a multiple of its factors.
LEMMA ProductMod == ASSUME NEW a \in Nat, NEW c \in Nat \ {0} PROVE (a * c) % c = 0
<1>1. a * c \in Nat  OBVIOUS
<1> QED  BY <1>1, SMTT(30)

\* A tenth of a product is a multiple of one factor where it is a tenth of the other.
LEMMA TenthMod ==
    ASSUME NEW a \in Nat, NEW c \in Nat \ {0}, a % 10 = 0
    PROVE  ((a * c) \div 10) % c = 0
<1>1. PICK k \in Nat : a = 10 * k
  <2>1. a \div 10 \in Nat /\ a = 10 * (a \div 10)  OBVIOUS
  <2> QED  BY <2>1
<1>2. k * c \in Nat /\ a * c = 10 * (k * c)  BY <1>1
<1>3. (a * c) \div 10 = k * c  BY <1>2
<1> QED  BY <1>3, ProductMod

\* The places of a sequence are numbers.
LEMMA IndicesAreNat == ASSUME NEW X, NEW s \in Seq(X) PROVE \A i \in DOMAIN s : i \in Nat
  OBVIOUS

-----------------------------------------------------------------------------
(* Folds.  FoldLeft(op, b, s) is a function on the sets of places of `s`,  *)
(* the whole set's value being the fold's: a proof expands it, finds that  *)
(* there is such a function (FoldExists), and counts its steps (FoldRuns). *)

\* The greatest of a set of numbers, as a fold over places picks it.
Greatest(T) == CHOOSE x \in T : \A y \in T : x >= y

LEMMA GreatestIs ==
    ASSUME NEW T \in SUBSET Nat, NEW x \in T, \A y \in T : y <= x
    PROVE  Greatest(T) = x
<1>1. Greatest(T) \in T /\ \A y \in T : Greatest(T) >= y
  <2>1. \E z \in T : \A y \in T : z >= y
    <3>1. \A y \in T : x >= y  OBVIOUS
    <3> QED  BY <3>1
  <2> QED  BY <2>1, Zenon DEF Greatest
<1>2. Greatest(T) >= x /\ Greatest(T) <= x /\ Greatest(T) \in Nat /\ x \in Nat  BY <1>1
<1> QED  BY <1>2

LEMMA GreatestOfPlaces ==
    ASSUME NEW m \in Nat, NEW T \in SUBSET (1 .. m), T # {}
    PROVE  Greatest(T) \in T /\ T \ {Greatest(T)} \in SUBSET (1 .. m)
<1>1. PICK x \in T : \A y \in T : y <= x
  <2>1. T \in SUBSET Nat /\ \A x \in T : x <= m  OBVIOUS
  <2> QED  BY <2>1, GreatestNumber
<1>2. Greatest(T) = x
  <2>1. T \in SUBSET Nat  OBVIOUS
  <2> QED  BY <1>1, <2>1, GreatestIs
<1> QED  BY <1>2

\* What the fold of `G` over the places `1 .. m` from `b` is, on every set of them.
FoldsTo(g, m, D, b, G) ==
    /\ g \in [SUBSET (1 .. m) -> D]
    /\ \A T \in SUBSET (1 .. m) :
           g[T] = IF T = {} THEN b ELSE G[<<g[T \ {Greatest(T)}], Greatest(T)>>]

\* A fold over places is a function of the set of places that are done.
LEMMA FoldExists ==
    ASSUME NEW D, NEW b \in D, NEW n \in Nat, NEW G \in [D \X (1 .. n) -> D]
    PROVE  \E g : FoldsTo(g, n, D, b, G)
<1> DEFINE Good == {m \in Nat : m <= n => \E g : FoldsTo(g, m, D, b, G)}
<1>1. 0 \in Good
  <2> DEFINE g == [T \in SUBSET (1 .. 0) |-> b]
  <2>1. \A T \in SUBSET (1 .. 0) : T = {}  OBVIOUS
  <2>2. FoldsTo(g, 0, D, b, G)  BY <2>1 DEF FoldsTo
  <2> QED  BY <2>2
<1>2. ASSUME NEW m \in Nat, m \in Good PROVE m + 1 \in Good
  <2> SUFFICES ASSUME m + 1 <= n PROVE \E h : FoldsTo(h, m + 1, D, b, G)  OBVIOUS
  <2>1. PICK g : FoldsTo(g, m, D, b, G)  BY <1>2
  <2> DEFINE h == [T \in SUBSET (1 .. m + 1) |->
                      IF m + 1 \in T THEN G[<<g[T \ {m + 1}], m + 1>>] ELSE g[T]]
  <2>2. g \in [SUBSET (1 .. m) -> D]  BY <2>1 DEF FoldsTo
  <2>3. ASSUME NEW T \in SUBSET (1 .. m + 1)
        PROVE  /\ T \ {m + 1} \in SUBSET (1 .. m) /\ (m + 1 \notin T => T \in SUBSET (1 .. m))
    OBVIOUS
  <2>4. h \in [SUBSET (1 .. m + 1) -> D]
    <3>1. ASSUME NEW T \in SUBSET (1 .. m + 1) PROVE h[T] \in D
      <4>1. m + 1 \in 1 .. n  OBVIOUS
      <4>2. m + 1 \in T => G[<<g[T \ {m + 1}], m + 1>>] \in D  BY <2>2, <2>3, <4>1
      <4>3. m + 1 \notin T => g[T] \in D  BY <2>2, <2>3
      <4> QED  BY <4>2, <4>3
    <3> QED  BY <3>1
  <2>5. ASSUME NEW T \in SUBSET (1 .. m + 1)
        PROVE  h[T] = IF T = {} THEN b ELSE G[<<h[T \ {Greatest(T)}], Greatest(T)>>]
    <3>1. CASE m + 1 \in T
      <4>1. Greatest(T) = m + 1
        <5>1. T \in SUBSET Nat /\ \A y \in T : y <= m + 1  OBVIOUS
        <5> QED  BY <3>1, <5>1, GreatestIs
      <4>2. T \ {m + 1} \in SUBSET (1 .. m + 1) /\ m + 1 \notin T \ {m + 1}  OBVIOUS
      <4>3. h[T \ {m + 1}] = g[T \ {m + 1}]  BY <4>2
      <4> QED  BY <3>1, <4>1, <4>3
    <3>2. CASE m + 1 \notin T
      <4>1. T \in SUBSET (1 .. m) /\ h[T] = g[T]  BY <2>3, <3>2
      <4>2. CASE T = {}  BY <2>1, <4>1, <4>2 DEF FoldsTo
      <4>3. CASE T # {}
        <5>1. T \ {Greatest(T)} \in SUBSET (1 .. m)  BY <4>1, <4>3, GreatestOfPlaces
        <5>2. T \ {Greatest(T)} \in SUBSET (1 .. m + 1) /\ m + 1 \notin T \ {Greatest(T)}  BY <3>2
        <5>3. h[T \ {Greatest(T)}] = g[T \ {Greatest(T)}]  BY <5>2
        <5>4. g[T] = G[<<g[T \ {Greatest(T)}], Greatest(T)>>]  BY <2>1, <4>1, <4>3 DEF FoldsTo
        <5> QED  BY <4>1, <4>3, <5>3, <5>4
      <4> QED  BY <4>2, <4>3
    <3> QED  BY <3>1, <3>2
  <2> HIDE DEF h
  <2>6. FoldsTo(h, m + 1, D, b, G)  BY <2>4, <2>5 DEF FoldsTo
  <2> QED  BY <2>6
<1> HIDE DEF Good
<1>3. Nat \subseteq Good  BY <1>1, <1>2, SetInduction
<1>4. n \in Good /\ n <= n  BY <1>3
<1> QED  BY <1>4 DEF Good

\* The same, of an `iter` that is only known to take a step where what came before is in `D`.
Unfolds(iter, n, D, b, G) ==
    \A T \in SUBSET (1 .. n) :
        IF T = {} THEN iter[T] = b
        ELSE iter[T \ {Greatest(T)}] \in D =>
                 iter[T] = G[<<iter[T \ {Greatest(T)}], Greatest(T)>>]

\* Step by step over the places, first to last, it stays in `D`.
Runs(iter, n, D, b, G) ==
    /\ iter[1 .. 0] = b
    /\ \A k \in 0 .. n : iter[1 .. k] \in D
    /\ \A k \in 1 .. n : iter[1 .. k] = G[<<iter[1 .. k - 1], k>>]

LEMMA FoldRuns ==
    ASSUME NEW D, NEW b \in D, NEW n \in Nat, NEW G \in [D \X (1 .. n) -> D], NEW iter,
           Unfolds(iter, n, D, b, G)
    PROVE  Runs(iter, n, D, b, G)
<1>1. iter[1 .. 0] = b
  <2>1. 1 .. 0 = {} /\ {} \in SUBSET (1 .. n)  OBVIOUS
  <2> QED  BY <2>1 DEF Unfolds
<1>2. ASSUME NEW k \in 1 .. n, iter[1 .. k - 1] \in D
      PROVE  iter[1 .. k] = G[<<iter[1 .. k - 1], k>>] /\ iter[1 .. k] \in D
  <2>1. (1 .. k) \in SUBSET (1 .. n) /\ (1 .. k) # {} /\ (1 .. k) \ {k} = 1 .. k - 1  OBVIOUS
  <2>2. Greatest(1 .. k) = k
    <3>1. (1 .. k) \in SUBSET Nat /\ k \in 1 .. k /\ \A y \in 1 .. k : y <= k  OBVIOUS
    <3> QED  BY <3>1, GreatestIs
  <2>3. iter[1 .. k] = G[<<iter[1 .. k - 1], k>>]  BY <1>2, <2>1, <2>2 DEF Unfolds
  <2> QED  BY <1>2, <2>3
<1> DEFINE Good == {k \in Nat : k <= n => iter[1 .. k] \in D}
<1>3. 0 \in Good  BY <1>1
<1>4. ASSUME NEW k \in Nat, k \in Good PROVE k + 1 \in Good
  <2> SUFFICES ASSUME k + 1 <= n PROVE iter[1 .. k + 1] \in D  OBVIOUS
  <2>1. k + 1 \in 1 .. n /\ (k + 1) - 1 = k /\ iter[1 .. k] \in D  BY <1>4
  <2> QED  BY <1>2, <2>1
<1>5. Nat \subseteq Good
  <2> HIDE DEF Good
  <2> QED  BY <1>3, <1>4, SetInduction
<1>6. \A k \in 0 .. n : iter[1 .. k] \in D  BY <1>5
<1>7. \A k \in 1 .. n : k - 1 \in 0 .. n  OBVIOUS
<1> QED  BY <1>1, <1>2, <1>6, <1>7 DEF Runs

\* The same as a function on how far it is.
InSteps(iter, n, D, b, G) ==
    \E F \in [0 .. n -> D] :
        F[0] = b /\ F[n] = iter[1 .. n] /\ \A k \in 1 .. n : F[k] = G[<<F[k - 1], k>>]

LEMMA FoldSteps ==
    ASSUME NEW D, NEW b \in D, NEW n \in Nat, NEW G \in [D \X (1 .. n) -> D], NEW iter,
           Unfolds(iter, n, D, b, G)
    PROVE  InSteps(iter, n, D, b, G)
<1>1. Runs(iter, n, D, b, G)  BY FoldRuns
<1> DEFINE F == [k \in 0 .. n |-> iter[1 .. k]]
<1>2. F \in [0 .. n -> D] /\ 0 \in 0 .. n /\ n \in 0 .. n  BY <1>1 DEF Runs
<1>3. F[0] = b /\ F[n] = iter[1 .. n]  BY <1>1, <1>2 DEF Runs
<1>4. ASSUME NEW k \in 1 .. n PROVE F[k] = G[<<F[k - 1], k>>]
  <2>1. k \in 0 .. n /\ k - 1 \in 0 .. n  OBVIOUS
  <2> QED  BY <1>1, <2>1 DEF Runs
<1> QED  BY <1>2, <1>3, <1>4 DEF InSteps
=============================================================================

----------------------------- MODULE Arithmetic -----------------------------
(***************************************************************************)
(* Facts about products and quotients of natural numbers, which the         *)
(* contracts' fees, shares and prices are made of, and about totals: they   *)
(* are extensional, add up over disjoint sets and over several functions,   *)
(* and change by the difference when one member changes.                    *)
(***************************************************************************)
EXTENDS Integers, FiniteSets, Sums, FiniteSetTheorems, FunctionTheorems, TLAPS

(* Quotients by a positive number are natural, and come back below.         *)
LEMMA Quotient ==
  ASSUME NEW a \in Nat, NEW b \in Nat \ {0}
  PROVE  a \div b \in Nat /\ b * (a \div b) <= a
<1>1. a \div b \in Nat
  OBVIOUS
<1>2. a = b * (a \div b) + (a % b) /\ a % b \in 0..(b - 1)
  OBVIOUS
<1>3. b * (a \div b) \in Nat
  BY <1>1
<1> QED
  BY <1>1, <1>2, <1>3

LEMMA ProductNat ==
  ASSUME NEW a \in Nat, NEW b \in Nat
  PROVE  a * b \in Nat
OBVIOUS

(* A quotient stays below any number whose product is not below.            *)
LEMMA QuotientBound ==
  ASSUME NEW a \in Nat, NEW b \in Nat \ {0}, NEW c \in Nat, a <= b * c
  PROVE  a \div b <= c
<1> DEFINE q == a \div b
<1>1. q \in Nat /\ b * q <= a
  BY Quotient
<1> HIDE DEF q
<1>2. SUFFICES ASSUME c < q PROVE FALSE
  BY <1>1 DEF q
<1>3. PICK d \in Nat : q = c + 1 + d
  <2>1. q - c - 1 \in Nat /\ q = c + 1 + (q - c - 1)
    BY <1>1, <1>2
  <2> QED
    BY <2>1
<1>4. b * q = b * c + b + b * d
  BY <1>3
<1>5. b * d \in Nat /\ b * c \in Nat
  BY ProductNat
<1> QED
  BY <1>1, <1>4, <1>5

(* A smaller factor makes a smaller product. *)
LEMMA ProductMono ==
  ASSUME NEW a \in Nat, NEW b \in Nat, a <= b, NEW c \in Nat
  PROVE  a * c <= b * c
<1>1. PICK d \in Nat : b = a + d
  <2>1. b - a \in Nat /\ b = a + (b - a)
    OBVIOUS
  <2> QED
    BY <2>1
<1>2. b * c = a * c + d * c
  BY <1>1
<1>3. d * c \in Nat /\ a * c \in Nat
  BY ProductNat
<1> QED
  BY <1>2, <1>3

(* A quotient stays strictly below what its product stays strictly below.   *)
LEMMA QuotientStrict ==
  ASSUME NEW a \in Nat, NEW b \in Nat \ {0}, NEW c \in Nat, a < b * c
  PROVE  a \div b < c
<1> DEFINE q == a \div b
<1>1. q \in Nat /\ b * q <= a
  BY Quotient
<1> HIDE DEF q
<1>2. SUFFICES ASSUME c <= q PROVE FALSE
  BY <1>1 DEF q
<1>3. c * b <= q * b
  BY <1>1, <1>2, ProductMono
<1>4. c * b = b * c /\ q * b = b * q /\ b * c \in Nat /\ b * q \in Nat
  BY <1>1, ProductNat
<1> QED
  BY <1>1, <1>3, <1>4

(* A product is divided by one of its factors without a remainder. *)
LEMMA QuotientExact ==
  ASSUME NEW a \in Nat, NEW b \in Nat \ {0}
  PROVE  (a * b) \div b = a
<1> DEFINE q == (a * b) \div b
<1>1. a * b \in Nat /\ a * b = b * a
  BY ProductNat
<1>2. q \in Nat /\ q <= a
  BY <1>1, Quotient, QuotientBound
<1>3. ~(q < a)
  <2> SUFFICES ASSUME q < a PROVE FALSE
    OBVIOUS
  <2>1. a * b < b * a
    <3>1. PICK m \in Nat : a = m + 1
      <4>1. a - 1 \in Nat /\ a = (a - 1) + 1
        BY <1>2
      <4> QED
        BY <4>1
    <3>2. a * b = b * q + ((a * b) % b) /\ ((a * b) % b) \in 0..(b - 1)
      BY <1>1
    <3>3. q <= m
      BY <1>2, <3>1
    <3>4. q * b <= m * b
      BY <1>2, <3>3, ProductMono
    <3>5. q * b = b * q /\ b * a = m * b + b /\ m * b \in Nat /\ b * q \in Nat
      BY <1>2, <3>1, ProductNat
    <3> HIDE DEF q
    <3> QED
      BY <1>1, <3>2, <3>4, <3>5
  <2> QED
    BY <1>1, <2>1
<1> QED
  BY <1>2, <1>3

(* Of two numbers divided by a third the smaller has the smaller quotient.  *)
LEMMA QuotientMono ==
  ASSUME NEW a \in Nat, NEW b \in Nat, a <= b, NEW c \in Nat \ {0}
  PROVE  a \div c <= b \div c
<1> DEFINE q == b \div c
<1>1. q \in Nat /\ b = c * q + (b % c) /\ (b % c) \in 0..(c - 1)
  BY Quotient
<1>2. c * (q + 1) = c * q + c /\ c * q \in Nat
  BY <1>1, ProductNat
<1> HIDE DEF q
<1>3. a < c * (q + 1) /\ q + 1 \in Nat
  BY <1>1, <1>2
<1>4. a \div c < q + 1
  BY <1>3, QuotientStrict
<1>5. a \div c \in Nat
  BY Quotient
<1> QED
  BY <1>1, <1>4, <1>5 DEF q

(* A quotient is at least any number whose product is not above, and one    *)
(* more than it is too much.                                                *)
LEMMA QuotientAtLeast ==
  ASSUME NEW a \in Nat, NEW b \in Nat \ {0}, NEW c \in Nat, c * b <= a
  PROVE  c <= a \div b
<1>1. c * b \in Nat
  BY ProductNat
<1>2. (c * b) \div b <= a \div b
  BY <1>1, QuotientMono
<1>3. (c * b) \div b = c
  BY QuotientExact
<1> QED
  BY <1>2, <1>3

LEMMA QuotientNext ==
  ASSUME NEW a \in Nat, NEW b \in Nat \ {0}
  PROVE  a + 1 <= b * (a \div b) + b
<1>1. a \div b \in Nat /\ a = b * (a \div b) + (a % b) /\ a % b \in 0..(b - 1)
  OBVIOUS
<1>2. b * (a \div b) \in Nat
  BY <1>1, ProductNat
<1> QED
  BY <1>1, <1>2

(* Both factors smaller, the product is. *)
LEMMA ProductMono2 ==
  ASSUME NEW a \in Nat, NEW b \in Nat, NEW c \in Nat, NEW d \in Nat, a <= b, c <= d
  PROVE  a * c <= b * d
<1>1. a * c <= b * c
  BY ProductMono
<1>2. c * b <= d * b
  BY ProductMono
<1>3. c * b = b * c /\ d * b = b * d
  OBVIOUS
<1>4. a * c \in Nat /\ b * c \in Nat /\ b * d \in Nat
  BY ProductNat
<1> QED
  BY <1>1, <1>2, <1>3, <1>4

(* A factor that is strictly smaller, too, if the other is positive.        *)
LEMMA ProductStrict ==
  ASSUME NEW a \in Nat, NEW b \in Nat, a < b, NEW c \in Nat \ {0}
  PROVE  a * c < b * c
<1>1. (a + 1) * c <= b * c
  BY ProductMono
<1>2. (a + 1) * c = a * c + c
  OBVIOUS
<1>3. a * c \in Nat /\ b * c \in Nat
  BY ProductNat
<1> QED
  BY <1>1, <1>2, <1>3

(* A positive factor on both sides can be left out. *)
LEMMA ProductCancel ==
  ASSUME NEW a \in Nat, NEW b \in Nat, NEW c \in Nat \ {0}, a * c <= b * c
  PROVE  a <= b
<1>1. SUFFICES ASSUME b < a PROVE FALSE
  OBVIOUS
<1>2. b * c < a * c
  BY <1>1, ProductStrict
<1>3. a * c \in Nat /\ b * c \in Nat
  BY ProductNat
<1> QED
  BY <1>2, <1>3

(* Every natural number has an integer square root: the roots of the        *)
(* smaller squares are an interval from one, and their number is the root.  *)
LEMMA SquareRoot ==
  ASSUME NEW n \in Nat
  PROVE  \E r \in 0..n : r * r <= n /\ n < (r + 1) * (r + 1)
<1> DEFINE S == {k \in 1..n : k * k <= n}
           r == Cardinality(S)
<1>1. IsFiniteSet(1..n) /\ Cardinality(1..n) = n
  BY FS_Interval
<1>2. IsFiniteSet(S) /\ r \in Nat /\ r <= n
  BY <1>1, FS_Subset, FS_CardinalityType
<1>3. ASSUME NEW k \in S
      PROVE  k <= r
  <2>1. ASSUME NEW j \in 1..k PROVE j \in S
    <3>1. j \in Nat /\ k \in Nat /\ j <= k /\ k * k <= n /\ k <= n
      OBVIOUS
    <3>2. j * j <= k * k /\ j * j \in Nat /\ k * k \in Nat
      BY <3>1, ProductMono2, ProductNat
    <3> QED
      BY <3>1, <3>2
  <2>2. 1..k \subseteq S
    BY <2>1
  <2>3. k \in Nat /\ Cardinality(1..k) = k
    <3>1. k \in 1..n
      OBVIOUS
    <3> QED
      BY <3>1, FS_Interval
  <2> QED
    BY <1>2, <2>2, <2>3, FS_Subset
<1>4. S = 1..r
  <2>1. S \subseteq 1..r
    BY <1>2, <1>3
  <2>2. IsFiniteSet(1..r) /\ Cardinality(1..r) = r
    BY <1>2, FS_Interval
  <2> QED
    BY <2>1, <2>2, FS_Subset
<1> HIDE DEF r
<1>5. r * r <= n
  <2>1. CASE r = 0
    BY <2>1
  <2>2. CASE r # 0
    <3>1. r \in S
      BY <1>2, <1>4, <2>2
    <3> QED
      BY <3>1
  <2> QED
    BY <2>1, <2>2
<1>6. n < (r + 1) * (r + 1)
  <2>1. SUFFICES ASSUME (r + 1) * (r + 1) <= n PROVE FALSE
    <3>1. (r + 1) * (r + 1) \in Nat
      BY <1>2, ProductNat
    <3> QED
      BY <3>1
  <2>2. r + 1 <= (r + 1) * (r + 1)
    BY <1>2, ProductMono, 1 <= r + 1, 1 * (r + 1) = r + 1
  <2>3. r + 1 \in S
    <3>1. (r + 1) * (r + 1) \in Nat /\ r + 1 \in Nat
      BY <1>2, ProductNat
    <3>2. r + 1 \in 1..n
      BY <1>2, <2>1, <2>2, <3>1
    <3> QED
      BY <2>1, <3>2
  <2>4. r + 1 \notin 1..r
    BY <1>2
  <2> HIDE DEF S
  <2> QED
    BY <1>4, <2>3, <2>4
<1> QED
  BY <1>2, <1>5, <1>6

-----------------------------------------------------------------------------
(* Totals *)

(* The coins of a natural-valued function on a finite set are finitely many. *)
LEMMA UnitsFinite ==
  ASSUME NEW S, IsFiniteSet(S), NEW f, \A x \in S : f[x] \in Nat
  PROVE  IsFiniteSet(Units(f, S))
<1> DEFINE g == [x \in S |-> {x} \X (1..f[x])]
           R == {{x} \X (1..f[x]) : x \in S}
<1>1. IsFiniteSet(R)
  <2>1. g \in Surjection(S, R)
    BY DEF Surjection
  <2>2. QED
    BY <2>1, FS_Surjection
<1>2. ASSUME NEW T \in R
      PROVE  IsFiniteSet(T)
  <2>1. PICK x \in S : T = {x} \X (1..f[x])
    OBVIOUS
  <2>2. IsFiniteSet({x})
    BY FS_Singleton
  <2>3. f[x] \in Int
    OBVIOUS
  <2>4. IsFiniteSet(1..f[x])
    BY <2>3, FS_Interval
  <2>5. IsFiniteSet({x} \X (1..f[x]))
    BY <2>2, <2>4, FS_Product
  <2> QED
    BY <2>1, <2>5
<1>3. IsFiniteSet(UNION R)
  BY <1>1, <1>2, FS_UNION
<1> QED
  BY <1>3 DEF Units

(* A total is a natural number. *)
LEMMA SumNat ==
  ASSUME NEW S, IsFiniteSet(S), NEW f, \A x \in S : f[x] \in Nat
  PROVE  Sum(f, S) \in Nat
BY UnitsFinite, FS_CardinalityType DEF Sum

(* The total depends on the values on S only. *)
LEMMA SumExt ==
  ASSUME NEW S, NEW f, NEW g, \A x \in S : f[x] = g[x]
  PROVE  Sum(f, S) = Sum(g, S)
<1>1. \A x \in S : {x} \X (1..f[x]) = {x} \X (1..g[x])
  OBVIOUS
<1>2. {{x} \X (1..f[x]) : x \in S} = {{x} \X (1..g[x]) : x \in S}
  BY <1>1
<1> QED
  BY <1>2 DEF Sum, Units

(* The empty total is zero. *)
LEMMA SumEmpty ==
  ASSUME NEW f
  PROVE  Sum(f, {}) = 0
<1>1. Units(f, {}) = {}
  BY DEF Units
<1> QED
  BY <1>1, FS_EmptySet DEF Sum

(* The total of nothing but zeros is zero. *)
LEMMA SumZero ==
  ASSUME NEW S, NEW f, \A x \in S : f[x] = 0
  PROVE  Sum(f, S) = 0
<1>1. \A x \in S : {x} \X (1..f[x]) = {}
  OBVIOUS
<1>2. Units(f, S) = {}
  BY <1>1 DEF Units
<1> QED
  BY <1>2, FS_EmptySet DEF Sum

(* The total over one member is its value. *)
LEMMA SumSingle ==
  ASSUME NEW x, NEW f, f[x] \in Nat
  PROVE  Sum(f, {x}) = f[x]
<1>1. Units(f, {x}) = {x} \X (1..f[x])
  BY DEF Units
<1>2. IsFiniteSet({x}) /\ Cardinality({x}) = 1
  BY FS_Singleton
<1>3. f[x] \in Int /\ 1 \in Int
  OBVIOUS
<1>4. IsFiniteSet(1..f[x]) /\ Cardinality(1..f[x]) = f[x]
  BY <1>3, FS_Interval, SMTT(30)
<1>5. Cardinality({x} \X (1..f[x])) = Cardinality({x}) * Cardinality(1..f[x])
  BY <1>2, <1>4, FS_Product
<1>6. Sum(f, {x}) = Cardinality({x}) * Cardinality(1..f[x])
  BY <1>1, <1>5, Zenon DEF Sum
<1>7. Cardinality({x}) * Cardinality(1..f[x]) = f[x]
  BY <1>2, <1>4
<1> QED
  BY <1>6, <1>7, Zenon

(* Totals over disjoint sets add up. *)
LEMMA SumDisjoint ==
  ASSUME NEW S, IsFiniteSet(S), NEW T, IsFiniteSet(T), S \cap T = {},
         NEW f, \A x \in S \cup T : f[x] \in Nat
  PROVE  Sum(f, S \cup T) = Sum(f, S) + Sum(f, T)
<1>1. IsFiniteSet(Units(f, S)) /\ IsFiniteSet(Units(f, T))
  BY UnitsFinite
<1>2. Units(f, S \cup T) = Units(f, S) \cup Units(f, T)
  BY DEF Units
<1>3. Units(f, S) \cap Units(f, T) = {}
  <2>1. ASSUME NEW u \in Units(f, S), u \in Units(f, T)
        PROVE  FALSE
    <3>1. PICK x \in S : u \in {x} \X (1..f[x])
      BY DEF Units
    <3>2. PICK y \in T : u \in {y} \X (1..f[y])
      BY <2>1 DEF Units
    <3>3. u[1] = x /\ u[1] = y
      BY <3>1, <3>2
    <3> QED
      BY <3>3
  <2> QED
    BY <2>1
<1>4. Cardinality(Units(f, S) \cap Units(f, T)) = 0
  BY <1>3, FS_EmptySet, Zenon
<1>5. Sum(f, S) \in Nat /\ Sum(f, T) \in Nat
  BY <1>1, FS_CardinalityType, Zenon DEF Sum
<1>6. Cardinality(Units(f, S) \cup Units(f, T)) =
        Cardinality(Units(f, S)) + Cardinality(Units(f, T))
          - Cardinality(Units(f, S) \cap Units(f, T))
  BY <1>1, FS_Union
<1>7. Sum(f, S \cup T) = Sum(f, S) + Sum(f, T) - 0
  BY <1>2, <1>4, <1>6, Zenon DEF Sum
<1> QED
  BY <1>5, <1>7

(* The total splits into one member and the rest. *)
LEMMA SumSplit ==
  ASSUME NEW S, IsFiniteSet(S), NEW x \in S, NEW f, \A y \in S : f[y] \in Nat
  PROVE  /\ Sum(f, S) = Sum(f, S \ {x}) + f[x]
         /\ Sum(f, S \ {x}) \in Nat
<1>1. IsFiniteSet(S \ {x}) /\ IsFiniteSet({x})
  BY FS_RemoveElement, FS_Singleton
<1>2. (S \ {x}) \cup {x} = S /\ (S \ {x}) \cap {x} = {}
  OBVIOUS
<1>3. Sum(f, (S \ {x}) \cup {x}) = Sum(f, S \ {x}) + Sum(f, {x})
  BY <1>1, <1>2, SumDisjoint
<1>4. Sum(f, {x}) = f[x]
  BY SumSingle
<1>5. Sum(f, S \ {x}) \in Nat
  BY <1>1, SumNat
<1> QED
  BY <1>2, <1>3, <1>4, <1>5, Zenon

(* When only the value of x changes, the total changes by the difference. *)
LEMMA SumChange ==
  ASSUME NEW S, IsFiniteSet(S), NEW x \in S, NEW f, NEW g,
         \A y \in S : f[y] \in Nat /\ g[y] \in Nat,
         \A y \in S \ {x} : g[y] = f[y]
  PROVE  Sum(g, S) = Sum(f, S) + g[x] - f[x]
<1>1. Sum(f, S \ {x}) = Sum(g, S \ {x})
  BY SumExt
<1>2. /\ Sum(f, S) = Sum(f, S \ {x}) + f[x]
      /\ Sum(f, S \ {x}) \in Nat
  BY SumSplit
<1>3. Sum(g, S) = Sum(g, S \ {x}) + g[x]
  BY SumSplit
<1>4. f[x] \in Nat /\ g[x] \in Nat
  OBVIOUS
<1> QED
  BY <1>1, <1>2, <1>3, <1>4

(* Removing a subset removes its total. *)
LEMMA SumRemove ==
  ASSUME NEW S, IsFiniteSet(S), NEW T, T \subseteq S, NEW f,
         \A y \in S : f[y] \in Nat
  PROVE  /\ Sum(f, S \ T) = Sum(f, S) - Sum(f, T)
         /\ Sum(f, T) <= Sum(f, S)
<1>1. IsFiniteSet(S \ T) /\ IsFiniteSet(T)
  BY FS_Subset
<1>2. (S \ T) \cup T = S /\ (S \ T) \cap T = {}
  OBVIOUS
<1>3. Sum(f, (S \ T) \cup T) = Sum(f, S \ T) + Sum(f, T)
  BY <1>1, <1>2, SumDisjoint
<1>4. Sum(f, S \ T) \in Nat /\ Sum(f, T) \in Nat
  BY <1>1, SumNat
<1>5. Sum(f, S) = Sum(f, S \ T) + Sum(f, T)
  BY <1>2, <1>3, Zenon
<1> QED
  BY <1>4, <1>5

(* The total of a pointwise sum is the sum of the totals. *)
LEMMA SumAdd ==
  ASSUME NEW S, IsFiniteSet(S), NEW f, NEW g, NEW h,
         \A x \in S : g[x] \in Nat /\ h[x] \in Nat /\ f[x] = g[x] + h[x]
  PROVE  Sum(f, S) = Sum(g, S) + Sum(h, S)
<1> DEFINE H == Units(f, S) \ Units(g, S)
           shift == [u \in H |-> <<u[1], u[2] - g[u[1]]>>]
<1>1. \A x \in S : f[x] \in Nat
  OBVIOUS
<1>2. /\ IsFiniteSet(Units(f, S))
      /\ IsFiniteSet(Units(g, S))
      /\ IsFiniteSet(Units(h, S))
  BY <1>1, UnitsFinite
<1>3. \A u : u \in Units(f, S) <=>
               \E x \in S, i \in Int : i \in 1..f[x] /\ u = <<x, i>>
  BY DEF Units
<1>4. \A u : u \in Units(g, S) <=>
               \E x \in S, i \in Int : i \in 1..g[x] /\ u = <<x, i>>
  BY DEF Units
<1>5. \A u : u \in Units(h, S) <=>
               \E x \in S, i \in Int : i \in 1..h[x] /\ u = <<x, i>>
  BY DEF Units
<1>6. Units(g, S) \subseteq Units(f, S)
  BY <1>1, <1>3, <1>4
<1>7. \A u : u \in H <=>
               \E x \in S, i \in Int : i \in (g[x] + 1)..f[x] /\ u = <<x, i>>
  BY <1>1, <1>3, <1>4
<1>8. shift \in Bijection(H, Units(h, S))
  <2>1. ASSUME NEW u \in H
        PROVE  shift[u] \in Units(h, S)
    <3>1. PICK x \in S, i \in Int : i \in (g[x] + 1)..f[x] /\ u = <<x, i>>
      BY <1>7
    <3>2. shift[u] = <<x, i - g[x]>>
      BY <3>1
    <3>3. i - g[x] \in 1..h[x]
      BY <3>1
    <3> QED
      BY <3>2, <3>3, <1>5
  <2>2. ASSUME NEW u \in H, NEW v \in H, shift[u] = shift[v]
        PROVE  u = v
    <3>1. PICK x \in S, i \in Int : i \in (g[x] + 1)..f[x] /\ u = <<x, i>>
      BY <1>7
    <3>2. PICK y \in S, j \in Int : j \in (g[y] + 1)..f[y] /\ v = <<y, j>>
      BY <1>7
    <3>3. shift[u] = <<x, i - g[x]>> /\ shift[v] = <<y, j - g[y]>>
      BY <3>1, <3>2
    <3>4. x = y /\ i - g[x] = j - g[y]
      BY <2>2, <3>3
    <3>5. i = j
      BY <3>4
    <3> QED
      BY <3>1, <3>2, <3>4, <3>5
  <2>3. ASSUME NEW w \in Units(h, S)
        PROVE  \E u \in H : shift[u] = w
    <3>1. PICK x \in S, i \in Int : i \in 1..h[x] /\ w = <<x, i>>
      BY <1>5
    <3>2. i + g[x] \in (g[x] + 1)..f[x]
      BY <3>1
    <3>3. <<x, i + g[x]>> \in H
      BY <3>2, <1>7
    <3>4. shift[<<x, i + g[x]>>] = <<x, (i + g[x]) - g[x]>>
      BY <3>3
    <3>5. (i + g[x]) - g[x] = i
      OBVIOUS
    <3> QED
      BY <3>1, <3>3, <3>4, <3>5
  <2>4. shift \in [H -> Units(h, S)]
    BY <2>1
  <2> HIDE DEF shift, H
  <2>5. shift \in Injection(H, Units(h, S))
    BY <2>2, <2>4 DEF Injection, IsInjective
  <2>6. shift \in Surjection(H, Units(h, S))
    BY <2>3, <2>4 DEF Surjection
  <2> QED
    BY <2>5, <2>6 DEF Bijection
<1>9. IsFiniteSet(H)
  BY <1>2, FS_Subset
<1>10. Cardinality(Units(h, S)) = Cardinality(H)
  <2>1. ExistsBijection(H, Units(h, S))
    BY <1>8 DEF ExistsBijection
  <2> QED
    BY <2>1, <1>9, FS_Bijection
<1>11. Cardinality(H) = Cardinality(Units(f, S)) - Cardinality(Units(g, S))
  <2>1. Units(f, S) \cap Units(g, S) = Units(g, S)
    BY <1>6
  <2>2. Cardinality(H) = Cardinality(Units(f, S))
                           - Cardinality(Units(f, S) \cap Units(g, S))
    BY <1>2, FS_Difference
  <2> QED
    BY <2>1, <2>2, Zenon
<1>12. Sum(f, S) \in Nat /\ Sum(g, S) \in Nat
  BY <1>2, FS_CardinalityType, Zenon DEF Sum
<1>13. Sum(h, S) = Sum(f, S) - Sum(g, S)
  BY <1>10, <1>11, Zenon DEF Sum
<1> QED
  BY <1>12, <1>13

(* A total that is smaller member by member is smaller. *)
LEMMA SumMono ==
  ASSUME NEW S, IsFiniteSet(S), NEW f, NEW g,
         \A x \in S : f[x] \in Nat /\ g[x] \in Nat /\ f[x] <= g[x]
  PROVE  Sum(f, S) <= Sum(g, S)
<1>1. Units(f, S) \subseteq Units(g, S)
  <2>1. \A x \in S : {x} \X (1..f[x]) \subseteq {x} \X (1..g[x])
    OBVIOUS
  <2> QED
    BY <2>1 DEF Units
<1>2. IsFiniteSet(Units(g, S))
  BY UnitsFinite
<1> QED
  BY <1>1, <1>2, FS_Subset DEF Sum

(* Numbers written to a base are equal only digit by digit. *)
LEMMA PlacesUnique ==
  ASSUME NEW c \in Nat, NEW i \in Nat, NEW k \in Nat, NEW j \in 1..c,
         NEW m \in 1..c, i * c + j = k * c + m
  PROVE  i = k /\ j = m
<1>1. ASSUME NEW p \in Nat, NEW q \in Nat, p < q, NEW a \in 1..c, NEW b \in 1..c
      PROVE  p * c + a < q * c + b
  <2>1. (p + 1) * c <= q * c
    BY <1>1, ProductMono
  <2>2. (p + 1) * c = p * c + c
    OBVIOUS
  <2>3. p * c \in Nat /\ q * c \in Nat
    BY ProductNat
  <2> QED
    BY <2>1, <2>2, <2>3
<1>2. i * c \in Nat /\ k * c \in Nat
  BY ProductNat
<1>3. i = k
  <2>1. ~(i < k) /\ ~(k < i)
    BY <1>1, <1>2
  <2> QED
    BY <2>1
<1> QED
  BY <1>2, <1>3

(* The total of a function times a number is its total times the number. *)
LEMMA SumScale ==
  ASSUME NEW S, IsFiniteSet(S), NEW c \in Nat, NEW f, NEW g,
         \A x \in S : f[x] \in Nat /\ g[x] = f[x] * c
  PROVE  Sum(g, S) = Sum(f, S) * c
<1> DEFINE P == Units(f, S) \X (1..c)
           place == [p \in P |-> <<p[1][1], (p[1][2] - 1) * c + p[2]>>]
<1>1. \A x \in S : g[x] \in Nat
  BY ProductNat
<1>2. IsFiniteSet(Units(f, S)) /\ IsFiniteSet(Units(g, S))
  BY <1>1, UnitsFinite
<1>3. \A u : u \in Units(f, S) <=>
               \E x \in S, i \in Int : i \in 1..f[x] /\ u = <<x, i>>
  BY DEF Units
<1>4. \A u : u \in Units(g, S) <=>
               \E x \in S, i \in Int : i \in 1..g[x] /\ u = <<x, i>>
  BY DEF Units
<1>5. \A p \in P : \E x \in S, i \in Nat, j \in 1..c :
         i + 1 \in 1..f[x] /\ p = <<<<x, i + 1>>, j>>
                 /\ place[p] = <<x, i * c + j>>
  <2> SUFFICES ASSUME NEW p \in P
               PROVE  \E x \in S, i \in Nat, j \in 1..c :
                        i + 1 \in 1..f[x] /\ p = <<<<x, i + 1>>, j>>
                                /\ place[p] = <<x, i * c + j>>
    OBVIOUS
  <2>1. PICK w \in Units(f, S), j \in 1..c : p = <<w, j>>
    OBVIOUS
  <2>2. PICK x \in S, m \in Int : m \in 1..f[x] /\ w = <<x, m>>
    BY <1>3
  <2>3. m - 1 \in Nat /\ (m - 1) + 1 = m
    BY <2>2
  <2>4. place[p] = <<x, (m - 1) * c + j>>
    BY <2>1, <2>2
  <2> HIDE DEF place, P
  <2> QED
    BY <2>1, <2>2, <2>3, <2>4
<1>6. place \in [P -> Units(g, S)]
  <2>1. ASSUME NEW p \in P PROVE place[p] \in Units(g, S)
    <3>1. PICK x \in S, i \in Nat, j \in 1..c :
            i + 1 \in 1..f[x] /\ p = <<<<x, i + 1>>, j>>
                    /\ place[p] = <<x, i * c + j>>
      BY <1>5
    <3>2. (i + 1) * c <= f[x] * c
      BY <3>1, ProductMono
    <3>3. (i + 1) * c = i * c + c /\ i * c \in Nat
      BY ProductNat
    <3>4. i * c + j \in 1..g[x] /\ i * c + j \in Int
      BY <1>1, <3>2, <3>3
    <3> QED
      BY <1>4, <3>1, <3>4
  <2> QED
    BY <2>1
<1>7. \A p, q \in P : place[p] = place[q] => p = q
  <2> SUFFICES ASSUME NEW p \in P, NEW q \in P, place[p] = place[q]
               PROVE  p = q
    OBVIOUS
  <2>1. PICK x \in S, i \in Nat, j \in 1..c :
          i + 1 \in 1..f[x] /\ p = <<<<x, i + 1>>, j>>
                  /\ place[p] = <<x, i * c + j>>
    BY <1>5
  <2>2. PICK y \in S, k \in Nat, m \in 1..c :
          k + 1 \in 1..f[y] /\ q = <<<<y, k + 1>>, m>>
                  /\ place[q] = <<y, k * c + m>>
    BY <1>5
  <2>3. x = y /\ i * c + j = k * c + m
    BY <2>1, <2>2
  <2>4. i = k /\ j = m
    BY <2>3, PlacesUnique
  <2> QED
    BY <2>1, <2>2, <2>3, <2>4
<1>8. \A w \in Units(g, S) : \E p \in P : place[p] = w
  <2> SUFFICES ASSUME NEW w \in Units(g, S)
               PROVE  \E p \in P : place[p] = w
    OBVIOUS
  <2>1. PICK x \in S, n \in Int : n \in 1..g[x] /\ w = <<x, n>>
    BY <1>4
  <2>2. c \in Nat \ {0}
    <3>1. c # 0
      BY <2>1
    <3> QED
      BY <3>1
  <2> DEFINE i == (n - 1) \div c
             j == ((n - 1) % c) + 1
  <2>3. n - 1 \in Nat /\ n - 1 < c * f[x]
    BY <1>1, <2>1
  <2>4. i \in Nat /\ i < f[x]
    BY <2>2, <2>3, Quotient, QuotientStrict
  <2>5. n - 1 = c * i + ((n - 1) % c) /\ ((n - 1) % c) \in 0..(c - 1)
    BY <2>2, <2>3
  <2>6. j \in 1..c /\ n = i * c + j
    <3>1. c * i = i * c /\ i * c \in Nat
      BY <2>4, ProductNat
    <3> DEFINE r == (n - 1) % c
               m == i * c
    <3>2. n - 1 = m + r /\ r \in 0..(c - 1) /\ j = r + 1 /\ m \in Nat
      BY <2>5, <3>1
    <3> HIDE DEF i, j, r, m
    <3>3. j \in 1..c /\ n = m + j
      BY <2>1, <2>2, <3>2
    <3> QED
      BY <3>3 DEF m
  <2> HIDE DEF i, j
  <2>7. <<<<x, i + 1>>, j>> \in P
    <3>1. i + 1 \in 1..f[x] /\ i + 1 \in Int
      BY <2>4
    <3>2. <<x, i + 1>> \in Units(f, S)
      BY <1>3, <3>1
    <3> QED
      BY <2>6, <3>2
  <2>8. place[<<<<x, i + 1>>, j>>] = <<x, ((i + 1) - 1) * c + j>>
    BY <2>7
  <2>9. (i + 1) - 1 = i
    BY <2>4
  <2> QED
    BY <2>1, <2>6, <2>7, <2>8, <2>9
<1>9. ExistsBijection(P, Units(g, S))
  <2> HIDE DEF place, P
  <2>1. place \in Injection(P, Units(g, S))
    BY <1>6, <1>7 DEF Injection, IsInjective
  <2>2. place \in Surjection(P, Units(g, S))
    BY <1>6, <1>8 DEF Surjection
  <2> QED
    BY <2>1, <2>2 DEF Bijection, ExistsBijection
<1>10. IsFiniteSet(1..c) /\ Cardinality(1..c) = c
  BY FS_Interval
<1>11. IsFiniteSet(P) /\ Cardinality(P) = Cardinality(Units(f, S)) * Cardinality(1..c)
  BY <1>2, <1>10, FS_Product
<1> HIDE DEF P
<1>12. Cardinality(Units(g, S)) = Cardinality(P)
  BY <1>9, <1>11, FS_Bijection
<1> QED
  BY <1>10, <1>11, <1>12 DEF Sum

(* When every member grows by c times another value, the total grows by c   *)
(* times the total of those.                                                *)
LEMMA SumGrown ==
  ASSUME NEW S, IsFiniteSet(S), NEW c \in Nat, NEW f, NEW g, NEW h,
         \A x \in S : f[x] \in Nat /\ h[x] \in Nat,
         \A x \in S : g[x] = f[x] + h[x] * c
  PROVE  Sum(g, S) = Sum(f, S) + Sum(h, S) * c
<1> DEFINE e == [x \in S |-> h[x] * c]
<1>1. \A x \in S : e[x] \in Nat
  BY ProductNat
<1>2. \A x \in S : f[x] \in Nat /\ e[x] \in Nat /\ g[x] = f[x] + e[x]
  BY <1>1
<1>3. Sum(e, S) = Sum(h, S) * c
  BY SumScale
<1> HIDE DEF e
<1>4. Sum(g, S) = Sum(f, S) + Sum(e, S)
  BY <1>2, SumAdd
<1> QED
  BY <1>3, <1>4

(* Part by part, or all at once: the total over a set is the total of the   *)
(* totals over the parts of a partition.                                    *)
LEMMA SumPartition ==
  ASSUME NEW U, IsFiniteSet(U), NEW T, IsFiniteSet(T), NEW f,
         \A k \in T : f[k] \in Nat, NEW part,
         \A k \in T : \E u \in U : k \in part[u],
         \A u \in U : part[u] \subseteq T,
         \A u, v \in U : u # v => part[u] \cap part[v] = {},
         NEW g, \A u \in U : g[u] = Sum(f, part[u])
  PROVE  Sum(g, U) = Sum(f, T)
<1> DEFINE R(u) == Units(f, part[u])
           row == [u \in U |-> CHOOSE b : b \in Bijection(1..g[u], R(u))]
           P == Units(g, U)
           place == [p \in P |-> row[p[1]][p[2]]]
<1>1. \A u \in U : IsFiniteSet(part[u])
  BY FS_Subset
<1>2. \A u \in U : g[u] \in Nat /\ IsFiniteSet(R(u)) /\ g[u] = Cardinality(R(u))
  <2> SUFFICES ASSUME NEW u \in U
               PROVE g[u] \in Nat /\ IsFiniteSet(R(u)) /\ g[u] = Cardinality(R(u))
    OBVIOUS
  <2>1. \A k \in part[u] : f[k] \in Nat
    OBVIOUS
  <2>2. IsFiniteSet(R(u)) /\ Sum(f, part[u]) \in Nat
    BY <1>1, <2>1, UnitsFinite, SumNat
  <2>3. g[u] = Sum(f, part[u])
    OBVIOUS
  <2> QED
    BY <2>2, <2>3 DEF Sum
<1>3. \A u \in U : row[u] \in Bijection(1..g[u], R(u))
  <2> SUFFICES ASSUME NEW u \in U
               PROVE  \E b : b \in Bijection(1..g[u], R(u))
    OBVIOUS
  <2>1. ExistsBijection(1..Cardinality(R(u)), R(u))
    BY <1>2, FS_CardinalityType
  <2> QED
    BY <1>2, <2>1 DEF ExistsBijection
<1>4. IsFiniteSet(P) /\ IsFiniteSet(Units(f, T))
  BY <1>2, UnitsFinite
<1>5. \A p : p \in P <=> \E u \in U, i \in Int : i \in 1..g[u] /\ p = <<u, i>>
  BY DEF Units
<1>6. \A w : w \in Units(f, T) <=> \E u \in U : w \in R(u)
  <2>1. \A w : w \in Units(f, T) <=> \E k \in T : w \in {k} \X (1..f[k])
    BY DEF Units
  <2>2. \A u \in U : \A w : w \in R(u) <=>
               \E k \in part[u] : w \in {k} \X (1..f[k])
    BY DEF Units
  <2> HIDE DEF R
  <2> QED
    BY <2>1, <2>2
<1>7. \A u, v \in U : \A w : w \in R(u) /\ w \in R(v) => u = v
  <2> SUFFICES ASSUME NEW u \in U, NEW v \in U, NEW w, w \in R(u), w \in R(v)
               PROVE  u = v
    OBVIOUS
  <2>1. w[1] \in part[u] /\ w[1] \in part[v]
    BY DEF Units
  <2> QED
    BY <2>1
<1> HIDE DEF R, row
<1>8. \A u \in U : /\ row[u] \in [1..g[u] -> R(u)]
                   /\ \A i, j \in 1..g[u] : row[u][i] = row[u][j] => i = j
                   /\ \A w \in R(u) : \E i \in 1..g[u] : row[u][i] = w
  <2> SUFFICES ASSUME NEW u \in U
               PROVE  /\ row[u] \in [1..g[u] -> R(u)]
                      /\ \A i, j \in 1..g[u] : row[u][i] = row[u][j] => i = j
                      /\ \A w \in R(u) : \E i \in 1..g[u] : row[u][i] = w
    OBVIOUS
  <2>1. row[u] \in Injection(1..g[u], R(u)) /\ row[u] \in Surjection(1..g[u], R(u))
    BY <1>3 DEF Bijection
  <2>2. row[u] \in [1..g[u] -> R(u)] /\ IsInjective(row[u])
    BY <2>1 DEF Injection
  <2>3. DOMAIN row[u] = 1..g[u]
    BY <2>2
  <2>4. \A i, j \in 1..g[u] : row[u][i] = row[u][j] => i = j
    BY <2>2, <2>3 DEF IsInjective
  <2>5. \A w \in R(u) : \E i \in 1..g[u] : row[u][i] = w
    BY <2>1 DEF Surjection
  <2> QED
    BY <2>2, <2>4, <2>5
<1>9. place \in [P -> Units(f, T)]
  <2>1. ASSUME NEW p \in P PROVE place[p] \in Units(f, T)
    <3>1. PICK u \in U, i \in Int : i \in 1..g[u] /\ p = <<u, i>>
      BY <1>5
    <3>2. place[p] = row[u][i]
      BY <3>1
    <3>3. row[u][i] \in R(u)
      BY <1>8, <3>1
    <3> QED
      BY <1>6, <3>2, <3>3
  <2> QED
    BY <2>1
<1>10. \A p, q \in P : place[p] = place[q] => p = q
  <2> SUFFICES ASSUME NEW p \in P, NEW q \in P, place[p] = place[q]
               PROVE  p = q
    OBVIOUS
  <2>1. PICK u \in U, i \in Int : i \in 1..g[u] /\ p = <<u, i>>
    BY <1>5
  <2>2. PICK v \in U, j \in Int : j \in 1..g[v] /\ q = <<v, j>>
    BY <1>5
  <2>3. place[p] = row[u][i] /\ place[q] = row[v][j]
    BY <2>1, <2>2
  <2>4. row[u][i] \in R(u) /\ row[v][j] \in R(v)
    BY <1>8, <2>1, <2>2, ZenonT(40)
  <2>5. u = v
    BY <1>7, <2>3, <2>4
  <2>6. i = j
    BY <1>8, <2>1, <2>2, <2>3, <2>5
  <2> QED
    BY <2>1, <2>2, <2>5, <2>6
<1>11. \A w \in Units(f, T) : \E p \in P : place[p] = w
  <2> SUFFICES ASSUME NEW w \in Units(f, T)
               PROVE  \E p \in P : place[p] = w
    OBVIOUS
  <2>1. PICK u \in U : w \in R(u)
    BY <1>6
  <2>2. PICK i \in 1..g[u] : row[u][i] = w
    BY <1>8, <2>1
  <2>3. i \in Int /\ <<u, i>> \in P
    BY <1>2, <1>5, <2>2
  <2>4. place[<<u, i>>] = row[u][i]
    BY <2>3
  <2> QED
    BY <2>2, <2>3, <2>4
<1>12. ExistsBijection(P, Units(f, T))
  <2> HIDE DEF place, P
  <2>1. place \in Injection(P, Units(f, T))
    BY <1>9, <1>10 DEF Injection, IsInjective
  <2>2. place \in Surjection(P, Units(f, T))
    BY <1>9, <1>11 DEF Surjection
  <2> QED
    BY <2>1, <2>2 DEF Bijection, ExistsBijection
<1> HIDE DEF place
<1> QED
  BY <1>4, <1>12, FS_Bijection DEF Sum
=============================================================================

------------------------ MODULE TerraswapPairProofs ------------------------
(***************************************************************************)
(* For every set of users, every fee and every precision: the books of a    *)
(* pool balance, a pool that has both assets keeps them, and no call makes  *)
(* a share worth less.                                                      *)
(***************************************************************************)
EXTENDS TerraswapPair, Arithmetic

(* The pool has kept the locked part of its first shares.                   *)
LockedKept == TotalShare > 0 => lp[Pair] > 0

IInv == TypeOK /\ FeesSetAside /\ FeesForwardedOnce /\ LockedKept

LEMMA HoldersFinite == IsFiniteSet(Holders) /\ Pair \in Holders /\ Users \subseteq Holders
BY PairAssumption, FS_AddElement DEF Holders

LEMMA UnitNat == Unit \in Nat \ {0} /\ MinLiquidity \in Nat \ {0}
BY PairAssumption

LEMMA OtherAsset ==
  ASSUME NEW a \in Assets
  PROVE  Other(a) \in Assets /\ Other(a) # a /\ Assets = {a, Other(a)}
BY DEF Assets, Other

(* What the invariant says of the amounts. *)
LEMMA Amounts ==
  ASSUME IInv
  PROVE  /\ lp \in [Holders -> Nat]
         /\ wallet \in [Users \X Assets -> Nat]
         /\ \A a \in Assets :
              /\ pair_balance[a] \in Nat /\ collected[a] \in Nat
              /\ all_time[a] \in Nat /\ burned[a] \in Nat /\ fee_collector[a] \in Nat
              /\ Pool(a) \in Nat /\ Pool(a) = pair_balance[a] - collected[a]
BY DEF IInv, TypeOK, FeesSetAside, Pool

(* The total of the shares is no less than what a user and the pool hold.   *)
LEMMA ShareNat ==
  ASSUME lp \in [Holders -> Nat]
  PROVE  /\ TotalShare \in Nat
         /\ \A u \in Users : lp[u] + lp[Pair] <= TotalShare
<1>1. IsFiniteSet(Holders) /\ \A h \in Holders : lp[h] \in Nat
  BY HoldersFinite
<1>2. Sum(lp, Holders) \in Nat
  BY <1>1, SumNat
<1>3. ASSUME NEW u \in Users
      PROVE  lp[u] + lp[Pair] <= Sum(lp, Holders)
  <2>1. u \in Holders /\ Pair \in Holders \ {u}
    BY HoldersFinite, PairAssumption
  <2>2. Sum(lp, Holders) = Sum(lp, Holders \ {u}) + lp[u]
    BY <1>1, <2>1, SumSplit
  <2>3. IsFiniteSet(Holders \ {u}) /\ \A h \in Holders \ {u} : lp[h] \in Nat
    BY <1>1, FS_RemoveElement
  <2>4. /\ Sum(lp, Holders \ {u}) = Sum(lp, (Holders \ {u}) \ {Pair}) + lp[Pair]
        /\ Sum(lp, (Holders \ {u}) \ {Pair}) \in Nat
    BY <2>1, <2>3, SumSplit
  <2> QED
    BY <1>1, <2>1, <2>2, <2>4
<1> QED
  BY <1>2, <1>3 DEF TotalShare

(* A product with a Decimal that is at most one is at most the amount.      *)
LEMMA TimesNat ==
  ASSUME NEW x \in Nat, NEW r \in Nat
  PROVE  Times(x, r) \in Nat /\ Unit * Times(x, r) <= x * r
BY UnitNat, ProductNat, Quotient DEF Times

-----------------------------------------------------------------------------
(* What a deposit does: its shares are at most in proportion to it.         *)
LEMMA ProvideEffect ==
  ASSUME IInv, NEW u \in Users, NEW receiver \in Users, NEW deposit, NEW tolerance,
         ProvideLiquidity(u, receiver, deposit, tolerance)
  PROVE  /\ \A a \in Assets : deposit[a] \in Nat \ {0} /\ deposit[a] <= wallet[<<u, a>>]
         /\ \E share \in Nat \ {0} :
              /\ lp' = [[lp EXCEPT ![receiver] = @ + share] EXCEPT ![Pair] = @ + Locked]
              /\ TotalShare > 0 =>
                   \A a \in Assets : share * Pool(a) <= deposit[a] * TotalShare
<1> DEFINE share == IF TotalShare = 0
                    THEN IntegerSqrt(deposit[1] * deposit[2]) - MinLiquidity
                    ELSE Proportion(deposit)
<1>1. /\ \A a \in Assets : deposit[a] \in Nat \ {0} /\ deposit[a] <= wallet[<<u, a>>]
      /\ TotalShare # 0 => \A a \in Assets : Pool(a) > 0
      /\ share > 0
      /\ lp' = [[lp EXCEPT ![receiver] = @ + share] EXCEPT ![Pair] = @ + Locked]
  BY Amounts DEF ProvideLiquidity
<1>2. TotalShare \in Nat
  BY Amounts, ShareNat
<1>3. 1 \in Assets /\ 2 \in Assets /\ Assets = {1, 2}
  BY DEF Assets
<1>4. /\ share \in Nat \ {0}
      /\ TotalShare > 0 => \A a \in Assets : share * Pool(a) <= deposit[a] * TotalShare
  <2>1. CASE TotalShare = 0
    <3>1. deposit[1] * deposit[2] \in Nat
      BY <1>1, <1>3, ProductNat
    <3>2. IntegerSqrt(deposit[1] * deposit[2]) \in 0..(deposit[1] * deposit[2])
      BY <3>1, SquareRoot DEF IntegerSqrt
    <3>3. share \in Int
      BY <2>1, <3>1, <3>2, UnitNat
    <3> HIDE DEF share
    <3>4. share \in Nat \ {0}
      BY <1>1, <3>3
    <3>5. ~ (TotalShare > 0)
      BY <2>1
    <3> QED
      BY <3>4, <3>5
  <2>2. CASE TotalShare # 0
    <3> DEFINE T == TotalShare
               part(a) == (deposit[a] * T) \div Pool(a)
    <3>1. T \in Nat \ {0} /\ \A a \in Assets : Pool(a) \in Nat \ {0} /\ deposit[a] \in Nat
      <4> HIDE DEF share
      <4>1. TotalShare \in Nat \ {0}
        BY <1>2, <2>2
      <4>2. \A a \in Assets : Pool(a) \in Nat
        BY Amounts
      <4>3. \A a \in Assets : Pool(a) > 0 /\ deposit[a] \in Nat
        BY <1>1, <2>2
      <4> QED
        BY <4>1, <4>2, <4>3
    <3>2. share = IF part(1) <= part(2) THEN part(1) ELSE part(2)
      BY <2>2 DEF Proportion
    <3> HIDE DEF T
    <3>3. ASSUME NEW a \in Assets
          PROVE  part(a) \in Nat /\ Pool(a) * part(a) <= deposit[a] * T
      BY <3>1, ProductNat, Quotient
    <3> HIDE DEF part, share
    <3>4. part(1) \in Nat /\ part(2) \in Nat
      BY <1>3, <3>3
    <3>5. share \in Nat /\ share <= part(1) /\ share <= part(2)
      BY <3>2, <3>4
    <3>6. ASSUME NEW a \in Assets
          PROVE  share * Pool(a) <= deposit[a] * T
      <4>1. share <= part(a) /\ part(a) \in Nat
        BY <1>3, <3>4, <3>5
      <4>2. share * Pool(a) <= part(a) * Pool(a)
        BY <3>1, <3>5, <4>1, ProductMono
      <4>3. part(a) * Pool(a) = Pool(a) * part(a)
        BY <3>1, <4>1
      <4>4. share * Pool(a) \in Nat /\ part(a) * Pool(a) \in Nat /\ deposit[a] * T \in Nat
        BY <3>1, <3>5, <4>1, ProductNat
      <4> QED
        BY <3>3, <4>2, <4>3, <4>4
    <3>7. share # 0
      BY <1>1, <3>5
    <3>8. \A a \in Assets : share * Pool(a) <= deposit[a] * TotalShare
      BY <3>6 DEF T
    <3> QED
      BY <3>5, <3>7, <3>8
  <2> QED
    BY <2>1, <2>2
<1> HIDE DEF share
<1>5. \E s \in Nat \ {0} :
         /\ lp' = [[lp EXCEPT ![receiver] = @ + s] EXCEPT ![Pair] = @ + Locked]
         /\ TotalShare > 0 => \A a \in Assets : s * Pool(a) <= deposit[a] * TotalShare
  <2>1. share \in Nat \ {0}
    BY <1>4
  <2> WITNESS share \in Nat \ {0}
  <2> QED
    BY <1>1, <1>4
<1> QED
  BY <1>1, <1>5

(* What a withdrawal does: it is worth at most its part of the shares.      *)
LEMMA WithdrawEffect ==
  ASSUME IInv, NEW u \in Users, NEW amount, WithdrawLiquidity(u, amount)
  PROVE  /\ amount \in Nat \ {0} /\ amount <= lp[u] /\ amount < TotalShare
         /\ \A a \in Assets :
              /\ Refund(a, amount) \in Nat \ {0}
              /\ Refund(a, amount) * TotalShare <= Pool(a) * amount
              /\ Refund(a, amount) < Pool(a)
<1>1. /\ amount \in Nat \ {0} /\ amount <= lp[u]
      /\ \A a \in Assets : Refund(a, amount) > 0
  BY Amounts, HoldersFinite DEF WithdrawLiquidity
<1>2. lp[u] \in Nat /\ lp[Pair] \in Nat
  BY Amounts, HoldersFinite
<1>3. TotalShare \in Nat /\ lp[u] + lp[Pair] <= TotalShare
  BY Amounts, ShareNat
<1>4. lp[Pair] > 0
  BY <1>1, <1>2, <1>3 DEF IInv, LockedKept
<1>5. amount < TotalShare
  BY <1>1, <1>2, <1>3, <1>4
<1>6. ASSUME NEW a \in Assets
      PROVE  /\ Refund(a, amount) \in Nat \ {0}
             /\ Refund(a, amount) * TotalShare <= Pool(a) * amount
             /\ Refund(a, amount) < Pool(a)
  <2> DEFINE T == TotalShare
             P == Pool(a)
             r == Ratio(amount, T)
             x == Refund(a, amount)
  <2>1. T \in Nat \ {0} /\ P \in Nat /\ Unit \in Nat \ {0} /\ amount \in Nat
    BY <1>1, <1>3, <1>5, Amounts, UnitNat
  <2>2. r \in Nat /\ T * r <= amount * Unit
    BY <2>1, ProductNat, Quotient DEF Ratio
  <2>3. x = Times(P, r) /\ x > 0
    BY <1>1 DEF Refund
  <2> HIDE DEF T, P, r, x
  <2>4. x \in Nat \ {0} /\ Unit * x <= P * r
    BY <2>1, <2>2, <2>3, TimesNat
  <2>5. x * T <= P * amount
    <3>1. (Unit * x) * T <= (P * r) * T
      BY <2>1, <2>2, <2>4, ProductMono, ProductNat
    <3>2. P * (T * r) <= P * (amount * Unit)
      BY <2>1, <2>2, ProductMono2, ProductNat
    <3>3. (Unit * x) * T = (x * T) * Unit /\ (P * r) * T = P * (T * r)
          /\ P * (amount * Unit) = (P * amount) * Unit
      BY <2>1, <2>2, <2>4
    <3>4. /\ (x * T) * Unit \in Nat /\ P * (T * r) \in Nat /\ (P * amount) * Unit \in Nat
          /\ x * T \in Nat /\ P * amount \in Nat
      BY <2>1, <2>2, <2>4, ProductNat
    <3>5. (x * T) * Unit <= (P * amount) * Unit
      BY <3>1, <3>2, <3>3, <3>4
    <3> QED
      BY <2>1, <3>4, <3>5, ProductCancel
  <2>6. P # 0
    <3>1. SUFFICES ASSUME P = 0 PROVE FALSE
      OBVIOUS
    <3>2. P * amount = 0
      BY <2>1, <3>1
    <3>3. 0 * T < x * T
      BY <2>1, <2>4, ProductStrict
    <3>4. x * T \in Nat /\ 0 * T = 0
      BY <2>1, <2>4, ProductNat
    <3> QED
      BY <2>5, <3>2, <3>3, <3>4
  <2>7. x < P
    <3>1. SUFFICES ASSUME P <= x PROVE FALSE
      BY <2>1, <2>4
    <3>2. P * T <= x * T
      BY <2>1, <2>4, <3>1, ProductMono
    <3>3. amount * P < T * P
      BY <1>5, <2>1, <2>6, ProductStrict DEF T
    <3>4. amount * P = P * amount /\ T * P = P * T
      BY <2>1
    <3>5. x * T \in Nat /\ P * T \in Nat /\ P * amount \in Nat
      BY <2>1, <2>4, ProductNat
    <3> QED
      BY <2>5, <3>2, <3>3, <3>4, <3>5
  <2> QED
    BY <2>4, <2>5, <2>7 DEF T, P, x
<1> QED
  BY <1>1, <1>5, <1>6

(* What a swap returns: less than the pool has, along the curve; and its    *)
(* fees are parts of it.                                                    *)
LEMMA GrossBound ==
  ASSUME NEW a \in Assets, NEW offer \in Nat \ {0}, Pool(a) \in Nat, Pool(Other(a)) \in Nat
  PROVE  /\ Gross(a, offer) \in Nat
         /\ (Pool(a) + offer) * Gross(a, offer) <= Pool(Other(a)) * offer
         /\ Gross(a, offer) <= Pool(Other(a))
         /\ (Pool(a) > 0 /\ Pool(Other(a)) > 0) => Gross(a, offer) < Pool(Other(a))
<1> DEFINE p == Pool(a)
           q == Pool(Other(a))
           g == Gross(a, offer)
<1>1. p \in Nat /\ q \in Nat /\ p + offer \in Nat \ {0} /\ q * offer \in Nat
  BY ProductNat
<1>2. g = (q * offer) \div (p + offer)
  BY DEF Gross
<1> HIDE DEF p, q, g
<1>3. g \in Nat /\ (p + offer) * g <= q * offer
  BY <1>1, <1>2, Quotient
<1>4. (p + offer) * q = p * q + q * offer /\ p * q \in Nat
  BY <1>1, ProductNat
<1>5. g <= q
  BY <1>1, <1>2, <1>4, QuotientBound
<1>6. ASSUME p > 0, q > 0 PROVE g < q
  <2>1. 0 * q < p * q
    BY <1>1, <1>6, ProductStrict
  <2>2. 0 * q = 0
    BY <1>1
  <2>3. q * offer < (p + offer) * q
    BY <1>1, <1>4, <2>1, <2>2
  <2> QED
    BY <1>1, <1>2, <2>3, QuotientStrict
<1> QED
  BY <1>3, <1>5, <1>6 DEF p, q, g

LEMMA FeesBound ==
  ASSUME IInv, NEW gross \in Nat
  PROVE  /\ FeesOf(gross).protocol \in Nat /\ FeesOf(gross).swap \in Nat
         /\ FeesOf(gross).burn \in Nat
         /\ FeesOf(gross).protocol + FeesOf(gross).swap + FeesOf(gross).burn <= gross
         /\ Return(gross) \in Nat
<1> DEFINE f == pair_config.pool_fees
           x == Times(gross, f.protocol)
           y == Times(gross, f.swap)
           z == Times(gross, f.burn)
<1>1. /\ f.protocol \in Nat /\ f.swap \in Nat /\ f.burn \in Nat
      /\ f.protocol + f.swap + f.burn <= Unit
  <2>1. f \in [protocol : Nat, swap : Nat, burn : Nat]
    BY PairAssumption DEF IInv, TypeOK
  <2> QED
    BY <2>1, UnitNat DEF IInv, TypeOK
<1>2. /\ FeesOf(gross).protocol = x /\ FeesOf(gross).swap = y /\ FeesOf(gross).burn = z
  BY DEF FeesOf
<1> HIDE DEF f
<1>3. /\ x \in Nat /\ Unit * x <= gross * f.protocol
      /\ y \in Nat /\ Unit * y <= gross * f.swap
      /\ z \in Nat /\ Unit * z <= gross * f.burn
  BY <1>1, TimesNat
<1> HIDE DEF x, y, z
<1>4. x + y + z <= gross
  <2>1. (x + y + z) * Unit = Unit * x + Unit * y + Unit * z
    BY <1>3, UnitNat
  <2>2. gross * (f.protocol + f.swap + f.burn)
          = gross * f.protocol + gross * f.swap + gross * f.burn
    BY <1>1
  <2>3. gross * (f.protocol + f.swap + f.burn) <= gross * Unit
    BY <1>1, UnitNat, ProductMono2
  <2>4. /\ Unit * x \in Nat /\ Unit * y \in Nat /\ Unit * z \in Nat
        /\ gross * f.protocol \in Nat /\ gross * f.swap \in Nat /\ gross * f.burn \in Nat
        /\ gross * Unit \in Nat
    BY <1>1, <1>3, UnitNat, ProductNat
  <2>5. (x + y + z) * Unit <= gross * Unit
    BY <1>3, <2>1, <2>2, <2>3, <2>4
  <2> QED
    BY <1>3, <2>5, UnitNat, ProductCancel
<1> QED
  BY <1>2, <1>3, <1>4 DEF Return
-----------------------------------------------------------------------------
(* How each action changes the pool and the shares. *)

LEMMA ProvideStep ==
  ASSUME IInv, NEW u \in Users, NEW receiver \in Users, NEW deposit, NEW tolerance,
         ProvideLiquidity(u, receiver, deposit, tolerance)
  PROVE  /\ \A a \in Assets : deposit[a] \in Nat \ {0} /\ Pool(a)' = Pool(a) + deposit[a]
         /\ lp' \in [Holders -> Nat] /\ lp'[Pair] >= lp[Pair] + Locked
         /\ TotalShare > 0 =>
              \A a \in Assets : Pool(a) * TotalShare' <= Pool(a)' * TotalShare
<1>1. \A a \in Assets : deposit[a] \in Nat \ {0} /\ Pool(a)' = Pool(a) + deposit[a]
  <2>1. ASSUME NEW a \in Assets
        PROVE  Pool(a)' = Pool(a) + deposit[a] /\ deposit[a] \in Nat \ {0}
    <3>1. deposit[a] \in Nat \ {0}
      BY ProvideEffect
    <3>2. pair_balance'[a] = pair_balance[a] + deposit[a] /\ collected' = collected
      BY DEF ProvideLiquidity, books
    <3>3. pair_balance[a] \in Nat /\ collected[a] \in Nat
      BY Amounts
    <3> QED
      BY <3>1, <3>2, <3>3 DEF Pool
  <2> QED
    BY <2>1
<1>2. PICK share \in Nat \ {0} :
        /\ lp' = [[lp EXCEPT ![receiver] = @ + share] EXCEPT ![Pair] = @ + Locked]
        /\ TotalShare > 0 => \A a \in Assets : share * Pool(a) <= deposit[a] * TotalShare
  BY ProvideEffect
<1>3. Locked \in Nat
  BY UnitNat DEF Locked
<1>4. lp \in [Holders -> Nat] /\ receiver \in Holders /\ Pair \in Holders /\ receiver # Pair
  BY Amounts, HoldersFinite, PairAssumption
<1>5. /\ lp' \in [Holders -> Nat] /\ lp'[Pair] = lp[Pair] + Locked
      /\ lp'[receiver] = lp[receiver] + share
      /\ \A h \in Holders \ {receiver, Pair} : lp'[h] = lp[h]
  BY <1>2, <1>3, <1>4
<1>6. ASSUME TotalShare > 0, NEW a \in Assets
      PROVE  Pool(a) * TotalShare' <= Pool(a)' * TotalShare
  <2>1. Locked = 0
    BY <1>6 DEF Locked
  <2>2. \A h \in Holders \ {receiver} : lp'[h] = lp[h]
    BY <1>4, <1>5, <2>1
  <2>3. Sum(lp', Holders) = Sum(lp, Holders) + lp'[receiver] - lp[receiver]
    BY <1>4, <1>5, <2>2, HoldersFinite, SumChange
  <2> DEFINE T == TotalShare
             T2 == TotalShare'
             P == Pool(a)
             P2 == Pool(a)'
             d == deposit[a]
  <2>4. T \in Nat /\ T2 = T + share
    <3>1. TotalShare \in Nat
      BY <1>4, ShareNat
    <3> QED
      BY <1>4, <1>5, <2>3, <3>1 DEF TotalShare
  <2>5. P \in Nat /\ d \in Nat /\ P2 = P + d /\ share * P <= d * T
    BY <1>1, <1>2, <1>6, Amounts
  <2> HIDE DEF T, T2, P, P2, d
  <2>6. P * T2 = P * T + share * P /\ P2 * T = P * T + d * T
    BY <2>4, <2>5
  <2>7. P * T \in Nat /\ share * P \in Nat /\ d * T \in Nat
    BY <2>4, <2>5, ProductNat
  <2>8. P * T2 <= P2 * T
    BY <2>5, <2>6, <2>7
  <2> QED
    BY <2>8 DEF T, T2, P, P2
<1> QED
  BY <1>1, <1>3, <1>4, <1>5, <1>6

LEMMA WithdrawStep ==
  ASSUME IInv, NEW u \in Users, NEW amount, WithdrawLiquidity(u, amount)
  PROVE  /\ \A a \in Assets :
              /\ Refund(a, amount) \in Nat /\ Refund(a, amount) <= pair_balance[a]
              /\ Pool(a)' = Pool(a) - Refund(a, amount) /\ Pool(a)' > 0
              /\ Pool(a) * TotalShare' <= Pool(a)' * TotalShare
         /\ lp' \in [Holders -> Nat] /\ lp'[Pair] = lp[Pair]
<1>1. lp \in [Holders -> Nat] /\ u \in Holders /\ Pair \in Holders /\ u # Pair
  BY Amounts, HoldersFinite, PairAssumption
<1>2. amount \in Nat \ {0} /\ amount <= lp[u] /\ amount < TotalShare
  BY WithdrawEffect
<1>3. lp' = [lp EXCEPT ![u] = @ - amount]
  BY DEF WithdrawLiquidity
<1>4. /\ lp' \in [Holders -> Nat] /\ lp'[Pair] = lp[Pair]
      /\ lp'[u] = lp[u] - amount /\ \A h \in Holders \ {u} : lp'[h] = lp[h]
  BY <1>1, <1>2, <1>3
<1>5. TotalShare \in Nat /\ TotalShare' = TotalShare - amount
  <2>1. Sum(lp', Holders) = Sum(lp, Holders) + lp'[u] - lp[u]
    BY <1>1, <1>4, HoldersFinite, SumChange
  <2>2. TotalShare \in Nat
    BY <1>1, ShareNat
  <2> QED
    BY <1>1, <1>2, <1>4, <2>1, <2>2 DEF TotalShare
<1>6. ASSUME NEW a \in Assets
      PROVE  /\ Refund(a, amount) \in Nat /\ Refund(a, amount) <= pair_balance[a]
             /\ Pool(a)' = Pool(a) - Refund(a, amount) /\ Pool(a)' > 0
             /\ Pool(a) * TotalShare' <= Pool(a)' * TotalShare
  <2> DEFINE x == Refund(a, amount)
             T == TotalShare
             T2 == TotalShare'
             P == Pool(a)
             P2 == Pool(a)'
  <2>1. x \in Nat \ {0} /\ x * T <= P * amount /\ x < P
    BY WithdrawEffect
  <2>2. pair_balance'[a] = pair_balance[a] - x /\ collected' = collected
    BY DEF WithdrawLiquidity, books
  <2>3. /\ pair_balance[a] \in Nat /\ collected[a] \in Nat /\ P \in Nat
        /\ P = pair_balance[a] - collected[a]
    BY Amounts
  <2>4. P2 = pair_balance'[a] - collected'[a]
    BY DEF Pool
  <2>5. T \in Nat /\ T2 = T - amount
    BY <1>5
  <2> HIDE DEF x, T, T2, P, P2
  <2>6. P2 = P - x /\ P2 > 0 /\ x <= pair_balance[a]
    BY <2>1, <2>2, <2>3, <2>4
  <2>7. P * T2 = P * T - P * amount /\ P2 * T = P * T - x * T
    BY <1>2, <2>1, <2>3, <2>5, <2>6
  <2>8. P * T \in Nat /\ P * amount \in Nat /\ x * T \in Nat
    BY <1>2, <2>1, <2>3, <2>5, ProductNat
  <2>9. P * T2 <= P2 * T
    BY <2>1, <2>7, <2>8
  <2> QED
    BY <2>1, <2>6, <2>9 DEF x, T, T2, P, P2
<1> QED
  BY <1>4, <1>6

(* A swap along the curve in numbers: what leaves the pool of the asset that *)
(* is asked for is at most the gross return, so the product of the pools    *)
(* does not fall, and neither of them is emptied.                           *)
LEMMA Curve ==
  ASSUME NEW p \in Nat, NEW q \in Nat, NEW offer \in Nat, NEW gross \in Nat,
         NEW q2 \in Nat, (p + offer) * gross <= q * offer, gross <= q, q - gross <= q2
  PROVE  p * q <= (p + offer) * q2
<1> DEFINE p2 == p + offer
           k == q - gross
<1>1. p2 \in Nat /\ k \in Nat /\ q = gross + k /\ k <= q2
  OBVIOUS
<1>2. q * p2 = q * p + q * offer
  OBVIOUS
<1>3. p2 * gross <= q * offer
  OBVIOUS
<1> HIDE DEF p2, k
<1>4. q * p2 = p2 * gross + k * p2
  BY <1>1
<1>5. k * p2 <= q2 * p2
  BY <1>1, ProductMono
<1>6. /\ q * p \in Nat /\ q * offer \in Nat /\ p2 * gross \in Nat /\ k * p2 \in Nat
      /\ q2 * p2 \in Nat
  BY <1>1, ProductNat
<1>7. q * p <= q2 * p2
  BY <1>2, <1>3, <1>4, <1>5, <1>6
<1>8. q * p = p * q /\ q2 * p2 = p2 * q2
  BY <1>1
<1>9. p * q <= p2 * q2
  BY <1>7, <1>8
<1> QED
  BY <1>9 DEF p2

LEMMA SwapStep ==
  ASSUME IInv, NEW u \in Users, NEW receiver \in Users, NEW a \in Assets, NEW offer,
         NEW belief, NEW limit, Swap(u, receiver, a, offer, belief, limit)
  PROVE  LET gross == Gross(a, offer)
             fees == FeesOf(gross)
             ask == Other(a) IN
         /\ offer \in Nat \ {0} /\ offer <= wallet[<<u, a>>] /\ gross \in Nat
         /\ fees.protocol \in Nat /\ fees.burn \in Nat /\ Return(gross) \in Nat
         /\ Return(gross) + fees.burn + fees.protocol <= gross
         /\ gross <= Pool(ask)
         /\ Pool(a)' > 0
         /\ Pool(ask) > 0 => Pool(ask)' > 0
         /\ Pool(a) * Pool(ask) <= Pool(a)' * Pool(ask)'
<1> DEFINE ask == Other(a)
           gross == Gross(a, offer)
           fp == FeesOf(gross).protocol
           fs == FeesOf(gross).swap
           fb == FeesOf(gross).burn
           r == Return(gross)
           P == Pool(a)
           Q == Pool(ask)
           P2 == Pool(a)'
           Q2 == Pool(ask)'
<1>1. ask \in Assets /\ ask # a
  BY OtherAsset
<1>2. offer \in Nat \ {0} /\ offer <= wallet[<<u, a>>]
  BY Amounts DEF Swap
<1>3. P \in Nat /\ P > 0 /\ Q \in Nat
  BY <1>1, Amounts DEF Swap
<1>4. /\ gross \in Nat /\ (P + offer) * gross <= Q * offer /\ gross <= Q
      /\ Q > 0 => gross < Q
  BY <1>2, <1>3, GrossBound
<1>5. /\ fp \in Nat /\ fs \in Nat /\ fb \in Nat /\ r \in Nat
      /\ r = gross - fs - fp - fb
  BY <1>4, FeesBound DEF Return
<1>6. /\ pair_balance' = [pair_balance EXCEPT ![a] = @ + offer, ![ask] = @ - r - fb]
      /\ collected' = [collected EXCEPT ![ask] = @ + fp]
  BY DEF Swap
<1>7. pair_balance \in [Assets -> Nat] /\ collected \in [Assets -> Nat]
  BY DEF IInv, TypeOK
<1>8. /\ P = pair_balance[a] - collected[a] /\ Q = pair_balance[ask] - collected[ask]
      /\ P2 = pair_balance'[a] - collected'[a] /\ Q2 = pair_balance'[ask] - collected'[ask]
  BY DEF Pool
<1> HIDE DEF ask, gross, fp, fs, fb, r, P, Q, P2, Q2
<1>9. /\ pair_balance'[a] = pair_balance[a] + offer
      /\ pair_balance'[ask] = pair_balance[ask] - r - fb
      /\ collected'[a] = collected[a] /\ collected'[ask] = collected[ask] + fp
  BY <1>1, <1>6, <1>7
<1>10. /\ pair_balance[a] \in Nat /\ pair_balance[ask] \in Nat
       /\ collected[a] \in Nat /\ collected[ask] \in Nat
  BY <1>1, <1>7
<1>11. P2 = P + offer /\ Q2 = Q - r - fb - fp
  BY <1>2, <1>5, <1>8, <1>9, <1>10
<1>12. r + fb + fp <= gross /\ Q2 = Q - gross + fs
  BY <1>3, <1>4, <1>5, <1>11
<1>13. Q2 \in Nat /\ Q - gross <= Q2 /\ (Q > 0 => Q2 > 0)
  BY <1>3, <1>4, <1>5, <1>12
<1>14. P * Q <= (P + offer) * Q2
  BY <1>2, <1>3, <1>4, <1>13, Curve
<1>15. P * Q <= P2 * Q2
  BY <1>11, <1>14
<1>16. P2 > 0
  BY <1>2, <1>3, <1>11
<1> QED
  BY <1>2, <1>4, <1>5, <1>12, <1>13, <1>15, <1>16
     DEF ask, gross, fp, fs, fb, r, P, Q, P2, Q2

-----------------------------------------------------------------------------
(* The invariant is preserved by each action. *)

LEMMA InitInv == Init => IInv
<1> SUFFICES ASSUME Init PROVE IInv
  OBVIOUS
<1>1. TotalShare = 0
  <2>1. IsFiniteSet(Holders) /\ lp = [h \in Holders |-> 0]
    BY HoldersFinite DEF Init
  <2>2. Sum(lp, Holders) = Cardinality({})
    <3>1. Units(lp, Holders) = {}
      BY <2>1 DEF Units
    <3> QED
      BY <3>1 DEF Sum
  <2> QED
    BY <2>2, FS_EmptySet DEF TotalShare
<1>2. /\ collected \in [Assets -> Nat] /\ all_time \in [Assets -> Nat]
      /\ burned \in [Assets -> Nat] /\ pair_balance \in [Assets -> Nat]
      /\ fee_collector \in [Assets -> Nat]
      /\ \A a \in Assets : /\ collected[a] = 0 /\ pair_balance[a] = 0 /\ all_time[a] = 0
                            /\ fee_collector[a] = 0
  BY DEF Init, NoFees
<1>3. lp \in [Holders -> Nat] /\ wallet \in [Users \X Assets -> Nat]
  BY PairAssumption DEF Init, Assets
<1>4. TypeOK
  <2>1. PICK owner \in Admins, fees \in {f \in Fees : ValidFees(f)} :
          pair_config = [owner |-> owner, pool_fees |-> fees,
                         feature_toggle |-> [deposits |-> TRUE, withdrawals |-> TRUE,
                                             swaps |-> TRUE]]
    BY DEF Init
  <2>2. /\ pair_config.owner \in Admins /\ pair_config.pool_fees \in Fees
        /\ pair_config.pool_fees.protocol + pair_config.pool_fees.swap
             + pair_config.pool_fees.burn < Unit
        /\ pair_config.feature_toggle \in
             [deposits : BOOLEAN, withdrawals : BOOLEAN, swaps : BOOLEAN]
    BY <2>1 DEF ValidFees
  <2> QED
    BY <1>2, <1>3, <2>2 DEF TypeOK
<1>5. FeesSetAside /\ FeesForwardedOnce
  BY <1>2 DEF FeesSetAside, FeesForwardedOnce
<1> QED
  BY <1>1, <1>4, <1>5 DEF IInv, LockedKept

(* Of a step that leaves configuration, books and fee collector alone, the  *)
(* balances have to be shown. *)
LEMMA BalancesInv ==
  ASSUME IInv, UNCHANGED <<pair_config, books, fee_collector>>,
         pair_balance' \in [Assets -> Nat], lp' \in [Holders -> Nat],
         wallet' \in [Users \X Assets -> Nat],
         \A a \in Assets : Pool(a)' >= 0,
         LockedKept'
  PROVE  IInv'
<1>1. TypeOK'
  BY DEF IInv, TypeOK, books
<1>2. FeesForwardedOnce'
  BY DEF IInv, FeesForwardedOnce, books
<1>3. FeesSetAside'
  BY <1>1 DEF TypeOK, FeesSetAside, Pool
<1> QED
  BY <1>1, <1>2, <1>3 DEF IInv

LEMMA ProvideInv ==
  ASSUME IInv, NEW u \in Users, NEW receiver \in Users, NEW deposit, NEW tolerance,
         ProvideLiquidity(u, receiver, deposit, tolerance)
  PROVE  IInv'
<1>1. \A a \in Assets : deposit[a] \in Nat \ {0} /\ deposit[a] <= wallet[<<u, a>>]
  BY ProvideEffect
<1>2. /\ \A a \in Assets : Pool(a)' = Pool(a) + deposit[a]
      /\ lp' \in [Holders -> Nat] /\ lp'[Pair] >= lp[Pair] + Locked
  BY ProvideStep
<1>3. wallet' \in [Users \X Assets -> Nat]
  <2>1. /\ wallet \in [Users \X Assets -> Nat]
        /\ wallet' = [k \in DOMAIN wallet |->
                        IF k[1] = u THEN wallet[k] - deposit[k[2]] ELSE wallet[k]]
    BY Amounts DEF ProvideLiquidity
  <2>2. ASSUME NEW k \in Users \X Assets, k[1] = u
        PROVE  wallet[k] - deposit[k[2]] \in Nat
    <3>1. k = <<u, k[2]>> /\ k[2] \in Assets /\ wallet[k] \in Nat
      BY <2>1, <2>2
    <3> QED
      BY <1>1, <3>1
  <2> QED
    BY <2>1, <2>2
<1>4. pair_balance' \in [Assets -> Nat]
  <2>1. pair_balance' = [a \in Assets |-> pair_balance[a] + deposit[a]]
    BY DEF ProvideLiquidity
  <2>2. ASSUME NEW a \in Assets
        PROVE  pair_balance[a] + deposit[a] \in Nat
    <3>1. pair_balance[a] \in Nat /\ deposit[a] \in Nat
      BY <1>1, Amounts
    <3> QED
      BY <3>1
  <2> QED
    BY <2>1, <2>2
<1>5. ASSUME NEW a \in Assets
      PROVE  Pool(a)' >= 0
  <2>1. Pool(a) \in Nat /\ deposit[a] \in Nat /\ Pool(a)' = Pool(a) + deposit[a]
    BY <1>1, <1>2, Amounts
  <2> QED
    BY <2>1
<1>6. LockedKept'
  <2>1. lp[Pair] \in Nat /\ lp'[Pair] \in Nat
    BY <1>2, Amounts, HoldersFinite
  <2>2. TotalShare \in Nat
    BY Amounts, ShareNat
  <2>3. CASE TotalShare = 0
    BY <1>2, <2>1, <2>3, UnitNat DEF Locked, LockedKept
  <2>4. CASE TotalShare > 0
    BY <1>2, <2>1, <2>4 DEF IInv, Locked, LockedKept
  <2> QED
    BY <2>2, <2>3, <2>4
<1> QED
  BY <1>2, <1>3, <1>4, <1>5, <1>6, BalancesInv DEF ProvideLiquidity

LEMMA WithdrawInv ==
  ASSUME IInv, NEW u \in Users, NEW amount, WithdrawLiquidity(u, amount)
  PROVE  IInv'
<1>1. /\ \A a \in Assets : /\ Refund(a, amount) \in Nat
                            /\ Refund(a, amount) <= pair_balance[a]
                            /\ Pool(a)' > 0
      /\ lp' \in [Holders -> Nat] /\ lp'[Pair] = lp[Pair]
  BY WithdrawStep
<1>2. wallet' \in [Users \X Assets -> Nat]
  <2>1. /\ wallet \in [Users \X Assets -> Nat]
        /\ wallet' = [k \in DOMAIN wallet |->
                        IF k[1] = u THEN wallet[k] + Refund(k[2], amount) ELSE wallet[k]]
    BY Amounts DEF WithdrawLiquidity
  <2>2. \A k \in Users \X Assets : wallet[k] + Refund(k[2], amount) \in Nat
    <3>1. \A k \in Users \X Assets : k[2] \in Assets /\ wallet[k] \in Nat
      BY <2>1
    <3> QED
      BY <1>1, <3>1
  <2> QED
    BY <2>1, <2>2
<1>3. pair_balance' \in [Assets -> Nat]
  <2>1. pair_balance' = [a \in Assets |-> pair_balance[a] - Refund(a, amount)]
    BY DEF WithdrawLiquidity
  <2>2. \A a \in Assets : pair_balance[a] - Refund(a, amount) \in Nat
    BY <1>1, Amounts
  <2> QED
    BY <2>1, <2>2
<1>4. \A a \in Assets : Pool(a)' >= 0
  <2>1. \A a \in Assets : Pool(a)' \in Int
    BY <1>3, Amounts DEF WithdrawLiquidity, books, Pool
  <2> QED
    BY <1>1, <2>1
<1>5. LockedKept'
  <2>1. amount \in Nat \ {0} /\ amount < TotalShare
    BY WithdrawEffect
  <2>2. TotalShare \in Nat
    BY Amounts, ShareNat
  <2>3. lp[Pair] > 0
    BY <2>1, <2>2 DEF IInv, LockedKept
  <2> QED
    BY <1>1, <2>3 DEF LockedKept
<1> QED
  BY <1>1, <1>2, <1>3, <1>4, <1>5, BalancesInv DEF WithdrawLiquidity

LEMMA SwapInv ==
  ASSUME IInv, NEW u \in Users, NEW receiver \in Users, NEW a \in Assets, NEW offer,
         NEW belief, NEW limit, Swap(u, receiver, a, offer, belief, limit)
  PROVE  IInv'
<1> DEFINE ask == Other(a)
           gross == Gross(a, offer)
           fp == FeesOf(gross).protocol
           fb == FeesOf(gross).burn
           r == Return(gross)
<1>1. /\ offer \in Nat \ {0} /\ offer <= wallet[<<u, a>>] /\ gross \in Nat
      /\ fp \in Nat /\ fb \in Nat /\ r \in Nat
      /\ r + fb + fp <= gross /\ gross <= Pool(ask)
  BY SwapStep
<1>2. ask \in Assets /\ ask # a /\ Assets = {a, ask}
  BY OtherAsset
<1>3. /\ pair_balance' = [pair_balance EXCEPT ![a] = @ + offer, ![ask] = @ - r - fb]
      /\ wallet' = [k \in DOMAIN wallet |->
                      wallet[k] - (IF k = <<u, a>> THEN offer ELSE 0)
                                + (IF k = <<receiver, ask>> THEN r ELSE 0)]
      /\ collected' = [collected EXCEPT ![ask] = @ + fp]
      /\ all_time' = [all_time EXCEPT ![ask] = @ + fp]
      /\ burned' = [burned EXCEPT ![ask] = @ + fb]
      /\ UNCHANGED <<pair_config, lp, fee_collector>>
  BY DEF Swap
<1> HIDE DEF ask, gross, fp, fb, r
<1>4. /\ collected \in [Assets -> Nat] /\ all_time \in [Assets -> Nat]
      /\ burned \in [Assets -> Nat] /\ pair_balance \in [Assets -> Nat]
      /\ wallet \in [Users \X Assets -> Nat] /\ fee_collector \in [Assets -> Nat]
  BY DEF IInv, TypeOK
<1>5. /\ collected' \in [Assets -> Nat] /\ all_time' \in [Assets -> Nat]
      /\ burned' \in [Assets -> Nat]
  BY <1>1, <1>2, <1>3, <1>4
<1>6. /\ collected[ask] <= pair_balance[ask] /\ Pool(ask) = pair_balance[ask] - collected[ask]
      /\ collected[a] <= pair_balance[a]
  BY <1>2 DEF IInv, FeesSetAside, Pool
<1>7. /\ pair_balance'[a] = pair_balance[a] + offer
      /\ pair_balance'[ask] = pair_balance[ask] - r - fb
      /\ collected'[a] = collected[a] /\ collected'[ask] = collected[ask] + fp
  BY <1>2, <1>3, <1>4
<1>8. /\ pair_balance[a] \in Nat /\ pair_balance[ask] \in Nat
      /\ collected[a] \in Nat /\ collected[ask] \in Nat
  BY <1>2, <1>4
<1>9. /\ pair_balance'[a] \in Nat /\ pair_balance'[ask] \in Nat
      /\ collected'[a] <= pair_balance'[a] /\ collected'[ask] <= pair_balance'[ask]
  BY <1>1, <1>6, <1>7, <1>8
<1>10. pair_balance' \in [Assets -> Nat]
  BY <1>2, <1>3, <1>4, <1>9
<1>11. wallet' \in [Users \X Assets -> Nat]
  <2>1. ASSUME NEW k \in Users \X Assets
        PROVE  wallet[k] - (IF k = <<u, a>> THEN offer ELSE 0)
                         + (IF k = <<receiver, ask>> THEN r ELSE 0) \in Nat
    <3>1. wallet[k] \in Nat /\ (k = <<u, a>> => offer <= wallet[k])
      BY <1>1, <1>4
    <3>2. wallet[k] - (IF k = <<u, a>> THEN offer ELSE 0) \in Nat
      BY <1>1, <3>1
    <3> QED
      BY <1>1, <3>2
  <2>2. DOMAIN wallet = Users \X Assets
    BY <1>4
  <2> QED
    BY <1>3, <2>1, <2>2
<1>12. TypeOK'
  BY <1>3, <1>5, <1>10, <1>11 DEF IInv, TypeOK
<1>13. FeesSetAside'
  BY <1>2, <1>9 DEF FeesSetAside
<1>14. FeesForwardedOnce'
  <2>1. /\ all_time[ask] = collected[ask] + fee_collector[ask]
        /\ all_time[a] = collected[a] + fee_collector[a]
    BY <1>2 DEF IInv, FeesForwardedOnce
  <2>2. all_time'[a] = all_time[a] /\ all_time'[ask] = all_time[ask] + fp
    BY <1>2, <1>3, <1>4
  <2>3. all_time[ask] \in Nat /\ fee_collector[ask] \in Nat /\ fee_collector' = fee_collector
    BY <1>2, <1>3, <1>4
  <2>4. all_time'[ask] = collected'[ask] + fee_collector'[ask]
    BY <1>1, <1>7, <1>8, <2>1, <2>2, <2>3
  <2>5. all_time'[a] = collected'[a] + fee_collector'[a]
    BY <1>7, <2>1, <2>2, <2>3
  <2> QED
    BY <1>2, <2>4, <2>5 DEF FeesForwardedOnce
<1>15. LockedKept'
  BY <1>3 DEF IInv, LockedKept, TotalShare
<1> QED
  BY <1>12, <1>13, <1>14, <1>15 DEF IInv

LEMMA TransferInv ==
  ASSUME IInv, NEW u \in Users, NEW a \in Assets, NEW amount, Transfer(u, a, amount)
  PROVE  IInv' /\ \A b \in Assets : Pool(b)' >= Pool(b)
<1>1. amount \in Nat \ {0} /\ amount <= wallet[<<u, a>>] /\ wallet[<<u, a>>] \in Nat
  BY Amounts DEF Transfer
<1>2. /\ wallet' = [wallet EXCEPT ![<<u, a>>] = @ - amount]
      /\ pair_balance' = [pair_balance EXCEPT ![a] = @ + amount]
      /\ UNCHANGED <<pair_config, books, lp, fee_collector>>
  BY DEF Transfer
<1>3. pair_balance \in [Assets -> Nat] /\ collected \in [Assets -> Nat]
  BY DEF IInv, TypeOK
<1>4. wallet' \in [Users \X Assets -> Nat] /\ lp' \in [Holders -> Nat]
  BY <1>1, <1>2, Amounts
<1>5. pair_balance' \in [Assets -> Nat] /\ \A b \in Assets : pair_balance'[b] >= pair_balance[b]
  BY <1>1, <1>2, <1>3
<1>6. \A b \in Assets : Pool(b)' >= Pool(b) /\ Pool(b)' >= 0
  <2>1. ASSUME NEW b \in Assets
        PROVE  Pool(b)' >= Pool(b) /\ Pool(b)' >= 0
    <3>1. Pool(b)' = pair_balance'[b] - collected[b] /\ Pool(b) = pair_balance[b] - collected[b]
      BY <1>2 DEF Pool, books
    <3>2. pair_balance'[b] \in Nat /\ pair_balance'[b] >= pair_balance[b]
      BY <1>5
    <3> QED
      BY <3>1, <3>2, Amounts
  <2> QED
    BY <2>1
<1>7. LockedKept'
  BY <1>2 DEF IInv, LockedKept, TotalShare
<1> QED
  BY <1>2, <1>4, <1>5, <1>6, <1>7, BalancesInv

LEMMA CollectInv ==
  ASSUME IInv, CollectProtocolFees
  PROVE  IInv' /\ \A a \in Assets : Pool(a)' = Pool(a)
<1>1. /\ collected' = NoFees
      /\ pair_balance' = [a \in Assets |-> pair_balance[a] - collected[a]]
      /\ fee_collector' = [a \in Assets |-> fee_collector[a] + collected[a]]
      /\ UNCHANGED <<pair_config, all_time, burned, lp, wallet>>
  BY DEF CollectProtocolFees, CollectedAfter
<1>2. \A a \in Assets : pair_balance[a] - collected[a] \in Nat
                          /\ fee_collector[a] + collected[a] \in Nat
  BY Amounts
<1>3. /\ collected' \in [Assets -> Nat] /\ pair_balance' \in [Assets -> Nat]
      /\ fee_collector' \in [Assets -> Nat] /\ \A a \in Assets : collected'[a] = 0
  BY <1>1, <1>2 DEF NoFees
<1>4. TypeOK'
  BY <1>1, <1>3 DEF IInv, TypeOK
<1>5. FeesSetAside'
  BY <1>3 DEF FeesSetAside
<1>6. FeesForwardedOnce'
  <2>1. ASSUME NEW a \in Assets
        PROVE  all_time'[a] = collected'[a] + fee_collector'[a]
    <3>1. all_time[a] = collected[a] + fee_collector[a]
      BY DEF IInv, FeesForwardedOnce
    <3>2. all_time'[a] = all_time[a] /\ fee_collector'[a] = fee_collector[a] + collected[a]
      BY <1>1
    <3> QED
      BY <1>3, <3>1, <3>2, Amounts
  <2> QED
    BY <2>1 DEF FeesForwardedOnce
<1>7. LockedKept'
  BY <1>1 DEF IInv, LockedKept, TotalShare
<1>8. \A a \in Assets : Pool(a)' = Pool(a)
  BY <1>1, <1>2, <1>3 DEF Pool
<1> QED
  BY <1>4, <1>5, <1>6, <1>7, <1>8 DEF IInv

LEMMA UpdateConfigInv ==
  ASSUME IInv, NEW sender, NEW owner \in Admins, NEW fees \in Fees, NEW toggle \in Toggles,
         UpdateConfig(sender, owner, fees, toggle)
  PROVE  IInv'
<1>1. toggle \in [deposits : BOOLEAN, withdrawals : BOOLEAN, swaps : BOOLEAN]
  BY PairAssumption
<1>2. TypeOK'
  BY <1>1 DEF IInv, UpdateConfig, TypeOK, ValidFees, books
<1> QED
  BY <1>2 DEF IInv, UpdateConfig, FeesSetAside, FeesForwardedOnce, LockedKept,
              TotalShare, books

(* What the calls and messages of a step can be. *)
LEMMA Actions ==
  ASSUME IInv, [Next]_vars
  PROVE  \/ UNCHANGED vars
         \/ \E u, receiver \in Users : \E deposit, tolerance :
               ProvideLiquidity(u, receiver, deposit, tolerance)
         \/ \E u, receiver \in Users, a \in Assets : \E offer, belief, limit :
               Swap(u, receiver, a, offer, belief, limit)
         \/ \E u \in Users, a \in Assets : \E amount : Transfer(u, a, amount)
         \/ \E u \in Users : \E amount : WithdrawLiquidity(u, amount)
         \/ CollectProtocolFees
         \/ \E sender, owner \in Admins, fees \in Fees, toggle \in Toggles :
               UpdateConfig(sender, owner, fees, toggle)
BY DEF Next

LEMMA Step == IInv /\ [Next]_vars => IInv'
<1> SUFFICES ASSUME IInv, [Next]_vars PROVE IInv'
  OBVIOUS
<1>1. CASE UNCHANGED vars
  BY <1>1 DEF vars, books, IInv, TypeOK, FeesSetAside, FeesForwardedOnce, LockedKept, TotalShare
<1>2. CASE \E u, receiver \in Users : \E deposit, tolerance :
             ProvideLiquidity(u, receiver, deposit, tolerance)
  BY <1>2, ProvideInv
<1>3. CASE \E u, receiver \in Users, a \in Assets : \E offer, belief, limit :
             Swap(u, receiver, a, offer, belief, limit)
  BY <1>3, SwapInv
<1>4. CASE \E u \in Users, a \in Assets : \E amount : Transfer(u, a, amount)
  BY <1>4, TransferInv
<1>5. CASE \E u \in Users : \E amount : WithdrawLiquidity(u, amount)
  BY <1>5, WithdrawInv
<1>6. CASE CollectProtocolFees
  BY <1>6, CollectInv
<1>7. CASE \E sender, owner \in Admins, fees \in Fees, toggle \in Toggles :
             UpdateConfig(sender, owner, fees, toggle)
  BY <1>7, UpdateConfigInv
<1> QED
  BY <1>1, <1>2, <1>3, <1>4, <1>5, <1>6, <1>7, Actions

(* What is proved of every reachable state. *)
LEMMA Invariance == Spec => []IInv
BY InitInv, Step, PTL DEF Spec

(* Type correctness: no balance of the pool, its users or the fee collector *)
(* is driven below zero by any call, and fees stay below the whole.         *)
THEOREM TypeCorrect == Spec => []TypeOK
<1>1. IInv => TypeOK
  BY DEF IInv
<1> QED
  BY Invariance, <1>1, PTL

(* The protocol's fees can always be collected: no swap, withdrawal or      *)
(* deposit spends what COLLECTED_PROTOCOL_FEES says is the protocol's.      *)
THEOREM FeesAlwaysSetAside == Spec => []FeesSetAside
<1>1. IInv => FeesSetAside
  BY DEF IInv
<1> QED
  BY Invariance, <1>1, PTL

(* Protocol fees are forwarded to the fee collector once. *)
THEOREM FeesForwarded == Spec => []FeesForwardedOnce
<1>1. IInv => FeesForwardedOnce
  BY DEF IInv
<1> QED
  BY Invariance, <1>1, PTL

(* An offer at the pool's price is worth what the curve returns for it: the *)
(* price loses less than one part in Unit to rounding, and the curve takes  *)
(* that much of any return that is not empty.                               *)
LEMMA PriceAboveCurve ==
  ASSUME NEW p \in 1..Unit, NEW q \in Nat, NEW offer \in Nat \ {0},
         NEW g \in Nat, (p + offer) * g <= q * offer
  PROVE  g <= Times(offer, Ratio(q, p))
<1> DEFINE r == Ratio(q, p)
<1>1. p \in Nat \ {0} /\ Unit \in Nat \ {0} /\ q * Unit \in Nat /\ p <= Unit
  BY UnitNat, ProductNat
<1>2. r \in Nat /\ q * Unit + 1 <= p * r + p
  BY <1>1, Quotient, QuotientNext DEF Ratio
<1> HIDE DEF r
<1>3. offer * r \in Nat
  BY <1>2, ProductNat
<1>4. CASE g = 0
  BY <1>1, <1>2, <1>4, TimesNat DEF r
<1>5. CASE g > 0
  <2>1. (p * g) * Unit + (offer * g) * Unit <= (q * offer) * Unit
    <3>1. (p + offer) * g \in Nat /\ q * offer \in Nat
      BY <1>1, ProductNat
    <3>2. ((p + offer) * g) * Unit <= (q * offer) * Unit
      BY <1>1, <3>1, ProductMono
    <3>3. ((p + offer) * g) * Unit = (p * g) * Unit + (offer * g) * Unit
      BY <1>1
    <3> QED
      BY <3>2, <3>3
  <2>2. (q * Unit + 1) * offer <= (p * r + p) * offer
    <3>1. p * r + p \in Nat /\ q * Unit + 1 \in Nat
      BY <1>1, <1>2, ProductNat
    <3> QED
      BY <1>2, <3>1, ProductMono
  <2>3. p * offer <= Unit * (offer * g)
    <3>1. 1 * offer <= g * offer
      BY <1>5, ProductMono
    <3>2. offer \in Nat /\ offer * g \in Nat /\ offer <= offer * g
      BY <3>1, ProductNat
    <3> QED
      BY <1>1, <3>2, ProductMono2
  <2>4. /\ (q * Unit + 1) * offer = (q * offer) * Unit + offer
        /\ (p * r + p) * offer = (offer * r) * p + p * offer
        /\ (p * g) * Unit = (g * Unit) * p
        /\ Unit * (offer * g) = (offer * g) * Unit
    BY <1>1, <1>2
  <2>5. /\ (p * g) * Unit \in Nat /\ (offer * g) * Unit \in Nat
        /\ (q * offer) * Unit \in Nat /\ (offer * r) * p \in Nat /\ p * offer \in Nat
        /\ g * Unit \in Nat
    BY <1>1, <1>3, ProductNat
  <2>6. (g * Unit) * p <= (offer * r) * p
    BY <2>1, <2>2, <2>3, <2>4, <2>5
  <2>7. g * Unit <= offer * r
    BY <1>1, <1>3, <2>5, <2>6, ProductCancel
  <2> QED
    BY <1>1, <1>3, <2>7, QuotientAtLeast DEF Times, r
<1> QED
  BY <1>4, <1>5

(* In a pool with both assets, and pools not larger than the precision of a *)
(* Decimal, no swap is refused by the subtraction of its spread.            *)
THEOREM SwapsHaveASpread == Spec => []SpreadDefined
<1>1. ASSUME IInv, \A a \in Assets : Pool(a) \in 1..Unit,
             NEW k \in Users \X Assets, NEW offer \in 1..wallet[k]
      PROVE  Spread(k[2], offer) >= 0
  <2> DEFINE a == k[2]
             g == Gross(a, offer)
             t == Times(offer, Ratio(Pool(Other(a)), Pool(a)))
  <2>1. a \in Assets /\ Other(a) \in Assets /\ offer \in Nat \ {0}
    BY <1>1, Amounts, OtherAsset
  <2> HIDE DEF a
  <2>2. Pool(a) \in 1..Unit /\ Pool(a) \in Nat /\ Pool(Other(a)) \in Nat \ {0}
    BY <1>1, <2>1, UnitNat
  <2>3. g \in Nat /\ (Pool(a) + offer) * g <= Pool(Other(a)) * offer
    BY <2>1, <2>2, GrossBound
  <2>4. Pool(Other(a)) * Unit \in Nat
    BY <2>2, UnitNat, ProductNat
  <2>5. Ratio(Pool(Other(a)), Pool(a)) \in Nat
    BY <2>2, <2>4, Quotient DEF Ratio
  <2>6. t \in Nat
    BY <2>1, <2>5, TimesNat
  <2> HIDE DEF g
  <2>7. g <= t
    BY <2>1, <2>2, <2>3, PriceAboveCurve
  <2>8. Spread(a, offer) = t - g
    BY DEF Spread, g
  <2> HIDE DEF t
  <2> QED
    BY <2>3, <2>6, <2>7, <2>8 DEF a
<1>2. IInv => SpreadDefined
  BY <1>1 DEF SpreadDefined
<1> QED
  BY Invariance, <1>2, PTL

-----------------------------------------------------------------------------
(* What no step may do. *)

(* Pools that grow no less than the shares keep what a share is worth.      *)
LEMMA Proportional ==
  ASSUME NEW p \in Nat, NEW q \in Nat, NEW t \in Nat,
         NEW p2 \in Nat, NEW q2 \in Nat, NEW t2 \in Nat,
         p * t2 <= p2 * t, q * t2 <= q2 * t
  PROVE  p2 * q2 * t * t >= p * q * t2 * t2
<1>1. /\ p * t2 \in Nat /\ p2 * t \in Nat /\ q * t2 \in Nat /\ q2 * t \in Nat
  BY ProductNat
<1>2. (p * t2) * (q * t2) <= (p2 * t) * (q2 * t)
  BY <1>1, ProductMono2
<1>3. (p * t2) * (q * t2) = p * q * t2 * t2
  OBVIOUS
<1>4. (p2 * t) * (q2 * t) = p2 * q2 * t * t
  OBVIOUS
<1>5. /\ (p * t2) * (q * t2) \in Nat /\ (p2 * t) * (q2 * t) \in Nat
  BY <1>1, ProductNat
<1> QED
  BY <1>2, <1>3, <1>4, <1>5

(* So does a product of the pools that does not fall while nobody mints.    *)
LEMMA SameShares ==
  ASSUME NEW p \in Nat, NEW q \in Nat, NEW t \in Nat, NEW p2 \in Nat, NEW q2 \in Nat,
         p * q <= p2 * q2
  PROVE  p2 * q2 * t * t >= p * q * t * t
<1>1. p * q \in Nat /\ p2 * q2 \in Nat /\ t * t \in Nat
  BY ProductNat
<1>2. (p * q) * (t * t) <= (p2 * q2) * (t * t)
  BY <1>1, ProductMono
<1>3. (p * q) * (t * t) = p * q * t * t /\ (p2 * q2) * (t * t) = p2 * q2 * t * t
  OBVIOUS
<1>4. (p * q) * (t * t) \in Nat /\ (p2 * q2) * (t * t) \in Nat
  BY <1>1, ProductNat
<1> QED
  BY <1>2, <1>3, <1>4

Open == (\A a \in Assets : Pool(a) > 0) => (\A a \in Assets : Pool(a)' > 0)
Kept == TotalShare > 0 =>
          Pool(1)' * Pool(2)' * TotalShare * TotalShare
            >= Pool(1) * Pool(2) * TotalShare' * TotalShare'

(* The amounts before and after a step. *)
LEMMA Both ==
  ASSUME IInv, IInv'
  PROVE  /\ 1 \in Assets /\ 2 \in Assets
         /\ \A a \in Assets : Pool(a) \in Nat /\ Pool(a)' \in Nat
         /\ TotalShare \in Nat /\ TotalShare' \in Nat
<1>1. \A a \in Assets : Pool(a) \in Nat /\ Pool(a)' \in Nat
  BY DEF IInv, TypeOK, FeesSetAside, Pool
<1>2. TotalShare \in Nat /\ lp' \in [Holders -> Nat]
  BY ShareNat DEF IInv, TypeOK
<1>3. TotalShare' \in Nat
  BY <1>2, HoldersFinite, SumNat DEF TotalShare
<1> QED
  BY <1>1, <1>2, <1>3 DEF Assets

(* Of a step in which each pool grows no less than the shares.              *)
LEMMA InProportion ==
  ASSUME IInv, IInv',
         TotalShare > 0 => \A a \in Assets : Pool(a) * TotalShare' <= Pool(a)' * TotalShare
  PROVE  Kept
<1> DEFINE p == Pool(1)
           q == Pool(2)
           t == TotalShare
           p2 == Pool(1)'
           q2 == Pool(2)'
           t2 == TotalShare'
<1>1. p \in Nat /\ q \in Nat /\ t \in Nat /\ p2 \in Nat /\ q2 \in Nat /\ t2 \in Nat
  BY Both
<1>2. t > 0 => p * t2 <= p2 * t /\ q * t2 <= q2 * t
  BY Both
<1> HIDE DEF p, q, t, p2, q2, t2
<1>3. t > 0 => p2 * q2 * t * t >= p * q * t2 * t2
  BY <1>1, <1>2, Proportional
<1> QED
  BY <1>3 DEF Kept, p, q, t, p2, q2, t2

(* Of a step that mints nothing. *)
LEMMA WithoutMinting ==
  ASSUME IInv, IInv', UNCHANGED lp, Pool(1) * Pool(2) <= Pool(1)' * Pool(2)'
  PROVE  Kept
<1> DEFINE p == Pool(1)
           q == Pool(2)
           t == TotalShare
           p2 == Pool(1)'
           q2 == Pool(2)'
           t2 == TotalShare'
<1>1. p \in Nat /\ q \in Nat /\ t \in Nat /\ p2 \in Nat /\ q2 \in Nat
  BY Both
<1>2. t2 = t /\ p * q <= p2 * q2
  BY DEF TotalShare
<1> HIDE DEF p, q, t, p2, q2, t2
<1>3. p2 * q2 * t * t >= p * q * t2 * t2
  BY <1>1, <1>2, SameShares
<1> QED
  BY <1>3 DEF Kept, p, q, t, p2, q2, t2

(* Of a step in which no pool shrinks. *)
LEMMA NoLess ==
  ASSUME IInv, IInv', UNCHANGED lp, \A a \in Assets : Pool(a) <= Pool(a)'
  PROVE  Open /\ Kept
<1>1. /\ Pool(1) \in Nat /\ Pool(2) \in Nat /\ Pool(1)' \in Nat /\ Pool(2)' \in Nat
      /\ Pool(1) <= Pool(1)' /\ Pool(2) <= Pool(2)'
  BY Both
<1>2. Pool(1) * Pool(2) <= Pool(1)' * Pool(2)'
  BY <1>1, ProductMono2
<1>3. Kept
  BY <1>2, WithoutMinting
<1>4. Open
  <2>1. ASSUME \A a \in Assets : Pool(a) > 0, NEW a \in Assets PROVE Pool(a)' > 0
    <3>1. Pool(a) \in Nat /\ Pool(a)' \in Nat /\ Pool(a) > 0 /\ Pool(a) <= Pool(a)'
      BY <2>1, Both
    <3> QED
      BY <3>1
  <2> QED
    BY <2>1 DEF Open
<1> QED
  BY <1>3, <1>4

LEMMA SwapKeeps ==
  ASSUME IInv, IInv', NEW u \in Users, NEW receiver \in Users, NEW a \in Assets,
         NEW offer, NEW belief, NEW limit, Swap(u, receiver, a, offer, belief, limit)
  PROVE  Open /\ Kept
<1> DEFINE b == Other(a)
<1>1. /\ Pool(a)' > 0 /\ (Pool(b) > 0 => Pool(b)' > 0)
      /\ Pool(a) * Pool(b) <= Pool(a)' * Pool(b)'
  BY SwapStep
<1>2. b \in Assets /\ Assets = {a, b} /\ ((a = 1 /\ b = 2) \/ (a = 2 /\ b = 1))
  BY OtherAsset DEF Assets, Other
<1> HIDE DEF b
<1>3. Pool(a) \in Nat /\ Pool(b) \in Nat /\ Pool(a)' \in Nat /\ Pool(b)' \in Nat
  BY <1>2, Both
<1>4. Open
  BY <1>1, <1>2 DEF Open
<1>5. Pool(1) * Pool(2) <= Pool(1)' * Pool(2)'
  <2>1. CASE a = 1 /\ b = 2
    BY <1>1, <2>1
  <2>2. CASE a = 2 /\ b = 1
    <3>1. Pool(2) * Pool(1) <= Pool(2)' * Pool(1)'
      BY <1>1, <2>2
    <3>2. Pool(2) * Pool(1) = Pool(1) * Pool(2) /\ Pool(2)' * Pool(1)' = Pool(1)' * Pool(2)'
      BY <1>3, <2>2
    <3> QED
      BY <3>1, <3>2
  <2> QED
    BY <1>2, <2>1, <2>2
<1>6. UNCHANGED lp
  BY DEF Swap
<1> QED
  BY <1>4, <1>5, <1>6, WithoutMinting

LEMMA ProvideKeeps ==
  ASSUME IInv, IInv', NEW u \in Users, NEW receiver \in Users, NEW deposit, NEW tolerance,
         ProvideLiquidity(u, receiver, deposit, tolerance)
  PROVE  Open /\ Kept
<1>1. /\ \A a \in Assets : deposit[a] \in Nat \ {0} /\ Pool(a)' = Pool(a) + deposit[a]
      /\ TotalShare > 0 => \A a \in Assets : Pool(a) * TotalShare' <= Pool(a)' * TotalShare
  BY ProvideStep
<1>2. ASSUME NEW a \in Assets PROVE Pool(a)' > 0
  <2>1. Pool(a) \in Nat /\ deposit[a] \in Nat \ {0} /\ Pool(a)' = Pool(a) + deposit[a]
    BY <1>1, Amounts
  <2> QED
    BY <2>1
<1> QED
  BY <1>1, <1>2, InProportion DEF Open

LEMMA Keeps ==
  ASSUME IInv, IInv', [Next]_vars
  PROVE  Open /\ Kept
<1>1. CASE UNCHANGED vars
  <2>1. UNCHANGED lp /\ \A a \in Assets : Pool(a)' = Pool(a)
    BY <1>1 DEF vars, books, Pool
  <2>2. \A a \in Assets : Pool(a) <= Pool(a)'
    BY <2>1, Both
  <2> QED
    BY <2>1, <2>2, NoLess
<1>2. CASE \E u, receiver \in Users : \E deposit, tolerance :
             ProvideLiquidity(u, receiver, deposit, tolerance)
  BY <1>2, ProvideKeeps
<1>3. CASE \E u, receiver \in Users, a \in Assets : \E offer, belief, limit :
             Swap(u, receiver, a, offer, belief, limit)
  BY <1>3, SwapKeeps
<1>4. CASE \E u \in Users, a \in Assets : \E amount : Transfer(u, a, amount)
  <2>1. UNCHANGED lp /\ \A a \in Assets : Pool(a)' >= Pool(a)
    BY <1>4, TransferInv DEF Transfer
  <2>2. \A a \in Assets : Pool(a) <= Pool(a)'
    BY <2>1, Both
  <2> QED
    BY <2>1, <2>2, NoLess
<1>5. CASE \E u \in Users : \E amount : WithdrawLiquidity(u, amount)
  <2>1. \A a \in Assets : Pool(a)' > 0 /\ Pool(a) * TotalShare' <= Pool(a)' * TotalShare
    BY <1>5, WithdrawStep
  <2> QED
    BY <2>1, InProportion DEF Open
<1>6. CASE CollectProtocolFees
  <2>1. UNCHANGED lp /\ \A a \in Assets : Pool(a)' = Pool(a)
    BY <1>6, CollectInv DEF CollectProtocolFees
  <2>2. \A a \in Assets : Pool(a) <= Pool(a)'
    BY <2>1, Both
  <2> QED
    BY <2>1, <2>2, NoLess
<1>7. CASE \E sender, owner \in Admins, fees \in Fees, toggle \in Toggles :
             UpdateConfig(sender, owner, fees, toggle)
  <2>1. UNCHANGED lp /\ \A a \in Assets : Pool(a)' = Pool(a)
    BY <1>7 DEF UpdateConfig, books, Pool
  <2>2. \A a \in Assets : Pool(a) <= Pool(a)'
    BY <2>1, Both
  <2> QED
    BY <2>1, <2>2, NoLess
<1> QED
  BY <1>1, <1>2, <1>3, <1>4, <1>5, <1>6, <1>7, Actions

(* A pool with both assets keeps some of both: no withdrawal and no swap    *)
(* empties it, and no fee does.                                             *)
THEOREM PoolNeverEmptied == Spec => PoolStaysOpen
<1>1. IInv /\ IInv' /\ [Next]_vars => [Open]_vars
  BY Keeps
<1>2. [Open]_vars => [(\A a \in Assets : Pool(a) > 0)
                        => (\A a \in Assets : Pool(a)' > 0)]_vars
  BY DEF Open
<1> QED
  BY Invariance, <1>1, <1>2, PTL DEF Spec, PoolStaysOpen

(* No call makes a share of the pool worth less. *)
THEOREM SharesKeepWorth == Spec => LiquidityKept
<1>1. IInv /\ IInv' /\ [Next]_vars => [Kept]_vars
  BY Keeps
<1>2. [Kept]_vars => [TotalShare > 0 =>
                        Pool(1)' * Pool(2)' * TotalShare * TotalShare
                          >= Pool(1) * Pool(2) * TotalShare' * TotalShare']_vars
  BY DEF Kept
<1> QED
  BY Invariance, <1>1, <1>2, PTL DEF Spec, LiquidityKept
=============================================================================

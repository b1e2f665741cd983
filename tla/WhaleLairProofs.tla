--------------------------- MODULE WhaleLairProofs ---------------------------
(***************************************************************************)
(* For every set of users and assets and every growth rate: the global      *)
(* index counts the bonds exactly, the contract can pay what it owes, and   *)
(* nobody has weight without a bond.                                        *)
(***************************************************************************)
EXTENDS WhaleLair, Arithmetic

(* Quotients and products of naturals are natural. *)
LEMMA DivNat ==
  ASSUME NEW a \in Nat, NEW b \in Nat \ {0}
  PROVE  a \div b \in Nat
OBVIOUS

LEMMA MulNat ==
  ASSUME NEW a \in Nat, NEW b \in Nat
  PROVE  a * b \in Nat
OBVIOUS

(* Whole seconds follow the time. *)
LEMMA SecondsMono ==
  ASSUME NEW s \in Nat, NEW t \in Nat, s <= t
  PROVE  Seconds(t) - Seconds(s) \in Nat
<1> DEFINE b == TicksPerSecond
<1>1. b \in Nat \ {0}
  BY LairAssumption
<1> HIDE DEF b
<1>2. s \div b \in Nat /\ t \div b \in Nat
  BY <1>1, DivNat
<1>3. /\ s = b * (s \div b) + (s % b) /\ s % b \in 0..(b - 1)
      /\ t = b * (t \div b) + (t % b) /\ t % b \in 0..(b - 1)
  BY <1>1
<1>4. ASSUME t \div b < s \div b
      PROVE  FALSE
  <2>1. PICK d \in Nat : s \div b = (t \div b) + 1 + d
    <3>1. (s \div b) - (t \div b) - 1 \in Nat
      BY <1>2, <1>4
    <3>2. s \div b = (t \div b) + 1 + ((s \div b) - (t \div b) - 1)
      BY <1>2
    <3> QED
      BY <3>1, <3>2
  <2>2. b * (s \div b) = b * (t \div b) + b + b * d
    BY <1>1, <1>2, <2>1
  <2>3. b * d \in Nat /\ b * (t \div b) \in Nat
    BY <1>1, <1>2, MulNat
  <2> QED
    BY <1>1, <1>3, <2>2, <2>3
<1>5. (t \div b) - (s \div b) \in Nat
  BY <1>2, <1>4
<1> QED
  BY <1>5 DEF Seconds, b

(* A weight that grows stays a natural number. *)
LEMMA GetWeightNat ==
  ASSUME NEW t \in Nat, NEW since \in Nat, since <= t,
         NEW weight \in Nat, NEW amount \in Nat, NEW rate \in Nat
  PROVE  GetWeight(t, weight, amount, rate, since) \in Nat
<1> DEFINE dt == Seconds(t) - Seconds(since)
<1>1. dt \in Nat
  BY SecondsMono
<1> HIDE DEF dt
<1>2. amount * dt \in Nat
  BY <1>1, MulNat
<1>3. (amount * dt) * rate \in Nat
  BY <1>2, MulNat
<1>4. ((amount * dt) * rate) \div RateUnit \in Nat
  BY <1>3, DivNat, LairAssumption
<1>5. weight + ((amount * dt) * rate) \div RateUnit \in Nat
  BY <1>4
<1> QED
  BY <1>5 DEF GetWeight, dt

(* The up-to-date weights are natural numbers. *)
LEMMA WeightsNat ==
  ASSUME TypeOK
  PROVE  /\ GlobalWeight \in Nat
         /\ \A k \in Accounts : LocalWeight(k) \in Nat
<1>1. /\ time \in Nat
      /\ lair_config.growth_rate \in Nat
      /\ global.weight \in Nat /\ global.bonded_amount \in Nat
      /\ global.timestamp \in Nat /\ global.timestamp <= time
  BY LairAssumption DEF TypeOK
<1>2. \A k \in Accounts : /\ bond[k].weight \in Nat /\ bond[k].amount \in Nat
                          /\ bond[k].timestamp \in Nat
                          /\ bond[k].timestamp <= time
  BY DEF TypeOK
<1>3. GlobalWeight \in Nat
  BY <1>1, GetWeightNat DEF GlobalWeight
<1>4. \A k \in Accounts : LocalWeight(k) \in Nat
  BY <1>1, <1>2, GetWeightNat DEF LocalWeight
<1> QED
  BY <1>3, <1>4

(* What an unbonding takes away is within the account's weight, and is all  *)
(* of it when the whole bond goes.                                          *)
LEMMA SlashBounds ==
  ASSUME TypeOK, NEW k \in Accounts, NEW amount \in 1..bond[k].amount
  PROVE  /\ WeightSlash(k, amount) \in Nat
         /\ LocalWeight(k) - WeightSlash(k, amount) \in Nat
         /\ amount = bond[k].amount =>
              LocalWeight(k) - WeightSlash(k, amount) = 0
<1> DEFINE n == bond[k].amount
           w == LocalWeight(k)
<1>1. n \in Nat \ {0} /\ amount \in Nat \ {0} /\ amount <= n
  BY DEF TypeOK
<1>2. w \in Nat
  BY WeightsNat
<1> HIDE DEF n, w
<1>3. amount < n => amount \div n = 0
  BY <1>1
<1>4. amount = n => amount \div n = 1
  BY <1>1
<1>5. amount \div n \in {0, 1} /\ (amount = n => amount \div n = 1)
  BY <1>1, <1>3, <1>4
<1>6. w * (amount \div n) \in {0, w} /\ (amount = n => w * (amount \div n) = w)
  BY <1>2, <1>5
<1>7. /\ w * (amount \div n) \in Nat
      /\ w - w * (amount \div n) \in Nat
      /\ amount = n => w - w * (amount \div n) = 0
  BY <1>2, <1>6
<1> QED
  BY <1>7 DEF WeightSlash, n, w

(* The accounts are finitely many. *)
LEMMA AccountsFinite ==
  /\ IsFiniteSet(Accounts)
  /\ \A d \in BondingAssets : IsFiniteSet(AccountsOf(d))
<1>1. \A d : IsFiniteSet({d})
  BY FS_Singleton
<1> QED
  BY <1>1, LairAssumption, FS_Product DEF Accounts, AccountsOf

(* The amount a withdrawal refunds is a natural number. *)
LEMMA PendingNat ==
  ASSUME TypeOK, NEW S, S \subseteq DOMAIN unbond
  PROVE  /\ IsFiniteSet(S)
         /\ \A k \in S : UnbondAmount[k] \in Nat
         /\ Sum(UnbondAmount, S) \in Nat
<1>1. IsFiniteSet(S)
  BY FS_Subset DEF TypeOK
<1>2. \A k \in S : UnbondAmount[k] \in Nat
  BY DEF TypeOK, UnbondAmount
<1> QED
  BY <1>1, <1>2, SumNat

(* The requests that mature are requests of their account. *)
LEMMA MaturedRequests ==
  ASSUME NEW u, NEW d
  PROVE  /\ Matured(u, d) \subseteq DOMAIN unbond
         /\ Matured(u, d) \subseteq RequestsOf(d)
         /\ \A e : e # d => Matured(u, d) \cap RequestsOf(e) = {}
BY DEF Matured, FirstPage, Requests, RequestsOf

(* What one call does to the state it touches, without the guards. *)
LEMMA BondEffect ==
  ASSUME TypeOK, NEW u \in Users, NEW d \in BondingAssets,
         NEW amount \in 1..wallet[<<u, d>>], Bond(u, d, amount)
  PROVE  /\ amount \in Nat \ {0}
         /\ <<u, d>> \in Accounts
         /\ bond' = [bond EXCEPT ![<<u, d>>] =
                       [amount |-> bond[<<u, d>>].amount + amount,
                        weight |-> LocalWeight(<<u, d>>), timestamp |-> time]]
         /\ global' = [bonded_amount |-> global.bonded_amount + amount,
                       bonded_assets |->
                         [global.bonded_assets EXCEPT ![d] = @ + amount],
                       weight |-> GlobalWeight - 0, timestamp |-> time]
<1>1. <<u, d>> \in Accounts
  BY DEF Accounts
<1>2. wallet[<<u, d>>] \in Nat
  BY <1>1 DEF TypeOK
<1> QED
  BY <1>1, <1>2 DEF Bond, GlobalIndex

LEMMA UnbondEffect ==
  ASSUME TypeOK, NEW u \in Users, NEW d \in BondingAssets,
         NEW amount \in 1..bond[<<u, d>>].amount, Unbond(u, d, amount)
  PROVE  /\ amount \in Nat \ {0}
         /\ <<u, d>> \in Accounts
         /\ bond' = [bond EXCEPT ![<<u, d>>] =
                       [amount |-> bond[<<u, d>>].amount - amount,
                        weight |-> LocalWeight(<<u, d>>)
                                     - WeightSlash(<<u, d>>, amount),
                        timestamp |-> time]]
         /\ unbond' = Put(unbond, <<u, d, Seconds(time)>>,
                          [amount |-> amount, timestamp |-> time])
         /\ global' = [bonded_amount |-> global.bonded_amount - amount,
                       bonded_assets |->
                         [global.bonded_assets EXCEPT ![d] = @ - amount],
                       weight |-> GlobalWeight - WeightSlash(<<u, d>>, amount),
                       timestamp |-> time]
<1>1. <<u, d>> \in Accounts
  BY DEF Accounts
<1>2. bond[<<u, d>>].amount \in Nat
  BY <1>1 DEF TypeOK
<1>3. amount \in Nat \ {0}
  BY <1>2
<1>4. global.bonded_amount \in Nat /\ global.bonded_assets \in [BondingAssets -> Nat]
  BY DEF TypeOK
<1>5. global.bonded_amount + (-amount) = global.bonded_amount - amount
  BY <1>3, <1>4
<1>6. [global.bonded_assets EXCEPT ![d] = @ + (-amount)]
        = [global.bonded_assets EXCEPT ![d] = @ - amount]
  BY <1>3, <1>4
<1> QED
  BY <1>1, <1>3, <1>5, <1>6 DEF Unbond, GlobalIndex

-----------------------------------------------------------------------------
(* Type correctness *)

(* Replacing one value keeps a function in its function set. *)
LEMMA ExceptIn ==
  ASSUME NEW S, NEW T, NEW f \in [S -> T], NEW k \in S, NEW v \in T
  PROVE  [f EXCEPT ![k] = v] \in [S -> T]
OBVIOUS

LEMMA TypeInit == Init => TypeOK
<1> SUFFICES ASSUME Init
             PROVE  TypeOK
  OBVIOUS
<1>1. lair_config \in [owner : Admins, unbonding_period : Nat,
                       growth_rate : 0..RateUnit]
  <2>1. PICK c \in [owner : Admins, unbonding_period : UnbondingPeriods,
                    growth_rate : {r \in GrowthRates : r <= RateUnit}] :
          lair_config = c
    BY DEF Init
  <2>2. /\ c.owner \in Admins /\ c.unbonding_period \in UnbondingPeriods
        /\ c.growth_rate \in GrowthRates /\ c.growth_rate <= RateUnit
        /\ c = [owner |-> c.owner, unbonding_period |-> c.unbonding_period,
                growth_rate |-> c.growth_rate]
    OBVIOUS
  <2>3. c.unbonding_period \in Nat /\ c.growth_rate \in 0..RateUnit
    <3>1. UnbondingPeriods \subseteq Nat /\ GrowthRates \subseteq Nat
      BY LairAssumption
    <3>2. c.unbonding_period \in Nat /\ c.growth_rate \in Nat
      BY <2>2, <3>1
    <3>3. RateUnit \in Nat
      BY LairAssumption
    <3> QED
      BY <2>2, <3>2, <3>3
  <2> QED
    BY <2>1, <2>2, <2>3
<1>2. bond \in [Accounts -> [amount : Nat, weight : Nat, timestamp : 0..time]]
  BY LairAssumption DEF Init
<1>3. DOMAIN unbond = {}
  BY DEF Init
<1>4. /\ IsFiniteSet(DOMAIN unbond)
      /\ DOMAIN unbond \subseteq Users \X BondingAssets \X Nat
  BY <1>3, FS_EmptySet
<1>5. unbond \in [DOMAIN unbond -> [amount : Nat, timestamp : 0..time]]
  BY DEF Init
<1>6. global \in [bonded_amount : Nat, weight : Nat, timestamp : 0..time,
                  bonded_assets : [BondingAssets -> Nat]]
  BY LairAssumption DEF Init
<1> QED
  BY <1>1, <1>2, <1>4, <1>5, <1>6, LairAssumption DEF Init, TypeOK, Accounts

LEMMA TypeStep == TypeOK /\ [Next]_vars => TypeOK'
<1> SUFFICES ASSUME TypeOK, [Next]_vars
             PROVE  TypeOK'
  OBVIOUS
<1>1. CASE Tick
  BY <1>1 DEF Tick, TypeOK, lair_vars
<1>2. ASSUME NEW u \in Users, NEW d \in BondingAssets,
             NEW amount \in 1..wallet[<<u, d>>], Bond(u, d, amount)
      PROVE  TypeOK'
  <2> DEFINE k == <<u, d>>
  <2>0. /\ k \in Accounts /\ amount \in Nat
        /\ bond' = [bond EXCEPT ![k] =
                      [amount |-> bond[k].amount + amount,
                       weight |-> LocalWeight(k), timestamp |-> time]]
        /\ global' = [bonded_amount |-> global.bonded_amount + amount,
                      bonded_assets |->
                        [global.bonded_assets EXCEPT ![d] = @ + amount],
                      weight |-> GlobalWeight - 0, timestamp |-> time]
    BY <1>2, BondEffect
  <2>1. /\ k \in Accounts /\ amount \in Nat /\ amount <= wallet[k]
        /\ wallet[k] \in Nat /\ lair_balance[d] \in Nat
        /\ global.bonded_amount \in Nat
        /\ global.bonded_assets \in [BondingAssets -> Nat]
    <3>1. wallet[k] \in Nat
      BY <2>0 DEF TypeOK
    <3> QED
      BY <2>0, <3>1 DEF TypeOK
  <2>2. LocalWeight(k) \in Nat /\ GlobalWeight - 0 \in Nat
    BY <2>1, WeightsNat
  <2>3. bond[k].amount + amount \in Nat
    BY <2>1 DEF TypeOK
  <2>4. bond' \in [Accounts -> [amount : Nat, weight : Nat, timestamp : 0..time]]
    <3>1. [amount |-> bond[k].amount + amount, weight |-> LocalWeight(k),
           timestamp |-> time] \in [amount : Nat, weight : Nat, timestamp : 0..time]
      BY <2>2, <2>3 DEF TypeOK
    <3>2. bond \in [Accounts -> [amount : Nat, weight : Nat, timestamp : 0..time]]
      BY DEF TypeOK
    <3> HIDE DEF k
    <3> QED
      BY <2>0, <3>1, <3>2, ExceptIn
  <2>5. global' \in [bonded_amount : Nat, weight : Nat, timestamp : 0..time,
                     bonded_assets : [BondingAssets -> Nat]]
    <3>1. [global.bonded_assets EXCEPT ![d] = @ + amount] \in [BondingAssets -> Nat]
      BY <2>1
    <3>2. time \in 0..time
      BY DEF TypeOK
    <3>3. global.bonded_amount + amount \in Nat
      BY <2>1
    <3> QED
      BY <2>0, <2>2, <3>1, <3>2, <3>3
  <2>6. wallet' \in [Accounts -> Nat] /\ lair_balance' \in [BondingAssets -> Nat]
    <3>1. /\ wallet' = [wallet EXCEPT ![k] = wallet[k] - amount]
          /\ lair_balance' = [lair_balance EXCEPT ![d] = lair_balance[d] + amount]
      BY <1>2 DEF Bond
    <3>2. wallet[k] - amount \in Nat /\ lair_balance[d] + amount \in Nat
      BY <2>1
    <3>3. wallet \in [Accounts -> Nat] /\ lair_balance \in [BondingAssets -> Nat]
      BY DEF TypeOK
    <3> HIDE DEF k
    <3> QED
      BY <2>1, <3>1, <3>2, <3>3, ExceptIn
  <2> QED
    BY <1>2, <2>4, <2>5, <2>6 DEF Bond, TypeOK
<1>3. ASSUME NEW u \in Users, NEW d \in BondingAssets,
             NEW amount \in 1..bond[<<u, d>>].amount, Unbond(u, d, amount)
      PROVE  TypeOK'
  <2> DEFINE k == <<u, d>>
             q == <<u, d, Seconds(time)>>
             r == [amount |-> amount, timestamp |-> time]
  <2>0. /\ k \in Accounts /\ amount \in Nat
        /\ bond' = [bond EXCEPT ![k] =
                      [amount |-> bond[k].amount - amount,
                       weight |-> LocalWeight(k) - WeightSlash(k, amount),
                       timestamp |-> time]]
        /\ global' = [bonded_amount |-> global.bonded_amount - amount,
                      bonded_assets |->
                        [global.bonded_assets EXCEPT ![d] = @ - amount],
                      weight |-> GlobalWeight - WeightSlash(k, amount),
                      timestamp |-> time]
    BY <1>3, UnbondEffect
  <2>1. k \in Accounts /\ amount \in Nat /\ time \in Nat
    BY <2>0 DEF TypeOK
  <2>2. /\ WeightSlash(k, amount) \in Nat
        /\ LocalWeight(k) - WeightSlash(k, amount) \in Nat
    BY <2>1, SlashBounds
  <2>3. GlobalWeight - WeightSlash(k, amount) \in Nat
    BY <1>3, <2>2, WeightsNat DEF Unbond
  <2>4. bond[k].amount - amount \in Nat
    BY <2>1 DEF TypeOK
  <2>5. bond' \in [Accounts -> [amount : Nat, weight : Nat, timestamp : 0..time]]
    <3>1. [amount |-> bond[k].amount - amount,
           weight |-> LocalWeight(k) - WeightSlash(k, amount),
           timestamp |-> time] \in [amount : Nat, weight : Nat, timestamp : 0..time]
      BY <2>1, <2>2, <2>4
    <3>2. bond \in [Accounts -> [amount : Nat, weight : Nat, timestamp : 0..time]]
      BY DEF TypeOK
    <3> HIDE DEF k
    <3> QED
      BY <2>0, <3>1, <3>2, ExceptIn
  <2>6. /\ global.bonded_amount - amount \in Nat
        /\ global.bonded_assets[d] - amount \in Nat
    BY <1>3, <2>1 DEF Unbond, TypeOK
  <2>7. global' \in [bonded_amount : Nat, weight : Nat, timestamp : 0..time,
                     bonded_assets : [BondingAssets -> Nat]]
    <3>1. global.bonded_assets \in [BondingAssets -> Nat]
      BY DEF TypeOK
    <3>2. [global.bonded_assets EXCEPT ![d] = @ - amount] \in [BondingAssets -> Nat]
      BY <2>6, <3>1
    <3>3. time \in 0..time
      BY <2>1
    <3> QED
      BY <2>0, <2>3, <2>6, <3>2, <3>3
  <2>8. Seconds(time) \in Nat
    BY <2>1, DivNat, LairAssumption DEF Seconds
  <2>9. DOMAIN unbond' = DOMAIN unbond \cup {q}
    BY <1>3, UnbondEffect DEF Put
  <2>10. IsFiniteSet(DOMAIN unbond')
    <3>1. IsFiniteSet(DOMAIN unbond)
      BY DEF TypeOK
    <3>2. IsFiniteSet(DOMAIN unbond \cup {q})
      BY <3>1, FS_AddElement
    <3> QED
      BY <2>9, <3>2
  <2>11. DOMAIN unbond' \subseteq Users \X BondingAssets \X Nat
    BY <2>8, <2>9 DEF TypeOK
  <2>12. unbond' \in [DOMAIN unbond' -> [amount : Nat, timestamp : 0..time]]
    <3>1. r \in [amount : Nat, timestamp : 0..time]
      BY <2>1
    <3>2. unbond' = [y \in DOMAIN unbond \cup {q} |-> IF y = q THEN r ELSE unbond[y]]
      BY <1>3, UnbondEffect DEF Put
    <3>3. \A y \in DOMAIN unbond : unbond[y] \in [amount : Nat, timestamp : 0..time]
      BY DEF TypeOK
    <3> HIDE DEF q, r
    <3> QED
      BY <3>1, <3>2, <3>3
  <2> QED
    BY <1>3, <2>5, <2>7, <2>10, <2>11, <2>12 DEF Unbond, TypeOK
<1>4. ASSUME NEW u \in Users, NEW d \in BondingAssets, Withdraw(u, d)
      PROVE  TypeOK'
  <2> DEFINE refund == Sum(UnbondAmount, Matured(u, d))
             rest == DOMAIN unbond \ Matured(u, d)
  <2>1. refund \in Nat /\ refund <= lair_balance[d]
    BY <1>4, PendingNat, MaturedRequests DEF Withdraw
  <2> HIDE DEF refund
  <2>2. wallet' = [wallet EXCEPT ![<<u, d>>] = @ + refund]
    BY <1>4 DEF Withdraw, refund
  <2>3. lair_balance' = [lair_balance EXCEPT ![d] = @ - refund]
    BY <1>4 DEF Withdraw, refund
  <2>4. wallet' \in [Accounts -> Nat] /\ lair_balance' \in [BondingAssets -> Nat]
    <3>1. <<u, d>> \in Accounts
      BY DEF Accounts
    <3>2. wallet \in [Accounts -> Nat] /\ lair_balance \in [BondingAssets -> Nat]
      BY DEF TypeOK
    <3>3. wallet[<<u, d>>] \in Nat /\ lair_balance[d] \in Nat
      BY <3>1, <3>2
    <3>4. wallet[<<u, d>>] + refund \in Nat /\ lair_balance[d] - refund \in Nat
      BY <2>1, <3>3
    <3> QED
      BY <2>2, <2>3, <3>1, <3>2, <3>4, ExceptIn
  <2>5. unbond' = [y \in rest |-> unbond[y]]
    BY <1>4 DEF Withdraw, Remaining, Drop
  <2>6. DOMAIN unbond' = rest /\ rest \subseteq DOMAIN unbond
    BY <2>5
  <2>7. IsFiniteSet(DOMAIN unbond')
    BY <2>6, FS_Subset DEF TypeOK
  <2>8. unbond' \in [DOMAIN unbond' -> [amount : Nat, timestamp : 0..time]]
    BY <2>5, <2>6 DEF TypeOK
  <2>9. DOMAIN unbond' \subseteq Users \X BondingAssets \X Nat
    BY <2>6 DEF TypeOK
  <2> QED
    BY <1>4, <2>4, <2>7, <2>8, <2>9 DEF Withdraw, TypeOK
<1>5. ASSUME NEW sender \in Admins, NEW owner \in Admins,
             NEW period \in UnbondingPeriods, NEW rate \in GrowthRates,
             UpdateConfig(sender, owner, period, rate)
      PROVE  TypeOK'
  <2>1. period \in Nat /\ rate \in 0..RateUnit
    BY <1>5, LairAssumption DEF UpdateConfig
  <2>2. lair_config' \in [owner : Admins, unbonding_period : Nat,
                          growth_rate : 0..RateUnit]
    BY <1>5, <2>1 DEF UpdateConfig
  <2> QED
    BY <1>5, <2>2 DEF UpdateConfig, TypeOK
<1>6. CASE UNCHANGED vars
  BY <1>6 DEF vars, lair_vars, TypeOK
<1> QED
  BY <1>1, <1>2, <1>3, <1>4, <1>5, <1>6 DEF Next, LairStep

(* The state keeps its shape: no amount or weight is ever driven below zero. *)
THEOREM TypeCorrect == Spec => []TypeOK
<1>1. Init => TypeOK
  BY TypeInit
<1>2. TypeOK /\ [Next]_vars => TypeOK'
  BY TypeStep
<1> QED
  BY <1>1, <1>2, PTL DEF Spec

-----------------------------------------------------------------------------
(* Totals across one step *)

(* When the bond of one account changes by delta, so do the total of its    *)
(* asset and the total of all, and no other asset's.                        *)
LEMMA BondSums ==
  ASSUME TypeOK, TypeOK', NEW u \in Users, NEW d \in BondingAssets,
         NEW delta \in Int,
         bond'[<<u, d>>].amount = bond[<<u, d>>].amount + delta,
         \A j \in Accounts \ {<<u, d>>} : bond'[j].amount = bond[j].amount
  PROVE  /\ Sum(BondAmount', Accounts) = Sum(BondAmount, Accounts) + delta
         /\ Sum(BondAmount', AccountsOf(d)) = Sum(BondAmount, AccountsOf(d)) + delta
         /\ \A e \in BondingAssets \ {d} :
              Sum(BondAmount', AccountsOf(e)) = Sum(BondAmount, AccountsOf(e))
<1> DEFINE k == <<u, d>>
           f == BondAmount
           g == BondAmount'
<1>1. k \in Accounts /\ k \in AccountsOf(d)
  BY DEF Accounts, AccountsOf
<1>2. \A e \in BondingAssets : AccountsOf(e) \subseteq Accounts
  BY DEF Accounts, AccountsOf
<1>3. \A j \in Accounts : f[j] \in Nat /\ g[j] \in Nat
  BY DEF TypeOK, BondAmount
<1>4. \A j \in Accounts \ {k} : g[j] = f[j]
  BY DEF BondAmount
<1>5. g[k] = f[k] + delta
  BY <1>1 DEF BondAmount
<1>6. \A e \in BondingAssets \ {d} : k \notin AccountsOf(e)
  BY DEF AccountsOf
<1> HIDE DEF k, f, g
<1>7. Sum(g, Accounts) = Sum(f, Accounts) + g[k] - f[k]
  BY <1>1, <1>3, <1>4, AccountsFinite, SumChange
<1>8. Sum(g, AccountsOf(d)) = Sum(f, AccountsOf(d)) + g[k] - f[k]
  <2>1. \A j \in AccountsOf(d) : f[j] \in Nat /\ g[j] \in Nat
    BY <1>2, <1>3
  <2>2. \A j \in AccountsOf(d) \ {k} : g[j] = f[j]
    BY <1>2, <1>4
  <2> QED
    BY <1>1, <2>1, <2>2, AccountsFinite, SumChange
<1>9. \A e \in BondingAssets \ {d} : Sum(g, AccountsOf(e)) = Sum(f, AccountsOf(e))
  <2> TAKE e \in BondingAssets \ {d}
  <2>1. \A j \in AccountsOf(e) : g[j] = f[j]
    BY <1>2, <1>4, <1>6
  <2> QED
    BY <2>1, SumExt
<1>10. Sum(f, Accounts) \in Nat /\ Sum(f, AccountsOf(d)) \in Nat
  BY <1>2, <1>3, AccountsFinite, SumNat
<1>11. f[k] \in Nat
  BY <1>1, <1>3
<1>12. /\ Sum(g, Accounts) = Sum(f, Accounts) + delta
       /\ Sum(g, AccountsOf(d)) = Sum(f, AccountsOf(d)) + delta
  BY <1>5, <1>7, <1>8, <1>10, <1>11
<1> QED
  BY <1>9, <1>12 DEF f, g

(* A call that leaves BOND alone leaves its totals alone. *)
LEMMA BondSumsSame ==
  ASSUME bond' = bond
  PROVE  BondAmount' = BondAmount
BY DEF BondAmount

(* A new request adds at most its amount to what its asset owes: less when  *)
(* it replaces another of the same second.                                  *)
LEMMA RequestSums ==
  ASSUME TypeOK, TypeOK', NEW u \in Users, NEW d \in BondingAssets,
         NEW amount \in 1..bond[<<u, d>>].amount, Unbond(u, d, amount)
  PROVE  /\ Sum(UnbondAmount', RequestsOf(d)')
              <= Sum(UnbondAmount, RequestsOf(d)) + amount
         /\ \A e \in BondingAssets \ {d} :
              Sum(UnbondAmount', RequestsOf(e)') = Sum(UnbondAmount, RequestsOf(e))
<1> DEFINE q == <<u, d, Seconds(time)>>
           r == [amount |-> amount, timestamp |-> time]
           f == UnbondAmount
           g == UnbondAmount'
           R == RequestsOf(d)
           Rn == RequestsOf(d)'
<1>0. amount \in Nat
  BY UnbondEffect
<1>1. unbond' = [y \in DOMAIN unbond \cup {q} |-> IF y = q THEN r ELSE unbond[y]]
  BY UnbondEffect DEF Put
<1>2. DOMAIN unbond' = DOMAIN unbond \cup {q}
  BY <1>1
<1>3. \A y \in DOMAIN unbond \ {q} : g[y] = f[y]
  BY <1>1, <1>2 DEF UnbondAmount
<1>4. g[q] = amount
  BY <1>1, <1>2 DEF UnbondAmount
<1>5. q[2] = d
  OBVIOUS
<1>6. q \in Rn /\ Rn \ {q} = R \ {q}
  BY <1>2, <1>5 DEF RequestsOf
<1>7. IsFiniteSet(R) /\ \A y \in R : f[y] \in Nat
  BY PendingNat DEF RequestsOf
<1>8. IsFiniteSet(Rn) /\ \A y \in Rn : g[y] \in Nat
  <2>1. IsFiniteSet(DOMAIN unbond') /\ Rn \subseteq DOMAIN unbond'
    BY DEF TypeOK, RequestsOf
  <2>2. IsFiniteSet(Rn)
    BY <2>1, FS_Subset
  <2>3. \A y \in DOMAIN unbond' : g[y] = unbond'[y].amount
    BY DEF UnbondAmount
  <2>4. \A y \in DOMAIN unbond' : unbond'[y].amount \in Nat
    BY DEF TypeOK
  <2> QED
    BY <2>1, <2>2, <2>3, <2>4
<1>9. R \subseteq DOMAIN unbond
  BY DEF RequestsOf
<1>10. \A e \in BondingAssets \ {d} :
         /\ RequestsOf(e)' = RequestsOf(e)
         /\ \A y \in RequestsOf(e) : g[y] = f[y]
  <2> TAKE e \in BondingAssets \ {d}
  <2>1. q \notin RequestsOf(e)
    BY <1>5 DEF RequestsOf
  <2>2. RequestsOf(e)' = RequestsOf(e)
    BY <1>2, <1>5 DEF RequestsOf
  <2>3. RequestsOf(e) \subseteq DOMAIN unbond
    BY DEF RequestsOf
  <2> HIDE DEF q, f, g
  <2> QED
    BY <1>3, <2>1, <2>2, <2>3
<1> HIDE DEF q, r, f, g, R, Rn
<1>11. Sum(g, Rn) = Sum(g, Rn \ {q}) + g[q]
  BY <1>6, <1>8, SumSplit
<1>12. Sum(g, Rn \ {q}) = Sum(f, R \ {q})
  <2>1. \A y \in R \ {q} : g[y] = f[y]
    BY <1>3, <1>9
  <2>2. Sum(g, R \ {q}) = Sum(f, R \ {q})
    BY <2>1, SumExt
  <2> QED
    BY <1>6, <2>2
<1>13. Sum(f, R \ {q}) <= Sum(f, R) /\ Sum(f, R) \in Nat /\ Sum(f, R \ {q}) \in Nat
  <2>1. R \ {q} \subseteq R
    OBVIOUS
  <2>2. Sum(f, R \ {q}) <= Sum(f, R)
    BY <1>7, <2>1, SumRemove
  <2>3. IsFiniteSet(R \ {q})
    BY <1>7, <2>1, FS_Subset
  <2>4. \A y \in R \ {q} : f[y] \in Nat
    BY <1>7
  <2> QED
    BY <1>7, <2>2, <2>3, <2>4, SumNat
<1>14. Sum(g, Rn) <= Sum(f, R) + amount
  BY <1>0, <1>4, <1>11, <1>12, <1>13
<1>15. \A e \in BondingAssets \ {d} : Sum(g, RequestsOf(e)') = Sum(f, RequestsOf(e))
  <2> TAKE e \in BondingAssets \ {d}
  <2>1. Sum(g, RequestsOf(e)) = Sum(f, RequestsOf(e))
    BY <1>10, SumExt
  <2> QED
    BY <1>10, <2>1
<1> QED
  BY <1>14, <1>15 DEF f, g, R, Rn

(* A withdrawal takes what it pays off what its asset owes. *)
LEMMA RefundSums ==
  ASSUME TypeOK, NEW u \in Users, NEW d \in BondingAssets, Withdraw(u, d)
  PROVE  /\ Sum(UnbondAmount', RequestsOf(d)')
              = Sum(UnbondAmount, RequestsOf(d)) - Sum(UnbondAmount, Matured(u, d))
         /\ \A e \in BondingAssets \ {d} :
              Sum(UnbondAmount', RequestsOf(e)') = Sum(UnbondAmount, RequestsOf(e))
<1> DEFINE M == Matured(u, d)
           f == UnbondAmount
           g == UnbondAmount'
<1>1. unbond' = [y \in DOMAIN unbond \ M |-> unbond[y]]
  BY DEF Withdraw, Remaining, Drop
<1>2. \A y \in DOMAIN unbond \ M : g[y] = f[y]
  BY <1>1 DEF UnbondAmount
<1>3. \A e : RequestsOf(e)' = RequestsOf(e) \ M /\ RequestsOf(e) \subseteq DOMAIN unbond
  BY <1>1 DEF RequestsOf
<1>4. /\ M \subseteq RequestsOf(d)
      /\ \A e \in BondingAssets \ {d} : M \cap RequestsOf(e) = {}
  BY MaturedRequests
<1>5. IsFiniteSet(RequestsOf(d)) /\ \A y \in RequestsOf(d) : f[y] \in Nat
  BY <1>3, PendingNat
<1> HIDE DEF M, f, g
<1>6. \A e : Sum(g, RequestsOf(e)') = Sum(f, RequestsOf(e) \ M)
  <2> TAKE e
  <2>1. \A y \in RequestsOf(e) \ M : g[y] = f[y]
    BY <1>2, <1>3
  <2>2. Sum(g, RequestsOf(e) \ M) = Sum(f, RequestsOf(e) \ M)
    BY <2>1, SumExt
  <2> QED
    BY <1>3, <2>2
<1>7. Sum(f, RequestsOf(d) \ M) = Sum(f, RequestsOf(d)) - Sum(f, M)
  BY <1>4, <1>5, SumRemove
<1>8. \A e \in BondingAssets \ {d} : RequestsOf(e) \ M = RequestsOf(e)
  BY <1>4
<1>9. Sum(g, RequestsOf(d)') = Sum(f, RequestsOf(d)) - Sum(f, M)
  BY <1>6, <1>7
<1>10. \A e \in BondingAssets \ {d} : Sum(g, RequestsOf(e)') = Sum(f, RequestsOf(e))
  BY <1>6, <1>8
<1> QED
  BY <1>9, <1>10 DEF M, f, g

-----------------------------------------------------------------------------
(* The safety invariants *)

(* Each of them is inductive once the state has its shape. *)
LairInv == TypeOK /\ GlobalMatchesBonds /\ Solvent /\ NoWeightWithoutBond

LEMMA InvInit == Init => LairInv
<1> SUFFICES ASSUME Init
             PROVE  LairInv
  OBVIOUS
<1>1. TypeOK
  BY TypeInit
<1>2. \A k \in Accounts : BondAmount[k] = 0
  BY DEF Init, BondAmount
<1>3. \A S : S \subseteq Accounts => Sum(BondAmount, S) = 0
  BY <1>2, SumZero
<1>4. \A d \in BondingAssets : AccountsOf(d) \subseteq Accounts
  BY DEF AccountsOf, Accounts
<1>5. \A d \in BondingAssets : RequestsOf(d) = {}
  BY DEF Init, RequestsOf
<1>6. \A d \in BondingAssets : Sum(UnbondAmount, RequestsOf(d)) = 0
  BY <1>5, SumEmpty
<1>7. GlobalMatchesBonds
  BY <1>3, <1>4 DEF Init, GlobalMatchesBonds
<1>8. Solvent
  BY <1>3, <1>4, <1>6 DEF Init, Solvent
<1>9. NoWeightWithoutBond
  BY DEF Init, NoWeightWithoutBond
<1> QED
  BY <1>1, <1>7, <1>8, <1>9 DEF LairInv

LEMMA InvBond ==
  ASSUME LairInv, TypeOK', NEW u \in Users, NEW d \in BondingAssets,
         NEW amount \in 1..wallet[<<u, d>>], Bond(u, d, amount)
  PROVE  LairInv'
<1> DEFINE k == <<u, d>>
<1> USE DEF LairInv
<1>0. /\ k \in Accounts /\ amount \in Nat \ {0}
      /\ bond' = [bond EXCEPT ![k] =
                    [amount |-> bond[k].amount + amount,
                     weight |-> LocalWeight(k), timestamp |-> time]]
      /\ global' = [bonded_amount |-> global.bonded_amount + amount,
                    bonded_assets |->
                      [global.bonded_assets EXCEPT ![d] = @ + amount],
                    weight |-> GlobalWeight - 0, timestamp |-> time]
  BY BondEffect
<1>1. DOMAIN bond = Accounts /\ bond[k].amount \in Nat
  BY <1>0 DEF TypeOK
<1>2. /\ bond'[k].amount = bond[k].amount + amount
      /\ \A j \in Accounts \ {k} : bond'[j] = bond[j]
  BY <1>0, <1>1
<1>3. /\ Sum(BondAmount', Accounts) = Sum(BondAmount, Accounts) + amount
      /\ Sum(BondAmount', AccountsOf(d)) = Sum(BondAmount, AccountsOf(d)) + amount
      /\ \A e \in BondingAssets \ {d} :
           Sum(BondAmount', AccountsOf(e)) = Sum(BondAmount, AccountsOf(e))
  BY <1>0, <1>2, BondSums
<1>4. /\ DOMAIN global.bonded_assets = BondingAssets
      /\ global'.bonded_amount = global.bonded_amount + amount
      /\ global'.bonded_assets = [global.bonded_assets EXCEPT ![d] = @ + amount]
  BY <1>0 DEF TypeOK
<1>5. GlobalMatchesBonds'
  BY <1>3, <1>4 DEF GlobalMatchesBonds
<1>6. Solvent'
  <2>1. UnbondAmount' = UnbondAmount /\ \A e : RequestsOf(e)' = RequestsOf(e)
    BY DEF Bond, UnbondAmount, RequestsOf
  <2>2. \A e \in BondingAssets :
          /\ Sum(BondAmount, AccountsOf(e)) \in Nat
          /\ Sum(UnbondAmount, RequestsOf(e)) \in Nat
          /\ lair_balance[e] \in Nat
    <3> TAKE e \in BondingAssets
    <3>1. \A j \in AccountsOf(e) : BondAmount[j] \in Nat
      BY DEF TypeOK, BondAmount, AccountsOf, Accounts
    <3>2. RequestsOf(e) \subseteq DOMAIN unbond
      BY DEF RequestsOf
    <3> QED
      BY <3>1, <3>2, AccountsFinite, SumNat, PendingNat DEF TypeOK
  <2>3. /\ lair_balance'[d] = lair_balance[d] + amount
        /\ \A e \in BondingAssets \ {d} : lair_balance'[e] = lair_balance[e]
    BY DEF Bond, TypeOK
  <2> QED
    BY <1>0, <1>3, <2>1, <2>2, <2>3 DEF Solvent
<1>7. NoWeightWithoutBond'
  <2>1. bond'[k].amount # 0
    BY <1>0, <1>1, <1>2
  <2> HIDE DEF k
  <2> QED
    BY <1>2, <2>1 DEF NoWeightWithoutBond
<1> QED
  BY <1>5, <1>6, <1>7

LEMMA InvUnbond ==
  ASSUME LairInv, TypeOK', NEW u \in Users, NEW d \in BondingAssets,
         NEW amount \in 1..bond[<<u, d>>].amount, Unbond(u, d, amount)
  PROVE  LairInv'
<1> DEFINE k == <<u, d>>
<1> USE DEF LairInv
<1>0. /\ k \in Accounts /\ amount \in Nat \ {0}
      /\ bond' = [bond EXCEPT ![k] =
                    [amount |-> bond[k].amount - amount,
                     weight |-> LocalWeight(k) - WeightSlash(k, amount),
                     timestamp |-> time]]
      /\ global' = [bonded_amount |-> global.bonded_amount - amount,
                    bonded_assets |->
                      [global.bonded_assets EXCEPT ![d] = @ - amount],
                    weight |-> GlobalWeight - WeightSlash(k, amount),
                    timestamp |-> time]
  BY UnbondEffect
<1>1. DOMAIN bond = Accounts /\ bond[k].amount \in Nat
  BY <1>0 DEF TypeOK
<1>2. /\ bond'[k].amount = bond[k].amount - amount
      /\ bond'[k].weight = LocalWeight(k) - WeightSlash(k, amount)
      /\ \A j \in Accounts \ {k} : bond'[j] = bond[j]
  BY <1>0, <1>1
<1>3. /\ -amount \in Int
      /\ bond'[k].amount = bond[k].amount + (-amount)
  BY <1>0, <1>1, <1>2
<1>4. /\ Sum(BondAmount', Accounts) = Sum(BondAmount, Accounts) + (-amount)
      /\ Sum(BondAmount', AccountsOf(d)) = Sum(BondAmount, AccountsOf(d)) + (-amount)
      /\ \A e \in BondingAssets \ {d} :
           Sum(BondAmount', AccountsOf(e)) = Sum(BondAmount, AccountsOf(e))
  BY <1>2, <1>3, BondSums
<1>5. /\ DOMAIN global.bonded_assets = BondingAssets
      /\ global.bonded_amount \in Nat
      /\ \A e \in BondingAssets : global.bonded_assets[e] \in Nat
      /\ global'.bonded_amount = global.bonded_amount - amount
      /\ global'.bonded_assets = [global.bonded_assets EXCEPT ![d] = @ - amount]
  BY <1>0 DEF TypeOK
<1>6. GlobalMatchesBonds'
  <2>1. global'.bonded_amount = Sum(BondAmount', Accounts)
    BY <1>0, <1>4, <1>5 DEF GlobalMatchesBonds
  <2>2. \A e \in BondingAssets : global'.bonded_assets[e] = Sum(BondAmount', AccountsOf(e))
    BY <1>0, <1>4, <1>5 DEF GlobalMatchesBonds
  <2> QED
    BY <2>1, <2>2 DEF GlobalMatchesBonds
<1>7. Solvent'
  <2>1. /\ Sum(UnbondAmount', RequestsOf(d)')
             <= Sum(UnbondAmount, RequestsOf(d)) + amount
        /\ \A e \in BondingAssets \ {d} :
             Sum(UnbondAmount', RequestsOf(e)') = Sum(UnbondAmount, RequestsOf(e))
    BY RequestSums
  <2>2. \A e \in BondingAssets :
          /\ Sum(BondAmount, AccountsOf(e)) \in Nat
          /\ Sum(UnbondAmount, RequestsOf(e)) \in Nat
          /\ Sum(UnbondAmount', RequestsOf(e)') \in Nat
          /\ lair_balance[e] \in Nat
    <3> TAKE e \in BondingAssets
    <3>1. \A j \in AccountsOf(e) : BondAmount[j] \in Nat
      BY DEF TypeOK, BondAmount, AccountsOf, Accounts
    <3>2. RequestsOf(e) \subseteq DOMAIN unbond
      BY DEF RequestsOf
    <3>3. /\ IsFiniteSet(RequestsOf(e)')
          /\ \A y \in RequestsOf(e)' : UnbondAmount'[y] \in Nat
      <4>1. IsFiniteSet(DOMAIN unbond') /\ RequestsOf(e)' \subseteq DOMAIN unbond'
        BY DEF TypeOK, RequestsOf
      <4>2. \A y \in DOMAIN unbond' : UnbondAmount'[y] = unbond'[y].amount
        BY DEF UnbondAmount
      <4>3. \A y \in DOMAIN unbond' : unbond'[y].amount \in Nat
        BY DEF TypeOK
      <4>4. IsFiniteSet(RequestsOf(e)')
        BY <4>1, FS_Subset
      <4> QED
        BY <4>1, <4>2, <4>3, <4>4
    <3>4. Sum(UnbondAmount', RequestsOf(e)') \in Nat
      BY <3>3, SumNat
    <3> QED
      BY <3>1, <3>2, <3>4, AccountsFinite, SumNat, PendingNat DEF TypeOK
  <2>3. lair_balance' = lair_balance
    BY DEF Unbond
  <2>4. lair_balance[d] >= Sum(BondAmount', AccountsOf(d))
                             + Sum(UnbondAmount', RequestsOf(d)')
    <3>1. lair_balance[d] >= Sum(BondAmount, AccountsOf(d))
                               + Sum(UnbondAmount, RequestsOf(d))
      BY DEF Solvent
    <3> QED
      BY <1>0, <1>4, <2>1, <2>2, <3>1
  <2>5. \A e \in BondingAssets \ {d} :
          lair_balance[e] >= Sum(BondAmount', AccountsOf(e))
                               + Sum(UnbondAmount', RequestsOf(e)')
    BY <1>4, <2>1 DEF Solvent
  <2> QED
    BY <2>3, <2>4, <2>5 DEF Solvent
<1>8. NoWeightWithoutBond'
  <2>1. /\ amount = bond[k].amount =>
             LocalWeight(k) - WeightSlash(k, amount) = 0
    BY <1>0, SlashBounds
  <2>2. bond'[k].amount = 0 => amount = bond[k].amount
    BY <1>0, <1>1, <1>2
  <2> HIDE DEF k
  <2> QED
    BY <1>2, <2>1, <2>2 DEF NoWeightWithoutBond
<1> QED
  BY <1>6, <1>7, <1>8

LEMMA InvWithdraw ==
  ASSUME LairInv, TypeOK', NEW u \in Users, NEW d \in BondingAssets, Withdraw(u, d)
  PROVE  LairInv'
<1> DEFINE refund == Sum(UnbondAmount, Matured(u, d))
<1> USE DEF LairInv
<1>1. bond' = bond /\ global' = global
  BY DEF Withdraw
<1>2. GlobalMatchesBonds' /\ NoWeightWithoutBond'
  BY <1>1 DEF GlobalMatchesBonds, NoWeightWithoutBond, BondAmount
<1>3. BondAmount' = BondAmount
  BY <1>1, BondSumsSame
<1>4. /\ Sum(UnbondAmount', RequestsOf(d)') = Sum(UnbondAmount, RequestsOf(d)) - refund
      /\ \A e \in BondingAssets \ {d} :
           Sum(UnbondAmount', RequestsOf(e)') = Sum(UnbondAmount, RequestsOf(e))
  BY RefundSums
<1>5. refund \in Nat
  BY PendingNat, MaturedRequests
<1>6. /\ Sum(BondAmount, AccountsOf(d)) \in Nat
      /\ Sum(UnbondAmount, RequestsOf(d)) \in Nat
      /\ lair_balance[d] \in Nat
  <2>1. \A j \in AccountsOf(d) : BondAmount[j] \in Nat
    BY DEF TypeOK, BondAmount, AccountsOf, Accounts
  <2>2. RequestsOf(d) \subseteq DOMAIN unbond
    BY DEF RequestsOf
  <2> QED
    BY <2>1, <2>2, AccountsFinite, SumNat, PendingNat DEF TypeOK
<1>7. /\ lair_balance'[d] = lair_balance[d] - refund
      /\ \A e \in BondingAssets \ {d} : lair_balance'[e] = lair_balance[e]
  BY DEF Withdraw, TypeOK
<1>8. lair_balance[d] >= Sum(BondAmount, AccountsOf(d))
                           + Sum(UnbondAmount, RequestsOf(d))
  BY DEF Solvent
<1> HIDE DEF refund
<1>9. lair_balance'[d] >= Sum(BondAmount, AccountsOf(d))
                            + Sum(UnbondAmount', RequestsOf(d)')
  BY <1>4, <1>5, <1>6, <1>7, <1>8
<1>10. \A e \in BondingAssets \ {d} :
         lair_balance'[e] >= Sum(BondAmount, AccountsOf(e))
                               + Sum(UnbondAmount', RequestsOf(e)')
  BY <1>4, <1>7 DEF Solvent
<1>11. Solvent'
  BY <1>3, <1>9, <1>10 DEF Solvent
<1> QED
  BY <1>2, <1>11

LEMMA InvStep == LairInv /\ [Next]_vars => LairInv'
<1> SUFFICES ASSUME LairInv, [Next]_vars
             PROVE  LairInv'
  OBVIOUS
<1>1. TypeOK'
  BY TypeStep DEF LairInv
<1>2. CASE UNCHANGED lair_vars
  BY <1>1, <1>2
  DEF LairInv, lair_vars, GlobalMatchesBonds, Solvent, NoWeightWithoutBond,
      BondAmount, UnbondAmount, RequestsOf
<1>3. ASSUME NEW u \in Users, NEW d \in BondingAssets,
             NEW amount \in 1..wallet[<<u, d>>], Bond(u, d, amount)
      PROVE  LairInv'
  BY <1>1, <1>3, InvBond
<1>4. ASSUME NEW u \in Users, NEW d \in BondingAssets,
             NEW amount \in 1..bond[<<u, d>>].amount, Unbond(u, d, amount)
      PROVE  LairInv'
  BY <1>1, <1>4, InvUnbond
<1>5. ASSUME NEW u \in Users, NEW d \in BondingAssets, Withdraw(u, d)
      PROVE  LairInv'
  BY <1>1, <1>5, InvWithdraw
<1>6. ASSUME NEW sender \in Admins, NEW owner \in Admins,
             NEW period \in UnbondingPeriods, NEW rate \in GrowthRates,
             UpdateConfig(sender, owner, period, rate)
      PROVE  LairInv'
  BY <1>1, <1>6
  DEF UpdateConfig, LairInv, GlobalMatchesBonds, Solvent, NoWeightWithoutBond,
      BondAmount, UnbondAmount, RequestsOf
<1> QED
  BY <1>2, <1>3, <1>4, <1>5, <1>6 DEF Next, LairStep, Tick, vars

LEMMA InvAlways == Spec => []LairInv
<1>1. Init => LairInv
  BY InvInit
<1>2. LairInv /\ [Next]_vars => LairInv'
  BY InvStep
<1> QED
  BY <1>1, <1>2, PTL DEF Spec

(* The global index always counts the bonds of all users exactly. *)
THEOREM GlobalIndexExact == Spec => []GlobalMatchesBonds
<1>1. LairInv => GlobalMatchesBonds
  BY DEF LairInv
<1> QED
  BY <1>1, InvAlways, PTL

(* The contract can always pay every bond and every pending request.  Solvent *)
(* needs the shape of the state: a request that replaces another leaves a     *)
(* surplus, so the balance bounds the debts and does not equal them.          *)
THEOREM LairSolvent == Spec => []Solvent
<1>1. LairInv => Solvent
  BY DEF LairInv
<1> QED
  BY <1>1, InvAlways, PTL

(* Whoever has unbonded everything has no weight left, at any growth rate. *)
THEOREM WeightNeedsBond == Spec => []NoWeightWithoutBond
<1>1. LairInv => NoWeightWithoutBond
  BY DEF LairInv
<1> QED
  BY <1>1, InvAlways, PTL

-----------------------------------------------------------------------------
(* What everyone has *)

(* Every request is for some coins, so that one that replaces another takes *)
(* some away.                                                               *)
RequestsOfCoins == \A q \in DOMAIN unbond : unbond[q].amount # 0

LEMMA RequestsOfCoinsStep ==
  ASSUME TypeOK, RequestsOfCoins, [Next]_vars
  PROVE  RequestsOfCoins'
<1>1. CASE unbond' = unbond
  BY <1>1 DEF RequestsOfCoins
<1>2. ASSUME NEW u \in Users, NEW d \in BondingAssets,
             NEW amount \in 1..bond[<<u, d>>].amount, Unbond(u, d, amount)
      PROVE  RequestsOfCoins'
  <2>1. /\ unbond' = Put(unbond, <<u, d, Seconds(time)>>,
                         [amount |-> amount, timestamp |-> time])
        /\ amount # 0
    BY <1>2, UnbondEffect
  <2> QED
    BY <2>1 DEF RequestsOfCoins, Put
<1>3. ASSUME NEW u \in Users, NEW d \in BondingAssets, Withdraw(u, d)
      PROVE  RequestsOfCoins'
  BY <1>3 DEF RequestsOfCoins, Withdraw, Remaining, Drop
<1> QED
  BY <1>1, <1>2, <1>3
  DEF Next, LairStep, Tick, lair_vars, vars, Bond, UpdateConfig

(* The three parts of what an account has are natural numbers. *)
LEMMA HoldingsNat ==
  ASSUME TypeOK, NEW k \in Accounts
  PROVE  /\ wallet[k] \in Nat /\ bond[k].amount \in Nat
         /\ Requests(k[1], k[2]) \subseteq DOMAIN unbond
         /\ Sum(UnbondAmount, Requests(k[1], k[2])) \in Nat
<1>1. wallet[k] \in Nat /\ bond[k].amount \in Nat
  BY DEF TypeOK
<1>2. Requests(k[1], k[2]) \subseteq DOMAIN unbond
  BY DEF Requests
<1> QED
  BY <1>1, <1>2, PendingNat

(* A new request adds its amount to what its account has requested, and     *)
(* takes the amount of the request that it replaces off it.                 *)
LEMMA AccountRequested ==
  ASSUME TypeOK, NEW u \in Users, NEW d \in BondingAssets,
         NEW amount \in 1..bond[<<u, d>>].amount, Unbond(u, d, amount)
  PROVE  LET q == <<u, d, Seconds(time)>> IN
         /\ Sum(UnbondAmount', Requests(u, d)')
              = Sum(UnbondAmount, Requests(u, d)) + amount
                  - (IF q \in DOMAIN unbond THEN unbond[q].amount ELSE 0)
         /\ \A k \in Accounts \ {<<u, d>>} :
              Sum(UnbondAmount', Requests(k[1], k[2])')
                = Sum(UnbondAmount, Requests(k[1], k[2]))
<1> DEFINE q == <<u, d, Seconds(time)>>
           r == [amount |-> amount, timestamp |-> time]
           f == UnbondAmount
           g == UnbondAmount'
           R == Requests(u, d)
           Rn == Requests(u, d)'
<1>1. /\ amount \in Nat
      /\ unbond' = [y \in DOMAIN unbond \cup {q} |-> IF y = q THEN r ELSE unbond[y]]
  BY UnbondEffect DEF Put
<1>2. /\ DOMAIN unbond' = DOMAIN unbond \cup {q}
      /\ \A y \in DOMAIN unbond \ {q} : g[y] = f[y]
      /\ g[q] = amount
  BY <1>1 DEF UnbondAmount
<1>3. Rn = R \cup {q} /\ R \subseteq DOMAIN unbond
  BY <1>2 DEF Requests
<1>4. IsFiniteSet(R) /\ \A y \in R : f[y] \in Nat
  BY <1>3, PendingNat
<1>5. q \in DOMAIN unbond <=> q \in R
  BY DEF Requests
<1>6. q \in DOMAIN unbond => unbond[q].amount = f[q]
  BY DEF UnbondAmount
<1>7. \A k \in Accounts \ {<<u, d>>} :
        Sum(g, Requests(k[1], k[2])') = Sum(f, Requests(k[1], k[2]))
  <2> TAKE k \in Accounts \ {<<u, d>>}
  <2>1. ~(q[1] = k[1] /\ q[2] = k[2])
    BY DEF Accounts
  <2>2. Requests(k[1], k[2])' = Requests(k[1], k[2])
    BY <1>2, <2>1 DEF Requests
  <2>3. Requests(k[1], k[2]) \subseteq DOMAIN unbond \ {q}
    BY <2>1 DEF Requests
  <2> HIDE DEF f, g, q
  <2>4. Sum(g, Requests(k[1], k[2])) = Sum(f, Requests(k[1], k[2]))
    BY <1>2, <2>3, SumExt
  <2> QED
    BY <2>2, <2>4
<1> HIDE DEF q, r, f, g, R, Rn
<1>8. /\ IsFiniteSet(Rn)
      /\ \A y \in Rn : g[y] \in Nat
      /\ IsFiniteSet(R \ {q}) /\ \A y \in R \ {q} : f[y] \in Nat
  <2>1. IsFiniteSet(R \ {q}) /\ IsFiniteSet({q})
    BY <1>4, FS_Subset, FS_Singleton
  <2>2. IsFiniteSet(Rn)
    BY <1>3, <1>4, <2>1, FS_Union
  <2> QED
    BY <1>1, <1>2, <1>3, <1>4, <2>1, <2>2
<1>9. Sum(g, Rn) = Sum(f, R \ {q}) + amount /\ Sum(f, R \ {q}) \in Nat
  <2>1. q \in Rn /\ Rn \ {q} = R \ {q}
    BY <1>3
  <2>2. Sum(g, Rn) = Sum(g, R \ {q}) + g[q]
    BY <1>8, <2>1, SumSplit
  <2>3. Sum(g, R \ {q}) = Sum(f, R \ {q})
    BY <1>2, <1>3, SumExt
  <2> QED
    BY <1>2, <1>8, <2>2, <2>3, SumNat
<1>10. Sum(f, R) = Sum(f, R \ {q}) + (IF q \in DOMAIN unbond THEN unbond[q].amount ELSE 0)
  <2>1. CASE q \in R
    <3>1. Sum(f, R) = Sum(f, R \ {q}) + f[q]
      BY <1>4, <2>1, SumSplit
    <3> QED
      BY <1>5, <1>6, <2>1, <3>1
  <2>2. CASE q \notin R
    <3>1. R \ {q} = R
      BY <2>2
    <3> QED
      BY <1>5, <1>9, <2>2, <3>1
  <2> QED
    BY <2>1, <2>2
<1>11. q \in DOMAIN unbond => unbond[q].amount \in Nat
  BY <1>4, <1>5, <1>6
<1>12. Sum(g, Rn) = Sum(f, R) + amount - (IF q \in DOMAIN unbond THEN unbond[q].amount ELSE 0)
  BY <1>1, <1>9, <1>10, <1>11
<1> QED
  BY <1>7, <1>12 DEF q, f, g, R, Rn

(* A withdrawal takes off what its account has requested what it pays.      *)
LEMMA AccountRefunded ==
  ASSUME TypeOK, NEW u \in Users, NEW d \in BondingAssets, Withdraw(u, d)
  PROVE  /\ Sum(UnbondAmount', Requests(u, d)')
              = Sum(UnbondAmount, Requests(u, d)) - Sum(UnbondAmount, Matured(u, d))
         /\ \A k \in Accounts \ {<<u, d>>} :
              Sum(UnbondAmount', Requests(k[1], k[2])')
                = Sum(UnbondAmount, Requests(k[1], k[2]))
<1> DEFINE M == Matured(u, d)
           f == UnbondAmount
           g == UnbondAmount'
<1>1. unbond' = [y \in DOMAIN unbond \ M |-> unbond[y]]
  BY DEF Withdraw, Remaining, Drop
<1>2. \A y \in DOMAIN unbond \ M : g[y] = f[y]
  BY <1>1 DEF UnbondAmount
<1>3. \A v, e : Requests(v, e)' = Requests(v, e) \ M /\ Requests(v, e) \subseteq DOMAIN unbond
  BY <1>1 DEF Requests
<1>4. /\ M \subseteq Requests(u, d)
      /\ \A k \in Accounts \ {<<u, d>>} : M \cap Requests(k[1], k[2]) = {}
  BY DEF Matured, FirstPage, Requests, Accounts
<1>5. IsFiniteSet(Requests(u, d)) /\ \A y \in Requests(u, d) : f[y] \in Nat
  BY <1>3, PendingNat
<1> HIDE DEF M, f, g
<1>6. \A v, e : Sum(g, Requests(v, e)') = Sum(f, Requests(v, e) \ M)
  <2> TAKE v, e
  <2>1. \A y \in Requests(v, e) \ M : g[y] = f[y]
    BY <1>2, <1>3
  <2>2. Sum(g, Requests(v, e) \ M) = Sum(f, Requests(v, e) \ M)
    BY <2>1, SumExt
  <2> QED
    BY <1>3, <2>2
<1>7. Sum(f, Requests(u, d) \ M) = Sum(f, Requests(u, d)) - Sum(f, M)
  BY <1>4, <1>5, SumRemove
<1>8. \A k \in Accounts \ {<<u, d>>} : Requests(k[1], k[2]) \ M = Requests(k[1], k[2])
  BY <1>4
<1>9. /\ Sum(g, Requests(u, d)') = Sum(f, Requests(u, d)) - Sum(f, M)
      /\ \A k \in Accounts \ {<<u, d>>} :
           Sum(g, Requests(k[1], k[2])') = Sum(f, Requests(k[1], k[2]))
  BY <1>6, <1>7, <1>8
<1> QED
  BY <1>9 DEF M, f, g

(* A call changes what nobody has, or it is an unbonding that replaces a    *)
(* request of the same second: then the account loses the replaced amount.  *)
LEMMA HoldingsStep ==
  ASSUME TypeOK, RequestsOfCoins, [Next]_vars, NEW k \in Accounts
  PROVE  \/ Holdings(k)' = Holdings(k)
         \/ /\ <<k[1], k[2], Seconds(time)>> \in DOMAIN unbond
            /\ bond'[k].amount < bond[k].amount
            /\ Holdings(k)' < Holdings(k)
<1>1. /\ wallet[k] \in Nat /\ bond[k].amount \in Nat
      /\ Sum(UnbondAmount, Requests(k[1], k[2])) \in Nat
  BY HoldingsNat
<1>2. DOMAIN wallet = Accounts /\ DOMAIN bond = Accounts
  BY DEF TypeOK
<1>3. CASE UNCHANGED <<bond, unbond, wallet>>
  BY <1>3 DEF Holdings, Requests, UnbondAmount
<1>4. ASSUME NEW u \in Users, NEW d \in BondingAssets,
             NEW amount \in 1..wallet[<<u, d>>], Bond(u, d, amount)
      PROVE  Holdings(k)' = Holdings(k)
  <2>1. /\ amount \in Nat /\ <<u, d>> \in Accounts
        /\ bond' = [bond EXCEPT ![<<u, d>>] =
                      [amount |-> bond[<<u, d>>].amount + amount,
                       weight |-> LocalWeight(<<u, d>>), timestamp |-> time]]
    BY <1>4, BondEffect
  <2>2. /\ wallet' = [wallet EXCEPT ![<<u, d>>] = @ - amount]
        /\ unbond' = unbond
    BY <1>4 DEF Bond
  <2>3. wallet'[k] + bond'[k].amount = wallet[k] + bond[k].amount
    BY <1>1, <1>2, <2>1, <2>2
  <2>4. Sum(UnbondAmount', Requests(k[1], k[2])') = Sum(UnbondAmount, Requests(k[1], k[2]))
    BY <2>2 DEF UnbondAmount, Requests
  <2> QED
    BY <2>3, <2>4 DEF Holdings
<1>5. ASSUME NEW u \in Users, NEW d \in BondingAssets,
             NEW amount \in 1..bond[<<u, d>>].amount, Unbond(u, d, amount)
      PROVE  \/ Holdings(k)' = Holdings(k)
             \/ /\ <<k[1], k[2], Seconds(time)>> \in DOMAIN unbond
                /\ bond'[k].amount < bond[k].amount
                /\ Holdings(k)' < Holdings(k)
  <2> DEFINE q == <<u, d, Seconds(time)>>
             lost == IF q \in DOMAIN unbond THEN unbond[q].amount ELSE 0
  <2>1. /\ amount \in Nat \ {0} /\ <<u, d>> \in Accounts
        /\ bond' = [bond EXCEPT ![<<u, d>>] =
                      [amount |-> bond[<<u, d>>].amount - amount,
                       weight |-> LocalWeight(<<u, d>>) - WeightSlash(<<u, d>>, amount),
                       timestamp |-> time]]
        /\ wallet' = wallet
    BY <1>5, UnbondEffect DEF Unbond
  <2>2. /\ Sum(UnbondAmount', Requests(u, d)')
             = Sum(UnbondAmount, Requests(u, d)) + amount - lost
        /\ \A j \in Accounts \ {<<u, d>>} :
             Sum(UnbondAmount', Requests(j[1], j[2])')
               = Sum(UnbondAmount, Requests(j[1], j[2]))
    BY <1>5, AccountRequested
  <2>3. q \in DOMAIN unbond => lost \in Nat \ {0}
    BY DEF TypeOK, RequestsOfCoins
  <2>4. q \notin DOMAIN unbond => lost = 0
    OBVIOUS
  <2>5. CASE k = <<u, d>>
    <3>1. k[1] = u /\ k[2] = d
      BY <2>5
    <3> HIDE DEF q, lost
    <3>2. bond'[k].amount = bond[k].amount - amount
      BY <1>2, <2>1, <2>5
    <3>3. Holdings(k)' = Holdings(k) - lost
      BY <1>1, <2>1, <2>2, <2>3, <2>4, <3>1, <3>2 DEF Holdings
    <3>4. Holdings(k) \in Int
      BY <1>1 DEF Holdings
    <3>5. bond'[k].amount < bond[k].amount
      BY <1>1, <2>1, <3>2
    <3>6. q = <<k[1], k[2], Seconds(time)>>
      BY <3>1 DEF q
    <3> QED
      BY <2>3, <2>4, <3>3, <3>4, <3>5, <3>6
  <2>6. CASE k # <<u, d>>
    <3>1. bond'[k] = bond[k]
      BY <1>2, <2>1, <2>6
    <3> QED
      BY <2>1, <2>2, <2>6, <3>1 DEF Holdings
  <2> QED
    BY <2>5, <2>6
<1>6. ASSUME NEW u \in Users, NEW d \in BondingAssets, Withdraw(u, d)
      PROVE  Holdings(k)' = Holdings(k)
  <2> DEFINE refund == Sum(UnbondAmount, Matured(u, d))
  <2>1. /\ wallet' = [wallet EXCEPT ![<<u, d>>] = @ + refund]
        /\ bond' = bond
    BY <1>6 DEF Withdraw
  <2>2. /\ Sum(UnbondAmount', Requests(u, d)') = Sum(UnbondAmount, Requests(u, d)) - refund
        /\ \A j \in Accounts \ {<<u, d>>} :
             Sum(UnbondAmount', Requests(j[1], j[2])')
               = Sum(UnbondAmount, Requests(j[1], j[2]))
    BY <1>6, AccountRefunded
  <2>3. refund \in Nat
    BY PendingNat, MaturedRequests
  <2> HIDE DEF refund
  <2>4. CASE k = <<u, d>>
    <3>1. k[1] = u /\ k[2] = d /\ wallet'[k] = wallet[k] + refund
      BY <1>2, <2>1, <2>4
    <3> QED
      BY <1>1, <2>1, <2>2, <2>3, <3>1 DEF Holdings
  <2>5. CASE k # <<u, d>>
    <3>1. wallet'[k] = wallet[k]
      BY <1>2, <2>1, <2>5
    <3> QED
      BY <2>1, <2>2, <2>5, <3>1 DEF Holdings
  <2> QED
    BY <2>4, <2>5
<1> QED
  BY <1>3, <1>4, <1>5, <1>6 DEF Next, LairStep, Tick, lair_vars, vars, UpdateConfig

(* No call of anyone changes what a user has in wallet, bond and requests,  *)
(* with one exception, the second unbonding of an account in one second.    *)
THEOREM OnlyCollisions == Spec => OnlyCollisionsLose
<1> DEFINE Kept ==
      \A k \in Accounts :
        \/ Holdings(k)' = Holdings(k)
        \/ /\ <<k[1], k[2], Seconds(time)>> \in DOMAIN unbond
           /\ bond'[k].amount < bond[k].amount
           /\ Holdings(k)' < Holdings(k)
<1>1. Init => RequestsOfCoins
  BY DEF Init, RequestsOfCoins
<1>2. TypeOK /\ RequestsOfCoins /\ [Next]_vars => RequestsOfCoins'
  BY RequestsOfCoinsStep
<1>3. TypeOK /\ RequestsOfCoins /\ [Next]_vars => [Kept]_vars
  BY HoldingsStep
<1>4. Spec => []TypeOK
  BY TypeCorrect
<1> QED
  BY <1>1, <1>2, <1>3, <1>4, PTL DEF Spec, OnlyCollisionsLose

-----------------------------------------------------------------------------
(* Local weights and the global weight *)

LocalWeights == [k \in Accounts |-> LocalWeight(k)]

(* At a growth rate of zero or one a weight grows without rounding. *)
LEMMA GetWeightExact ==
  ASSUME NEW n \in {0, 1}, NEW t \in Nat, NEW since \in Nat, since <= t,
         NEW weight \in Nat, NEW amount \in Nat
  PROVE  GetWeight(t, weight, amount, n * RateUnit, since)
           = weight + amount * ((Seconds(t) - Seconds(since)) * n)
<1> DEFINE dt == Seconds(t) - Seconds(since)
<1>1. dt \in Nat /\ n \in Nat /\ RateUnit \in Nat \ {0}
  BY SecondsMono, LairAssumption
<1> HIDE DEF dt
<1>2. amount * dt * (n * RateUnit) = (amount * (dt * n)) * RateUnit
  <2>1. CASE n = 0
    BY <1>1, <2>1, ProductNat
  <2>2. CASE n = 1
    BY <1>1, <2>2, ProductNat
  <2> QED
    BY <2>1, <2>2
<1>3. amount * (dt * n) \in Nat
  BY <1>1, ProductNat
<1>4. (amount * dt * (n * RateUnit)) \div RateUnit = amount * (dt * n)
  BY <1>1, <1>2, <1>3, QuotientExact
<1> QED
  BY <1>4 DEF GetWeight, dt

(* A weight taken now is what has been stored now. *)
LEMMA GetWeightNow ==
  ASSUME NEW t \in Nat, NEW weight \in Nat, NEW amount \in Nat, NEW rate \in Nat
  PROVE  GetWeight(t, weight, amount, rate, t) = weight
<1>1. Seconds(t) - Seconds(t) = 0
  <2>1. Seconds(t) - Seconds(t) \in Nat /\ Seconds(t) \in Int
    BY SecondsMono, LairAssumption DEF Seconds
  <2> QED
    BY <2>1
<1>2. amount * 0 * rate = 0 /\ 0 \div RateUnit = 0
  BY LairAssumption
<1> QED
  BY <1>1, <1>2 DEF GetWeight

(* The clock moves all weights by what their amounts earn. *)
LEMMA WeightsTick ==
  ASSUME LairInv, LairInv', WeightsAgree, Tick, NEW n \in {0, 1},
         lair_config.growth_rate = n * RateUnit
  PROVE  WeightsAgree'
<1> DEFINE g == (Seconds(time + 1) - Seconds(time)) * n
<1>1. /\ time \in Nat /\ time' = time + 1
      /\ lair_config' = lair_config /\ bond' = bond /\ global' = global
  BY DEF Tick, lair_vars, LairInv, TypeOK
<1>2. Seconds(time + 1) - Seconds(time) \in Nat /\ g \in Nat
  BY <1>1, SecondsMono, ProductNat
<1>3. ASSUME NEW weight \in Nat, NEW amount \in Nat, NEW since \in 0..time
      PROVE  GetWeight(time + 1, weight, amount, n * RateUnit, since)
               = GetWeight(time, weight, amount, n * RateUnit, since) + amount * g
  <2> DEFINE a == Seconds(time) - Seconds(since)
             b == Seconds(time + 1) - Seconds(time)
             c == Seconds(time + 1) - Seconds(since)
  <2>1. /\ GetWeight(time, weight, amount, n * RateUnit, since)
             = weight + amount * (a * n)
        /\ GetWeight(time + 1, weight, amount, n * RateUnit, since)
             = weight + amount * (c * n)
    BY <1>1, GetWeightExact
  <2>2. a \in Nat /\ b \in Nat /\ c = a + b
    <3>1. Seconds(time) \in Int /\ Seconds(since) \in Int /\ Seconds(time + 1) \in Int
      BY <1>1, LairAssumption DEF Seconds
    <3> QED
      BY <1>1, <3>1, SecondsMono
  <2> HIDE DEF a, b, c
  <2>3. amount * (c * n) = amount * (a * n) + amount * (b * n)
    <3>1. CASE n = 0
      BY <2>2, <3>1
    <3>2. CASE n = 1
      BY <2>2, <3>2
    <3> QED
      BY <3>1, <3>2
  <2>4. amount * (a * n) \in Nat /\ amount * (b * n) \in Nat
    BY <2>2, ProductNat
  <2> QED
    BY <2>1, <2>3, <2>4 DEF b
<1>4. \A k \in Accounts : LocalWeight(k)' = LocalWeight(k) + BondAmount[k] * g
  <2> TAKE k \in Accounts
  <2>1. /\ bond[k].weight \in Nat /\ bond[k].amount \in Nat
        /\ bond[k].timestamp \in 0..time /\ BondAmount[k] = bond[k].amount
    BY DEF LairInv, TypeOK, BondAmount
  <2> QED
    BY <1>1, <1>3, <2>1 DEF LocalWeight
<1>5. GlobalWeight' = GlobalWeight + global.bonded_amount * g
  <2>1. /\ global.weight \in Nat /\ global.bonded_amount \in Nat
        /\ global.timestamp \in 0..time
    BY DEF LairInv, TypeOK
  <2> QED
    BY <1>1, <1>3, <2>1 DEF GlobalWeight
<1> HIDE DEF g
<1>6. Sum(LocalWeights', Accounts)
        = Sum(LocalWeights, Accounts) + Sum(BondAmount, Accounts) * g
  <2> DEFINE new == LocalWeights'
  <2>1. \A k \in Accounts : BondAmount[k] \in Nat /\ LocalWeight(k) \in Nat
    BY WeightsNat DEF LairInv, TypeOK, BondAmount
  <2>2. \A k \in Accounts : LocalWeights[k] \in Nat /\ BondAmount[k] \in Nat
    BY <2>1 DEF LocalWeights
  <2>3. \A k \in Accounts : new[k] = LocalWeights[k] + BondAmount[k] * g
    BY <1>4 DEF LocalWeights
  <2>4. IsFiniteSet(Accounts)
    BY AccountsFinite
  <2> QED
    BY <1>2, <2>2, <2>3, <2>4, SumGrown
<1>7. global.bonded_amount = Sum(BondAmount, Accounts)
  BY DEF LairInv, GlobalMatchesBonds
<1>8. GlobalWeight = Sum(LocalWeights, Accounts)
  BY DEF WeightsAgree, LocalWeights
<1>9. GlobalWeight' = Sum(LocalWeights', Accounts)
  BY <1>5, <1>6, <1>7, <1>8
<1> QED
  BY <1>9 DEF WeightsAgree, LocalWeights

(* A call that takes slash from one local weight, brought up to date, and   *)
(* from the global one keeps them in agreement.                             *)
LEMMA WeightsChange ==
  ASSUME TypeOK, TypeOK', WeightsAgree, NEW k \in Accounts, NEW slash \in Nat,
         slash <= LocalWeight(k), time' = time, lair_config' = lair_config,
         \A j \in Accounts \ {k} : bond'[j] = bond[j],
         bond'[k].weight = LocalWeight(k) - slash, bond'[k].timestamp = time,
         global'.weight = GlobalWeight - slash, global'.timestamp = time
  PROVE  WeightsAgree'
<1>1. /\ time \in Nat /\ lair_config.growth_rate \in Nat
      /\ bond'[k].weight \in Nat /\ bond'[k].amount \in Nat
      /\ global'.weight \in Nat /\ global'.bonded_amount \in Nat
  BY LairAssumption DEF TypeOK
<1>2. LocalWeight(k)' = LocalWeight(k) - slash
  BY <1>1, GetWeightNow DEF LocalWeight
<1>3. GlobalWeight' = GlobalWeight - slash
  BY <1>1, GetWeightNow DEF GlobalWeight
<1>4. \A j \in Accounts \ {k} : LocalWeight(j)' = LocalWeight(j)
  BY DEF LocalWeight
<1>5. \A j \in Accounts : LocalWeight(j) \in Nat /\ LocalWeight(j)' \in Nat
  <2>1. \A j \in Accounts : LocalWeight(j) \in Nat
    BY WeightsNat
  <2>2. LocalWeight(k) - slash \in Nat
    BY <2>1
  <2> QED
    BY <1>2, <1>4, <2>1, <2>2
<1>6. Sum(LocalWeights', Accounts)
        = Sum(LocalWeights, Accounts) + LocalWeights'[k] - LocalWeights[k]
  <2>1. \A j \in Accounts : LocalWeights[j] \in Nat /\ LocalWeights'[j] \in Nat
    BY <1>5 DEF LocalWeights
  <2>2. \A j \in Accounts \ {k} : LocalWeights'[j] = LocalWeights[j]
    BY <1>4 DEF LocalWeights
  <2> QED
    BY <2>1, <2>2, AccountsFinite, SumChange
<1>7. LocalWeights'[k] = LocalWeight(k) - slash /\ LocalWeights[k] = LocalWeight(k)
  BY <1>2 DEF LocalWeights
<1>8. GlobalWeight = Sum(LocalWeights, Accounts)
  BY DEF WeightsAgree, LocalWeights
<1>9. LocalWeight(k) \in Nat /\ GlobalWeight \in Nat
  BY WeightsNat
<1>10. GlobalWeight' = Sum(LocalWeights', Accounts)
  BY <1>3, <1>6, <1>7, <1>8, <1>9
<1> QED
  BY <1>10 DEF WeightsAgree, LocalWeights

LEMMA WeightsStep ==
  ASSUME LairInv, LairInv', WeightsAgree, [Next]_vars, NEW n \in {0, 1},
         lair_config.growth_rate = n * RateUnit,
         lair_config'.growth_rate = n * RateUnit
  PROVE  WeightsAgree'
<1>0. TypeOK /\ TypeOK'
  BY DEF LairInv
<1>1. CASE Tick
  BY <1>1, WeightsTick
<1>2. ASSUME NEW u \in Users, NEW d \in BondingAssets,
             NEW amount \in 1..wallet[<<u, d>>], Bond(u, d, amount)
      PROVE  WeightsAgree'
  <2> DEFINE k == <<u, d>>
  <2>1. /\ k \in Accounts
        /\ bond' = [bond EXCEPT ![k] =
                      [amount |-> bond[k].amount + amount,
                       weight |-> LocalWeight(k), timestamp |-> time]]
        /\ global'.weight = GlobalWeight - 0 /\ global'.timestamp = time
    BY <1>0, <1>2, BondEffect
  <2>2. time' = time /\ lair_config' = lair_config
    BY <1>2 DEF Bond
  <2>3. DOMAIN bond = Accounts /\ LocalWeight(k) \in Nat
    BY <1>0, <2>1, WeightsNat DEF TypeOK
  <2> HIDE DEF k
  <2>4. /\ bond'[k].weight = LocalWeight(k) - 0 /\ bond'[k].timestamp = time
        /\ \A j \in Accounts \ {k} : bond'[j] = bond[j]
    BY <2>1, <2>3
  <2> QED
    BY <1>0, <2>1, <2>2, <2>3, <2>4, WeightsChange
<1>3. ASSUME NEW u \in Users, NEW d \in BondingAssets,
             NEW amount \in 1..bond[<<u, d>>].amount, Unbond(u, d, amount)
      PROVE  WeightsAgree'
  <2> DEFINE k == <<u, d>>
             slash == WeightSlash(k, amount)
  <2>1. /\ k \in Accounts
        /\ bond' = [bond EXCEPT ![k] =
                      [amount |-> bond[k].amount - amount,
                       weight |-> LocalWeight(k) - slash, timestamp |-> time]]
        /\ global' = [bonded_amount |-> global.bonded_amount - amount,
                      bonded_assets |->
                        [global.bonded_assets EXCEPT ![d] = @ - amount],
                      weight |-> GlobalWeight - slash, timestamp |-> time]
    BY <1>0, <1>3, UnbondEffect, ZenonT(40)
  <2>2. time' = time /\ lair_config' = lair_config
    BY <1>3 DEF Unbond
  <2>3. DOMAIN bond = Accounts /\ LocalWeight(k) \in Nat
    BY <1>0, <2>1, WeightsNat DEF TypeOK
  <2>4. slash \in Nat /\ LocalWeight(k) - slash \in Nat
    BY <1>0, <2>1, SlashBounds
  <2> HIDE DEF k, slash
  <2>5. /\ bond'[k].weight = LocalWeight(k) - slash /\ bond'[k].timestamp = time
        /\ \A j \in Accounts \ {k} : bond'[j] = bond[j]
    BY <2>1, <2>3
  <2>6. slash <= LocalWeight(k)
    BY <2>3, <2>4
  <2>7. global'.weight = GlobalWeight - slash /\ global'.timestamp = time
    BY <2>1
  <2> QED
    BY <1>0, <2>1, <2>2, <2>4, <2>5, <2>6, <2>7, WeightsChange
<1>4. ASSUME time' = time, bond' = bond, global' = global,
             lair_config'.growth_rate = lair_config.growth_rate
      PROVE  WeightsAgree'
  <2>1. /\ GlobalWeight' = GlobalWeight
        /\ \A k \in Accounts : LocalWeight(k)' = LocalWeight(k)
    BY <1>4 DEF GlobalWeight, LocalWeight
  <2>2. LocalWeights' = LocalWeights
    BY <2>1 DEF LocalWeights
  <2>3. GlobalWeight' = Sum(LocalWeights', Accounts)
    BY <2>1, <2>2 DEF WeightsAgree, LocalWeights
  <2> QED
    BY <2>3 DEF WeightsAgree, LocalWeights
<1>5. CASE UNCHANGED vars
  BY <1>4, <1>5 DEF vars, lair_vars
<1>6. ASSUME NEW u \in Users, NEW d \in BondingAssets, Withdraw(u, d)
      PROVE  WeightsAgree'
  BY <1>4, <1>6 DEF Withdraw
<1>7. ASSUME NEW sender \in Admins, NEW owner \in Admins,
             NEW period \in UnbondingPeriods, NEW rate \in GrowthRates,
             UpdateConfig(sender, owner, period, rate)
      PROVE  WeightsAgree'
  BY <1>4, <1>7 DEF UpdateConfig
<1> QED
  BY <1>1, <1>2, <1>3, <1>5, <1>6, <1>7 DEF Next, LairStep

(* The global weight is the sum of the local ones for ever, whenever each   *)
(* was last brought up to date, as long as the owner keeps a growth rate    *)
(* that needs no rounding: one, the rate of the tests, or zero.             *)
THEOREM WeightsStayInAgreement ==
  ASSUME NEW CONSTANT n \in {0, 1}
  PROVE  Spec /\ [](lair_config.growth_rate = n * RateUnit) => []WeightsAgree
<1> DEFINE Exact == lair_config.growth_rate = n * RateUnit
<1>1. Init /\ Exact => WeightsAgree
  <2> SUFFICES ASSUME Init, Exact PROVE WeightsAgree
    OBVIOUS
  <2>1. LairInv
    BY InvInit
  <2>2. time \in Nat /\ n * RateUnit \in Nat /\ 0 \in 0..time
    BY <2>1, LairAssumption, ProductNat DEF LairInv, TypeOK
  <2>3. \A s \in 0..time : GetWeight(time, 0, 0, n * RateUnit, s) = 0
    <3> TAKE s \in 0..time
    <3>1. GetWeight(time, 0, 0, n * RateUnit, s)
            = 0 + 0 * ((Seconds(time) - Seconds(s)) * n)
      BY <2>2, GetWeightExact
    <3>2. Seconds(time) - Seconds(s) \in Nat
      BY <2>2, SecondsMono
    <3>3. (Seconds(time) - Seconds(s)) * n \in Nat
      BY <3>2, ProductNat
    <3> QED
      BY <3>1, <3>3
  <2>4. GlobalWeight = 0
    BY <2>2, <2>3 DEF Init, GlobalWeight
  <2>5. \A k \in Accounts : LocalWeights[k] = 0
    BY <2>2, <2>3 DEF Init, LocalWeight, LocalWeights
  <2>6. Sum(LocalWeights, Accounts) = 0
    BY <2>5, SumZero
  <2> QED
    BY <2>4, <2>6 DEF WeightsAgree, LocalWeights
<1>2. LairInv /\ LairInv' /\ Exact /\ Exact' /\ WeightsAgree /\ [Next]_vars
        => WeightsAgree'
  BY WeightsStep
<1>3. Spec => []LairInv
  BY InvAlways
<1> QED
  BY <1>1, <1>2, <1>3, PTL DEF Spec
=============================================================================

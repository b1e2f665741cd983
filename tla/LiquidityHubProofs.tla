------------------------- MODULE LiquidityHubProofs -------------------------
(***************************************************************************)
(* The two contracts together: each behaves as it does alone, so that what  *)
(* is proved of each holds of the hub, although shares above one reach the  *)
(* distributor; nobody is paid without a bond, and the shares of all users  *)
(* add up to at most one.                                                   *)
(***************************************************************************)
EXTENDS LiquidityHub, Arithmetic

LairP == INSTANCE WhaleLairProofs
DistP == INSTANCE FeeDistributorProofs WITH Shares <- 0..ShareUnit

-----------------------------------------------------------------------------
(* The contracts of the hub are those the proofs are about *)

LEMMA LairAssumed == LairP!LairAssumption
BY HubAssumption
DEF LairP!LairAssumption, LairP!IsFiniteSet, IsFiniteSet, LairP!Cardinality,
    Cardinality

LEMMA DistAssumed == DistP!DistributorAssumption
BY HubAssumption DEF DistP!DistributorAssumption

(* Totals are the same in every module. *)
LEMMA SameSums ==
  ASSUME NEW f, NEW S
  PROVE  Lair!Sum(f, S) = Sum(f, S) /\ Dist!Sum(f, S) = Sum(f, S)
BY DEF Lair!Sum, Dist!Sum, Sum, Lair!Units, Dist!Units, Units,
       Lair!Cardinality, Dist!Cardinality, Cardinality

LEMMA SameLair ==
  /\ Lair!Init <=> LairP!Init
  /\ Lair!Tick <=> LairP!Tick
  /\ Lair!LairStep <=> LairP!LairStep
<1>1. Lair!Init <=> LairP!Init
  BY DEF Lair!Init, LairP!Init, Lair!Accounts, LairP!Accounts
<1>2. Lair!Tick <=> LairP!Tick
  BY DEF Lair!Tick, LairP!Tick, Lair!lair_vars, LairP!lair_vars
<1>3. ASSUME NEW u, NEW d, NEW amount
      PROVE  Lair!Bond(u, d, amount) <=> LairP!Bond(u, d, amount)
  BY DEF Lair!Bond, LairP!Bond, Lair!LocalWeight, LairP!LocalWeight,
         Lair!GlobalIndex, LairP!GlobalIndex, Lair!GlobalWeight,
         LairP!GlobalWeight, Lair!GetWeight, LairP!GetWeight,
         Lair!Seconds, LairP!Seconds
<1>4. ASSUME NEW u, NEW d, NEW amount
      PROVE  Lair!Unbond(u, d, amount) <=> LairP!Unbond(u, d, amount)
  BY DEF Lair!Unbond, LairP!Unbond, Lair!WeightSlash, LairP!WeightSlash,
         Lair!LocalWeight, LairP!LocalWeight, Lair!GlobalIndex,
         LairP!GlobalIndex, Lair!GlobalWeight, LairP!GlobalWeight,
         Lair!GetWeight, LairP!GetWeight, Lair!Seconds, LairP!Seconds,
         Lair!Put, LairP!Put
<1>5. ASSUME NEW u, NEW d
      PROVE  Lair!Withdraw(u, d) <=> LairP!Withdraw(u, d)
  BY DEF Lair!Withdraw, LairP!Withdraw, Lair!Remaining, LairP!Remaining,
         Lair!Matured, LairP!Matured, Lair!FirstPage, LairP!FirstPage,
         Lair!Requests, LairP!Requests, Lair!UnbondAmount,
         LairP!UnbondAmount, Lair!Drop, LairP!Drop, Lair!Sum, LairP!Sum,
         Lair!Units, LairP!Units, Lair!Cardinality, LairP!Cardinality
<1>6. ASSUME NEW sender, NEW owner, NEW period, NEW rate
      PROVE  Lair!UpdateConfig(sender, owner, period, rate)
               <=> LairP!UpdateConfig(sender, owner, period, rate)
  BY DEF Lair!UpdateConfig, LairP!UpdateConfig
<1>7. Lair!LairStep <=> LairP!LairStep
  BY <1>3, <1>4, <1>5, <1>6, Zenon DEF Lair!LairStep, LairP!LairStep
<1> QED
  BY <1>1, <1>2, <1>7

LEMMA SameDist ==
  /\ Dist!Init <=> DistP!Init
  /\ Dist!Tick <=> DistP!Tick
  /\ Dist!CreateEpoch <=> DistP!CreateEpoch
  /\ Dist!Configure <=> DistP!Configure
  /\ \A u, share : Dist!Claim(u, share) <=> DistP!Claim(u, share)
<1>1. Dist!Init <=> DistP!Init
  BY DEF Dist!Init, DistP!Init, Dist!MaxGracePeriod, DistP!MaxGracePeriod
<1>2. Dist!Tick <=> DistP!Tick
  BY DEF Dist!Tick, DistP!Tick, Dist!dist_vars, DistP!dist_vars
<1>3. ASSUME NEW amount
      PROVE  Dist!NewEpoch(amount) <=> DistP!NewEpoch(amount)
  BY DEF Dist!NewEpoch, DistP!NewEpoch, Dist!EpochOver, DistP!EpochOver,
         Dist!CurrentStart, DistP!CurrentStart, Dist!NextStart,
         DistP!NextStart, Dist!CollectedFees, DistP!CollectedFees,
         Dist!NoFees, DistP!NoFees, Dist!Amount, DistP!Amount,
         Dist!AggregateAssets, DistP!AggregateAssets, Dist!Unclaimed,
         DistP!Unclaimed, Dist!FirstFee, DistP!FirstFee, Dist!Expired,
         DistP!Expired, Dist!ExpiringEpoch, DistP!ExpiringEpoch,
         Dist!GraceEpochs, DistP!GraceEpochs
<1>4. Dist!CreateEpoch <=> DistP!CreateEpoch
  BY <1>3 DEF Dist!CreateEpoch, DistP!CreateEpoch
<1>5. Dist!Configure <=> DistP!Configure
  BY DEF Dist!Configure, DistP!Configure, Dist!UpdateConfig,
         DistP!UpdateConfig, Dist!MaxGracePeriod, DistP!MaxGracePeriod
<1>6. ASSUME NEW u, NEW share
      PROVE  Dist!Claim(u, share) <=> DistP!Claim(u, share)
  BY DEF Dist!Claim, DistP!Claim, Dist!ClaimableEpochs,
         DistP!ClaimableEpochs, Dist!GraceEpochs, DistP!GraceEpochs,
         Dist!Sound, DistP!Sound, Dist!Reward, DistP!Reward, Dist!Paid,
         DistP!Paid, Dist!Sum, DistP!Sum, Dist!Units, DistP!Units,
         Dist!Cardinality, DistP!Cardinality, Dist!AfterClaim,
         DistP!AfterClaim, Dist!Claimed, DistP!Claimed, Dist!ClaimedUpTo,
         DistP!ClaimedUpTo
<1> QED
  BY <1>1, <1>2, <1>4, <1>5, <1>6, Zenon

-----------------------------------------------------------------------------
(* The bonding contract in the hub *)

(* Whatever the distributor does is no step of the bonding contract.        *)
LEMMA LairStepping == [Next]_vars => [LairP!Next]_(LairP!vars)
<1> SUFFICES ASSUME [Next]_vars
             PROVE  [LairP!Next]_(LairP!vars)
  OBVIOUS
<1>1. CASE Tick
  BY <1>1, SameLair DEF Tick, LairP!Next
<1>2. CASE Lair!LairStep /\ UNCHANGED dist_vars
  BY <1>2, SameLair DEF LairP!Next
<1>3. CASE (Dist!CreateEpoch \/ Dist!Configure) /\ UNCHANGED lair_vars
  <2>1. time' = time
    BY <1>3 DEF Dist!CreateEpoch, Dist!NewEpoch, Dist!Configure,
                Dist!UpdateConfig
  <2> QED
    BY <1>3, <2>1 DEF lair_vars, LairP!vars, LairP!lair_vars
<1>4. ASSUME NEW u \in Users, Claim(u)
      PROVE  [LairP!Next]_(LairP!vars)
  BY <1>4 DEF Claim, Dist!Claim, lair_vars, LairP!vars, LairP!lair_vars
<1>5. CASE UNCHANGED vars
  BY <1>5 DEF vars, lair_vars, LairP!vars, LairP!lair_vars
<1> QED
  BY <1>1, <1>2, <1>3, <1>4, <1>5 DEF Next

LEMMA LairAlone == Spec => LairP!Spec
<1>1. Init => LairP!Init
  BY SameLair DEF Init
<1>2. [Next]_vars => [LairP!Next]_(LairP!vars)
  BY LairStepping
<1> QED
  BY <1>1, <1>2, PTL DEF Spec, LairP!Spec

LEMMA LairInvariant == Spec => []LairP!LairInv
<1>1. LairP!LairAssumption
  BY LairAssumed
<1>2. LairP!Spec => []LairP!LairInv
  BY <1>1, LairP!InvAlways, PTL
<1> QED
  BY <1>2, LairAlone, PTL

-----------------------------------------------------------------------------
(* The distributor in the hub *)

DistShape == DistP!TypeOK /\ DistP!AvailableBounded

(* The share the bonding contract reports is a natural number. *)
LEMMA FeeShareNat ==
  ASSUME LairP!LairInv, Lair!GlobalWeight > 0, NEW u \in Users
  PROVE  /\ Lair!GlobalWeight \in Nat \ {0}
         /\ \A k \in Lair!Accounts : Lair!LocalWeight(k) \in Nat
         /\ Lair!UserWeight(u) \in Nat
         /\ FeeShare(u) \in Nat
<1>1. LairP!LairAssumption /\ LairP!TypeOK
  BY LairAssumed DEF LairP!LairInv
<1>2. /\ LairP!GlobalWeight \in Nat
      /\ \A k \in LairP!Accounts : LairP!LocalWeight(k) \in Nat
  BY <1>1, LairP!WeightsNat
<1>3. /\ Lair!GlobalWeight = LairP!GlobalWeight
      /\ Lair!Accounts = LairP!Accounts
      /\ \A k : Lair!LocalWeight(k) = LairP!LocalWeight(k)
  BY DEF Lair!GlobalWeight, LairP!GlobalWeight, Lair!LocalWeight,
         LairP!LocalWeight, Lair!GetWeight, LairP!GetWeight, Lair!Seconds,
         LairP!Seconds, Lair!Accounts, LairP!Accounts
<1>4. /\ Lair!GlobalWeight \in Nat \ {0}
      /\ \A k \in Lair!Accounts : Lair!LocalWeight(k) \in Nat
  BY <1>2, <1>3
<1>5. Lair!UserWeight(u) \in Nat
  <2> DEFINE w == [k \in Lair!Accounts |-> Lair!LocalWeight(k)]
  <2>1. {u} \X BondingAssets \subseteq Lair!Accounts
    BY DEF Lair!Accounts
  <2>2. IsFiniteSet({u} \X BondingAssets)
    BY HubAssumption, FS_Singleton, FS_Product
  <2>3. \A k \in {u} \X BondingAssets : w[k] \in Nat
    BY <1>4, <2>1
  <2>4. Sum(w, {u} \X BondingAssets) \in Nat
    BY <2>2, <2>3, SumNat
  <2> QED
    BY <2>4, SameSums DEF Lair!UserWeight
<1> DEFINE g == Lair!GlobalWeight
           w == Lair!UserWeight(u)
<1>6. (w * ShareUnit) \div g \in Nat
  <2>1. g \in Nat \ {0} /\ w \in Nat /\ ShareUnit \in Nat
    BY <1>4, <1>5, HubAssumption
  <2> HIDE DEF g, w
  <2> QED
    BY <2>1, ProductNat, Quotient
<1> QED
  BY <1>4, <1>5, <1>6 DEF FeeShare

(* A claim by a share above one is a claim by a share of one. *)
LEMMA DistStepping ==
  ASSUME LairP!LairInv, DistShape, [Next]_vars
  PROVE  [DistP!Next]_(DistP!vars)
<1>1. CASE Tick
  BY <1>1, SameDist DEF Tick, DistP!Next
<1>2. CASE Lair!LairStep /\ UNCHANGED dist_vars
  <2>1. time' = time
    BY <1>2, ZenonT(40) DEF Lair!LairStep, Lair!Bond, Lair!Unbond, Lair!Withdraw,
                Lair!UpdateConfig
  <2> QED
    BY <1>2, <2>1 DEF dist_vars, DistP!vars, DistP!dist_vars
<1>3. CASE (Dist!CreateEpoch \/ Dist!Configure) /\ UNCHANGED lair_vars
  BY <1>3, SameDist DEF DistP!Next
<1>4. ASSUME NEW u \in Users, Claim(u)
      PROVE  [DistP!Next]_(DistP!vars)
  <2> DEFINE share == FeeShare(u)
  <2>1. DistP!Claim(u, share) /\ Lair!GlobalWeight > 0
    BY <1>4, SameDist DEF Claim
  <2>2. share \in Nat /\ ShareUnit \in Nat
    BY <2>1, FeeShareNat, HubAssumption
  <2> HIDE DEF share
  <2>3. CASE share <= ShareUnit
    <3>1. share \in 0..ShareUnit
      BY <2>2, <2>3
    <3> QED
      BY <2>1, <3>1 DEF DistP!Next
  <2>4. CASE share > ShareUnit
    <3>1. DistP!DistributorAssumption /\ DistP!TypeOK /\ DistP!AvailableBounded
      BY DistAssumed DEF DistShape
    <3>2. DistP!Claim(u, ShareUnit)
      BY <2>1, <2>2, <2>4, <3>1, DistP!ShareAboveOne
    <3>3. ShareUnit \in 0..ShareUnit
      BY <2>2
    <3> QED
      BY <3>2, <3>3 DEF DistP!Next
  <2> QED
    BY <2>2, <2>3, <2>4
<1>5. CASE UNCHANGED vars
  BY <1>5 DEF vars, dist_vars, DistP!vars, DistP!dist_vars
<1> QED
  BY <1>1, <1>2, <1>3, <1>4, <1>5 DEF Next

LEMMA DistShapeInit == Init => DistShape
<1> SUFFICES ASSUME Init
             PROVE  DistShape
  OBVIOUS
<1>1. DistP!Init /\ DistP!DistributorAssumption
  BY SameDist, DistAssumed DEF Init
<1>2. DistP!TypeOK
  BY <1>1, DistP!TypeInit
<1>3. DistP!AvailableBounded
  BY <1>1 DEF DistP!Init, DistP!AvailableBounded
<1> QED
  BY <1>2, <1>3 DEF DistShape

LEMMA DistShapeStep ==
  ASSUME LairP!LairInv, DistShape, [Next]_vars
  PROVE  DistShape'
<1>1. [DistP!Next]_(DistP!vars) /\ DistP!DistributorAssumption
  BY DistStepping, DistAssumed
<1>2. DistP!TypeOK /\ DistP!AvailableBounded
  BY DEF DistShape
<1>3. DistP!TypeOK'
  BY <1>1, <1>2, DistP!TypeStep
<1>4. DistP!AvailableBounded'
  BY <1>1, <1>2, DistP!AvailableBoundedStep
<1> QED
  BY <1>3, <1>4 DEF DistShape

LEMMA DistShapeAlways == Spec => []DistShape
<1>1. LairP!LairInv /\ DistShape /\ [Next]_vars => DistShape'
  BY DistShapeStep
<1> QED
  BY <1>1, DistShapeInit, LairInvariant, PTL DEF Spec

(* The distributor behaves as it does alone with shares of at most one,     *)
(* although a change of the growth rate can leave a user with a share above *)
(* one: such a claim goes through only if it pays what a share of one pays. *)
THEOREM DistributorAlone == Spec => DistributorSpec
<1>1. Init => Dist!Init
  BY DEF Init
<1>2. LairP!LairInv /\ DistShape /\ [Next]_vars => [Dist!Next]_(Dist!vars)
  <2> SUFFICES ASSUME LairP!LairInv, DistShape, [Next]_vars
               PROVE  [Dist!Next]_(Dist!vars)
    OBVIOUS
  <2>1. [DistP!Next]_(DistP!vars)
    BY DistStepping
  <2>2. DistP!Next => Dist!Next
    BY SameDist, Zenon DEF DistP!Next, Dist!Next
  <2>3. Dist!vars = DistP!vars
    BY DEF Dist!vars, DistP!vars, Dist!dist_vars, DistP!dist_vars
  <2>4. (Dist!vars)' = (DistP!vars)'
    BY DEF Dist!vars, DistP!vars, Dist!dist_vars, DistP!dist_vars
  <2> QED
    BY <2>1, <2>2, <2>3, <2>4
<1> QED
  BY <1>1, <1>2, LairInvariant, DistShapeAlways, PTL
  DEF Spec, DistributorSpec, Dist!Spec

-----------------------------------------------------------------------------
(* What holds of each contract alone holds in the hub *)

(* The bonding contract can pay what it owes and counts the bonds exactly   *)
(* whatever is claimed in between, and no weight is left without a bond.    *)
THEOREM LairSafeInHub ==
  Spec => [](Lair!GlobalMatchesBonds /\ Lair!Solvent /\ Lair!NoWeightWithoutBond)
<1>1. LairP!LairInv => /\ LairP!GlobalMatchesBonds /\ LairP!Solvent
                       /\ LairP!NoWeightWithoutBond
  BY DEF LairP!LairInv
<1>2. LairP!GlobalMatchesBonds => Lair!GlobalMatchesBonds
  BY DEF LairP!GlobalMatchesBonds, Lair!GlobalMatchesBonds, LairP!BondAmount,
         Lair!BondAmount, LairP!AccountsOf, Lair!AccountsOf, LairP!Accounts,
         Lair!Accounts, LairP!Sum, Lair!Sum, LairP!Units, Lair!Units,
         LairP!Cardinality, Lair!Cardinality
<1>3. LairP!Solvent => Lair!Solvent
  BY DEF LairP!Solvent, Lair!Solvent, LairP!BondAmount, Lair!BondAmount,
         LairP!UnbondAmount, Lair!UnbondAmount, LairP!RequestsOf,
         Lair!RequestsOf, LairP!AccountsOf, Lair!AccountsOf, LairP!Accounts,
         Lair!Accounts, LairP!Sum, Lair!Sum, LairP!Units, Lair!Units,
         LairP!Cardinality, Lair!Cardinality
<1>4. LairP!NoWeightWithoutBond => Lair!NoWeightWithoutBond
  BY DEF LairP!NoWeightWithoutBond, Lair!NoWeightWithoutBond,
         LairP!Accounts, Lair!Accounts
<1> QED
  BY <1>1, <1>2, <1>3, <1>4, LairInvariant, PTL

(* The distributor owns exactly the fees its epochs still offer, and none   *)
(* of them is stranded, whatever shares the bonding contract reports.       *)
THEOREM FeesSafeInHub == Spec => [](Dist!Backed /\ Dist!NoStrandedFees)
<1>1. DistP!DistributorAssumption
  BY DistAssumed
<1>2. DistP!Spec => [](DistP!Backed /\ DistP!NoStrandedFees)
  BY <1>1, DistP!FeesBacked, DistP!NothingStranded, PTL
<1>3. Init => DistP!Init
  BY SameDist DEF Init
<1>4. LairP!LairInv /\ DistShape /\ [Next]_vars => [DistP!Next]_(DistP!vars)
  BY DistStepping
<1>5. Spec => DistP!Spec
  BY <1>3, <1>4, LairInvariant, DistShapeAlways, PTL DEF Spec, DistP!Spec
<1>6. DistP!Backed => Dist!Backed
  BY DEF DistP!Backed, Dist!Backed, DistP!AvailableOf, Dist!AvailableOf,
         DistP!Amount, Dist!Amount, DistP!Sum, Dist!Sum, DistP!Units,
         Dist!Units, DistP!Cardinality, Dist!Cardinality
<1>7. DistP!NoStrandedFees => Dist!NoStrandedFees
  BY DEF DistP!NoStrandedFees, Dist!NoStrandedFees, DistP!GraceEpochs,
         Dist!GraceEpochs, DistP!NoFees, Dist!NoFees
<1> QED
  BY <1>2, <1>5, <1>6, <1>7, PTL

-----------------------------------------------------------------------------
(* Whoever is paid has a bond *)

(* Without a bond there is no weight, and without weight no share.          *)
LEMMA NoBondNoShare ==
  ASSUME LairP!LairInv, Lair!GlobalWeight > 0, NEW u \in Users,
         \A d \in BondingAssets : ~(bond[<<u, d>>].amount > 0)
  PROVE  FeeShare(u) = 0
<1> DEFINE w == [k \in Lair!Accounts |-> Lair!LocalWeight(k)]
<1>1. LairP!TypeOK /\ LairP!NoWeightWithoutBond
  BY DEF LairP!LairInv
<1>2. ASSUME NEW d \in BondingAssets
      PROVE  w[<<u, d>>] = 0
  <2> DEFINE k == <<u, d>>
             since == bond[k].timestamp
  <2>1. k \in Lair!Accounts /\ k \in LairP!Accounts
    BY DEF Lair!Accounts, LairP!Accounts
  <2>2. bond[k].amount \in Nat /\ since \in Nat
    <3>1. time \in Nat /\ bond[k].amount \in Nat /\ since \in 0..time
      BY <1>1, <2>1 DEF LairP!TypeOK
    <3> QED
      BY <3>1
  <2>3. bond[k].amount = 0
    <3>1. ~(bond[k].amount > 0)
      OBVIOUS
    <3> QED
      BY <2>2, <3>1
  <2>4. bond[k].weight = 0
    BY <1>1, <2>1, <2>3 DEF LairP!NoWeightWithoutBond
  <2>5. time \in Nat /\ lair_config.growth_rate \in Nat
    BY <1>1, HubAssumption DEF LairP!TypeOK
  <2>6. 0 * (Lair!Seconds(time) - Lair!Seconds(since)) = 0
    <3>1. Lair!Seconds(time) \in Int /\ Lair!Seconds(since) \in Int
      BY <2>2, <2>5, HubAssumption DEF Lair!Seconds
    <3> QED
      BY <3>1
  <2>7. 0 * lair_config.growth_rate = 0 /\ 0 \div RateUnit = 0 /\ 0 + 0 = 0
    BY <2>5, HubAssumption
  <2>8. Lair!LocalWeight(k) = 0
    BY <2>3, <2>4, <2>6, <2>7 DEF Lair!LocalWeight, Lair!GetWeight
  <2> QED
    BY <2>1, <2>8
<1>3. \A k \in {u} \X BondingAssets : w[k] = 0
  <2>1. \A k \in {u} \X BondingAssets : \E d \in BondingAssets : k = <<u, d>>
    OBVIOUS
  <2> HIDE DEF w
  <2> QED
    BY <1>2, <2>1
<1>4. Lair!UserWeight(u) = 0
  BY <1>3, SumZero, SameSums DEF Lair!UserWeight
<1>5. Lair!GlobalWeight \in Nat \ {0} /\ ShareUnit \in Nat
  BY FeeShareNat, HubAssumption
<1>6. 0 * ShareUnit = 0 /\ 0 \div Lair!GlobalWeight = 0
  BY <1>5
<1> QED
  BY <1>4, <1>6 DEF FeeShare

(* A claim by no share takes nothing. *)
LEMMA NoShareNoPay ==
  ASSUME DistP!TypeOK, NEW u \in Users, DistP!Claim(u, 0)
  PROVE  dist_balance' = dist_balance
<1> DEFINE ids == DistP!ClaimableEpochs(u)
<1>1. DistP!DistributorAssumption
  BY DistAssumed
<1>2. \A i \in ids : \A a \in DOMAIN epochs[i].total : DistP!Reward(i, a, 0) = 0
  <2> TAKE i \in ids
  <2> TAKE a \in DOMAIN epochs[i].total
  <2>1. i \in DOMAIN epochs
    BY DEF DistP!ClaimableEpochs, DistP!GraceEpochs
  <2>2. epochs[i].total[a] \in Nat
    BY <2>1 DEF DistP!TypeOK, DistP!IsEpoch, DistP!IsFees
  <2>3. epochs[i].total[a] * 0 = 0 /\ 0 \div ShareUnit = 0
    BY <2>2, HubAssumption
  <2> QED
    BY <2>3 DEF DistP!Reward
<1>3. \A a : DistP!Paid(ids, a, 0) = 0
  <2> TAKE a
  <2> DEFINE f == [i \in DOMAIN epochs |->
                     IF a \in DOMAIN epochs[i].total
                     THEN DistP!Reward(i, a, 0) ELSE 0]
  <2>1. \A i \in ids : f[i] = 0
    <3>1. ids \subseteq DOMAIN epochs
      BY DEF DistP!ClaimableEpochs, DistP!GraceEpochs
    <3> QED
      BY <1>2, <3>1
  <2>2. DistP!Sum(f, ids) = Sum(f, ids)
    BY DEF DistP!Sum, Sum, DistP!Units, Units, DistP!Cardinality, Cardinality
  <2>3. Sum(f, ids) = 0
    BY <2>1, SumZero
  <2> QED
    BY <2>2, <2>3 DEF DistP!Paid
<1>4. dist_balance' = [a \in Assets |-> dist_balance[a] - DistP!Paid(ids, a, 0)]
  BY DEF DistP!Claim
<1>5. dist_balance \in [Assets -> Nat]
  BY DEF DistP!TypeOK
<1>6. \A a \in Assets : dist_balance[a] - DistP!Paid(ids, a, 0) = dist_balance[a]
  BY <1>3, <1>5
<1> QED
  BY <1>4, <1>5, <1>6

(* Nobody is paid who has no bond at that moment, for whatever epochs. *)
THEOREM OnlyBondersArePaid == Spec => PaidOnlyBonders
<1> DEFINE Paid ==
      \A u \in Users :
        last_claimed'[u] # last_claimed[u] =>
          \/ dist_balance' = dist_balance
          \/ \E d \in BondingAssets : bond[<<u, d>>].amount > 0
<1>1. LairP!LairInv /\ DistShape /\ [Next]_vars => [Paid]_vars
  <2> SUFFICES ASSUME LairP!LairInv, DistShape, Next
               PROVE  Paid
    OBVIOUS
  <2>1. CASE last_claimed' = last_claimed
    BY <2>1
  <2>2. ASSUME NEW v \in Users, Claim(v)
        PROVE  Paid
    <3> SUFFICES ASSUME NEW u \in Users, last_claimed'[u] # last_claimed[u],
                        \A d \in BondingAssets : ~(bond[<<u, d>>].amount > 0)
                 PROVE  dist_balance' = dist_balance
      OBVIOUS
    <3>1. Lair!GlobalWeight > 0 /\ DistP!Claim(v, FeeShare(v))
      BY <2>2, SameDist DEF Claim
    <3>2. DistP!TypeOK
      BY DEF DistShape
    <3>3. u = v
      <4>1. last_claimed' = [last_claimed EXCEPT ![v] =
                               DistP!ClaimedUpTo(DistP!ClaimableEpochs(v))]
        BY <3>1 DEF DistP!Claim
      <4>2. DOMAIN last_claimed = Users
        BY <3>2 DEF DistP!TypeOK
      <4> QED
        BY <4>1, <4>2
    <3>4. FeeShare(v) = 0
      BY <3>1, <3>3, NoBondNoShare
    <3>5. DistP!Claim(v, 0)
      BY <3>1, <3>4
    <3> QED
      BY <3>2, <3>5, NoShareNoPay
  <2>3. CASE Tick
    BY <2>1, <2>3 DEF Tick, Dist!Tick, Dist!dist_vars
  <2>4. CASE Lair!LairStep /\ UNCHANGED dist_vars
    BY <2>1, <2>4 DEF dist_vars
  <2>5. CASE (Dist!CreateEpoch \/ Dist!Configure) /\ UNCHANGED lair_vars
    BY <2>1, <2>5 DEF Dist!CreateEpoch, Dist!NewEpoch, Dist!Configure,
                      Dist!UpdateConfig
  <2> QED
    BY <2>2, <2>3, <2>4, <2>5 DEF Next
<1> QED
  BY <1>1, LairInvariant, DistShapeAlways, PTL DEF Spec, PaidOnlyBonders

-----------------------------------------------------------------------------
(* The shares of all users *)

(* The shares of all users at one moment, which are together at most one.   *)
OneEpochEnough ==
  Lair!GlobalWeight > 0 =>
    Sum([u \in Users |-> FeeShare(u)], Users) <= ShareUnit

(* Weights that add up to the global weight make shares that add up to one, *)
(* since each of them is rounded down.                                      *)
LEMMA AgreedShares == LairP!LairInv /\ Lair!WeightsAgree => OneEpochEnough
<1> SUFFICES ASSUME LairP!LairInv, Lair!WeightsAgree, Lair!GlobalWeight > 0
             PROVE  Sum([u \in Users |-> FeeShare(u)], Users) <= ShareUnit
  BY DEF OneEpochEnough
<1> DEFINE g == Lair!GlobalWeight
           lw == [k \in Lair!Accounts |-> Lair!LocalWeight(k)]
           w == [u \in Users |-> Lair!UserWeight(u)]
           f == [u \in Users |-> FeeShare(u)]
           fg == [u \in Users |-> f[u] * g]
           wu == [u \in Users |-> w[u] * ShareUnit]
<1>1. /\ g \in Nat \ {0} /\ ShareUnit \in Nat
      /\ \A k \in Users \X BondingAssets : lw[k] \in Nat
      /\ \A u \in Users : w[u] \in Nat /\ f[u] \in Nat
  <2>1. g \in Nat /\ g > 0
    <3>1. LairP!LairAssumption /\ LairP!TypeOK
      BY LairAssumed DEF LairP!LairInv
    <3>2. LairP!GlobalWeight \in Nat
      BY <3>1, LairP!WeightsNat
    <3>3. g = LairP!GlobalWeight
      BY DEF Lair!GlobalWeight, LairP!GlobalWeight, Lair!GetWeight,
             LairP!GetWeight, Lair!Seconds, LairP!Seconds
    <3> QED
      BY <3>2, <3>3
  <2>2. \A u \in Users : w[u] \in Nat /\ f[u] \in Nat
    BY FeeShareNat
  <2>3. \A k \in Users \X BondingAssets : lw[k] \in Nat
    <3> TAKE k \in Users \X BondingAssets
    <3>1. PICK u \in Users : TRUE
      OBVIOUS
    <3>2. k \in Lair!Accounts
      BY DEF Lair!Accounts
    <3>3. Lair!LocalWeight(k) \in Nat
      BY <3>1, <3>2, FeeShareNat
    <3> QED
      BY <3>2, <3>3
  <2> QED
    BY <2>1, <2>2, <2>3, HubAssumption, SMTT(30)
<1>2. Sum(w, Users) = g
  <2> DEFINE all == Users \X BondingAssets
             part == [u \in Users |-> {u} \X BondingAssets]
  <2>1. \A u \in Users : w[u] = Sum(lw, part[u])
    BY SameSums DEF Lair!UserWeight
  <2>2. Lair!Accounts = Users \X BondingAssets
    BY DEF Lair!Accounts
  <2>3. g = Sum(lw, all)
    BY <2>2, SameSums DEF Lair!WeightsAgree
  <2>4. IsFiniteSet(Users) /\ IsFiniteSet(all)
    BY HubAssumption, FS_Product
  <2>5. \A k \in all : lw[k] \in Nat
    BY <1>1
  <2>6. /\ \A k \in all : \E u \in Users : k \in part[u]
        /\ \A u \in Users : part[u] \subseteq all
        /\ \A u, v \in Users : u # v => part[u] \cap part[v] = {}
    OBVIOUS
  <2> HIDE DEF g, lw, w, f, all, part
  <2>7. Sum(w, Users) = Sum(lw, all)
    BY <2>1, <2>4, <2>5, <2>6, SumPartition
  <2> QED
    BY <2>3, <2>7
<1>3. \A u \in Users : f[u] * g <= w[u] * ShareUnit
  <2> TAKE u \in Users
  <2>1. f[u] = (w[u] * ShareUnit) \div g
    BY DEF FeeShare
  <2>2. w[u] * ShareUnit \in Nat
    BY <1>1, ProductNat
  <2> HIDE DEF g, f, w
  <2>3. g * f[u] <= w[u] * ShareUnit
    BY <1>1, <2>1, <2>2, Quotient
  <2>4. g * f[u] = f[u] * g
    BY <1>1
  <2> QED
    BY <2>3, <2>4
<1> HIDE DEF g, f, w
<1>4. \A u \in Users : /\ fg[u] \in Nat /\ wu[u] \in Nat
                       /\ fg[u] <= wu[u]
  BY <1>1, <1>3, ProductNat
<1>5. Sum(fg, Users) = Sum(f, Users) * g
  BY <1>1, HubAssumption, SumScale
<1>6. Sum(wu, Users) = Sum(w, Users) * ShareUnit
  BY <1>1, HubAssumption, SumScale
<1> HIDE DEF fg, wu
<1>7. Sum(fg, Users) <= Sum(wu, Users)
  BY <1>4, HubAssumption, SumMono
<1>8. Sum(f, Users) \in Nat
  BY <1>1, HubAssumption, SumNat
<1>9. Sum(f, Users) * g <= ShareUnit * g
  <2>1. g * ShareUnit = ShareUnit * g
    BY <1>1
  <2> QED
    BY <1>2, <1>5, <1>6, <1>7, <2>1
<1>10. Sum(f, Users) <= ShareUnit
  BY <1>1, <1>8, <1>9, ProductCancel
<1> QED
  BY <1>10 DEF f

(* With a growth rate that needs no rounding the weights always add up, and *)
(* so do the shares: one epoch is enough for all who claim it at once.      *)
THEOREM OneEpochForAll ==
  ASSUME NEW CONSTANT n \in {0, 1}
  PROVE  Spec /\ [](lair_config.growth_rate = n * RateUnit)
           => []OneEpochEnough
<1>1. LairP!LairAssumption
  BY LairAssumed
<1>2. LairP!Spec /\ [](lair_config.growth_rate = n * RateUnit)
        => []LairP!WeightsAgree
  BY <1>1, LairP!WeightsStayInAgreement, PTL
<1>3. LairP!WeightsAgree => Lair!WeightsAgree
  BY DEF LairP!WeightsAgree, Lair!WeightsAgree, LairP!GlobalWeight,
         Lair!GlobalWeight, LairP!LocalWeight, Lair!LocalWeight,
         LairP!GetWeight, Lair!GetWeight, LairP!Seconds, Lair!Seconds,
         LairP!Accounts, Lair!Accounts, LairP!Sum, Lair!Sum, LairP!Units,
         Lair!Units, LairP!Cardinality, Lair!Cardinality
<1>4. LairP!LairInv /\ Lair!WeightsAgree => OneEpochEnough
  BY AgreedShares
<1> QED
  BY <1>2, <1>3, <1>4, LairAlone, LairInvariant, PTL
=============================================================================

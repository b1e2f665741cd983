---------------------------- MODULE LiquidityHub ----------------------------
(***************************************************************************)
(* The bonding contract and the fee distributor together: a claim is paid   *)
(* by the share the bonding contract reports at the moment of the claim,    *)
(* while bonds come and go between a new epoch and its claims.              *)
(***************************************************************************)
EXTENDS Integers, Sequences, FiniteSets, Sums

CONSTANTS
  Users, Admins,                    \* of both contracts
  BondingAssets, GrowthRates, RateUnit, UnbondingPeriods, TicksPerSecond,
  PageLimit, Funds,                 \* of the bonding contract
  Assets, NoAsset, FeeAmounts, ShareUnit, GracePeriods, Duration, Genesis,
                                    \* of the fee distributor
  StartTime, MaxTime                \* of the chain

(* What the two contracts assume of their parameters, and the chain of its  *)
(* clock.                                                                   *)
ASSUME HubAssumption ==
  /\ IsFiniteSet(Users)
  /\ IsFiniteSet(BondingAssets)
  /\ Cardinality(BondingAssets) \in 1..2      \* BONDING_ASSETS_LIMIT
  /\ RateUnit \in Nat \ {0}
  /\ GrowthRates \subseteq Nat
  /\ UnbondingPeriods \subseteq Nat
  /\ TicksPerSecond \in Nat \ {0}
  /\ PageLimit \in Nat \ {0}
  /\ Funds \in [Users \X BondingAssets -> Nat]
  /\ NoAsset \notin Assets
  /\ FeeAmounts \subseteq Nat
  /\ ShareUnit \in Nat \ {0}
  /\ GracePeriods \subseteq Nat
  /\ Duration \in Nat \ {0}
  /\ Genesis \in Nat
  /\ StartTime \in Nat
  /\ MaxTime \in Nat

VARIABLES
  time,
  lair_config, bond, unbond, global, lair_balance, wallet,
  dist_config, epochs, last_claimed, dist_balance

Lair == INSTANCE WhaleLair

(* Seen from the distributor, no share is ever larger than one. *)
Dist == INSTANCE FeeDistributor WITH Shares <- 0..ShareUnit

lair_vars == <<lair_config, bond, unbond, global, lair_balance, wallet>>
dist_vars == <<dist_config, epochs, last_claimed, dist_balance>>
vars == <<time, lair_vars, dist_vars>>

-----------------------------------------------------------------------------
(* The share query_weight reports: Decimal::from_ratio of the weights.      *)
FeeShare(u) == (Lair!UserWeight(u) * ShareUnit) \div Lair!GlobalWeight

Init == Lair!Init /\ Dist!Init

Tick == Lair!Tick /\ Dist!Tick

(* Claim: the share is queried first; the ratio panics while nobody has any *)
(* weight.                                                                  *)
Claim(u) ==
  /\ Lair!GlobalWeight > 0
  /\ Dist!Claim(u, FeeShare(u))
  /\ UNCHANGED lair_vars

Next ==
  \/ Tick
  \/ Lair!LairStep /\ UNCHANGED dist_vars
  \/ (Dist!CreateEpoch \/ Dist!Configure) /\ UNCHANGED lair_vars
  \/ \E u \in Users : Claim(u)

Spec == Init /\ [][Next]_vars

-----------------------------------------------------------------------------
(* Properties *)

(* The distributor behaves as it does alone with shares between zero and    *)
(* one.  A change of the growth rate counts for the time before it and can  *)
(* leave a user with more weight than the global index has, and a share     *)
(* above one: no claim is ever paid by it.                                  *)
DistributorSpec == Dist!Spec

(* Whoever has unbonded everything is paid nothing, for epochs from before  *)
(* the unbonding too.                                                       *)
PaidOnlyBonders ==
  [][\A u \in Users :
       last_claimed'[u] # last_claimed[u] =>
         \/ dist_balance' = dist_balance
         \/ \E d \in BondingAssets : bond[<<u, d>>].amount > 0]_vars

(* An epoch that the Claimable query returns for a user with a share can be *)
(* claimed by that user.                                                    *)
ClaimableCanBeClaimed ==
  \A u \in Users :
    (Lair!GlobalWeight > 0 /\ FeeShare(u) > 0) =>
      \A i \in Dist!ClaimableEpochs(u) :
        \A a \in DOMAIN epochs[i].total : Dist!Sound(i, a, FeeShare(u))
=============================================================================

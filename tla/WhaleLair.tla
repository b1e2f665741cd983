------------------------------ MODULE WhaleLair ------------------------------
(***************************************************************************)
(* The bonding contract (contracts/liquidity_hub/whale_lair): users bond    *)
(* whitelisted coins, earn weight over time, unbond, and withdraw once the  *)
(* unbonding period is over.  A transaction that fails is reverted by the   *)
(* chain and is therefore no step; its error paths are the guards.          *)
(*                                                                          *)
(* Time is counted in ticks, TicksPerSecond to a second: weights and the    *)
(* keys of the UNBOND map use whole seconds, maturity the exact time.       *)
(***************************************************************************)
EXTENDS Integers, FiniteSets, Sums

CONSTANTS
  Users,             \* bonders
  Admins,            \* addresses that may become the owner
  BondingAssets,     \* the bonding_assets whitelist, fixed at instantiation
  GrowthRates,       \* growth rates the owner uses, in units of 1/RateUnit
  RateUnit,          \* the atomics of Decimal::one()
  UnbondingPeriods,  \* unbonding periods the owner uses, in ticks
  TicksPerSecond,    \* ticks to a second
  PageLimit,         \* MAX_PAGE_LIMIT: unbondings one withdrawal looks at
  StartTime,         \* block time of the instantiation
  MaxTime,           \* bound on the block time
  Funds              \* bound on the coins: what each account holds at first

ASSUME LairAssumption ==
  /\ IsFiniteSet(Users)
  /\ IsFiniteSet(BondingAssets)
  /\ Cardinality(BondingAssets) \in 1..2      \* BONDING_ASSETS_LIMIT
  /\ RateUnit \in Nat \ {0}
  /\ GrowthRates \subseteq Nat
  /\ UnbondingPeriods \subseteq Nat
  /\ TicksPerSecond \in Nat \ {0}
  /\ PageLimit \in Nat \ {0}
  /\ StartTime \in Nat
  /\ MaxTime \in Nat
  /\ Funds \in [Users \X BondingAssets -> Nat]

VARIABLES
  time,          \* block time
  lair_config,   \* CONFIG: owner, unbonding_period, growth_rate
  bond,          \* BOND: (address, denom) -> amount, weight, timestamp
  unbond,        \* UNBOND: (address, denom, second) -> amount, timestamp
  global,        \* GLOBAL: bonded_amount, bonded_assets, weight, timestamp
  lair_balance,  \* the contract's coins in the bank
  wallet         \* the users' coins in the bank

lair_vars == <<lair_config, bond, unbond, global, lair_balance, wallet>>

Accounts == Users \X BondingAssets
Seconds(t) == t \div TicksPerSecond

-----------------------------------------------------------------------------
(* Weights *)

(* get_weight: what a weight has grown to at time t. *)
GetWeight(t, weight, amount, rate, since) ==
  weight + (amount * (Seconds(t) - Seconds(since)) * rate) \div RateUnit

(* The weight update_local_weight stores for an account. *)
LocalWeight(k) ==
  GetWeight(time, bond[k].weight, bond[k].amount, lair_config.growth_rate,
            bond[k].timestamp)

(* The weight update_global_weight stores in the global index. *)
GlobalWeight ==
  GetWeight(time, global.weight, global.bonded_amount,
            lair_config.growth_rate, global.timestamp)

(* query_weight: the weight of all the bonds of an address. *)
UserWeight(u) ==
  Sum([k \in Accounts |-> LocalWeight(k)], {u} \X BondingAssets)

(* The global index after delta coins of d join (or, below zero, leave) and  *)
(* slash is taken from its weight, which is brought up to date first.       *)
GlobalIndexNoAssets(d, delta, slash) ==                          \* mutant
  [bonded_amount |-> global.bonded_amount + delta,
   bonded_assets |-> global.bonded_assets,
   weight |-> GlobalWeight - slash, timestamp |-> time]
GlobalIndexAmountFirst(d, delta, slash) ==                       \* mutant
  [bonded_amount |-> global.bonded_amount + delta,
   bonded_assets |-> [global.bonded_assets EXCEPT ![d] = @ + delta],
   weight |-> GetWeight(time, global.weight, global.bonded_amount + delta,
                        lair_config.growth_rate, global.timestamp) - slash,
   timestamp |-> time]
GlobalIndex(d, delta, slash) ==
  [bonded_amount |-> global.bonded_amount + delta,
   bonded_assets |-> [global.bonded_assets EXCEPT ![d] = @ + delta],
   weight |-> GlobalWeight - slash, timestamp |-> time]

-----------------------------------------------------------------------------
(* Execute messages *)

Init ==
  /\ time = StartTime
  /\ lair_config \in [owner : Admins, unbonding_period : UnbondingPeriods,
                      growth_rate : {r \in GrowthRates : r <= RateUnit}]
  /\ bond = [k \in Accounts |-> [amount |-> 0, weight |-> 0, timestamp |-> 0]]
  /\ unbond = [k \in {} |-> 0]
  /\ global = [bonded_amount |-> 0, weight |-> 0, timestamp |-> 0,
               bonded_assets |-> [d \in BondingAssets |-> 0]]
  /\ lair_balance = [d \in BondingAssets |-> 0]
  /\ wallet = Funds

(* The chain's clock. *)
Tick ==
  /\ time < MaxTime
  /\ time' = time + 1
  /\ UNCHANGED lair_vars

(* Bond: the coins arrive with the message; weights are brought up to date  *)
(* before the amounts grow.                                                 *)
Bond(u, d, amount) ==
  LET k == <<u, d>> IN
  /\ amount \in 1..wallet[k]
  /\ bond' = [bond EXCEPT ![k] = [amount |-> bond[k].amount + amount,
                                  weight |-> LocalWeight(k),
                                  timestamp |-> time]]
  /\ global' = GlobalIndex(d, amount, 0)
  /\ wallet' = [wallet EXCEPT ![k] = @ - amount]
  /\ lair_balance' = [lair_balance EXCEPT ![d] = @ + amount]
  /\ UNCHANGED <<time, lair_config, unbond>>

(* The weight an unbonding takes away: the quotient of the amounts is an    *)
(* integer, so only unbonding the whole bond takes any.                     *)
WeightSlashNone(k, amount) == 0                                  \* mutant
WeightSlashUndivided(k, amount) == LocalWeight(k) * amount       \* mutant
WeightSlash(k, amount) == LocalWeight(k) * (amount \div bond[k].amount)

(* Unbond: refused when the global index cannot give up what it must.  The  *)
(* request is stored under the current second, replacing one already there. *)
Unbond(u, d, amount) ==
  LET k == <<u, d>>
      slash == WeightSlash(k, amount) IN
  /\ amount \in 1..bond[k].amount
  /\ amount <= global.bonded_amount
  /\ amount <= global.bonded_assets[d]
  /\ slash <= GlobalWeight
  /\ bond' = [bond EXCEPT ![k] = [amount |-> bond[k].amount - amount,
                                  weight |-> LocalWeight(k) - slash,
                                  timestamp |-> time]]
  /\ unbond' = Put(unbond, <<u, d, Seconds(time)>>,
                   [amount |-> amount, timestamp |-> time])
  /\ global' = GlobalIndex(d, -amount, slash)
  /\ UNCHANGED <<time, lair_config, lair_balance, wallet>>

(* The unbonding requests of an account, and the oldest PageLimit of them.  *)
Requests(u, d) == {k \in DOMAIN unbond : k[1] = u /\ k[2] = d}
FirstPageNewest(u, d) ==                                         \* mutant
  {k \in Requests(u, d) :
     Cardinality({j \in Requests(u, d) : j[3] > k[3]}) < PageLimit}
FirstPage(u, d) ==
  {k \in Requests(u, d) :
     Cardinality({j \in Requests(u, d) : j[3] < k[3]}) < PageLimit}

(* The requests a withdrawal pays: those past the unbonding period. *)
Matured(u, d) ==
  {k \in FirstPage(u, d) :
     time - lair_config.unbonding_period >= unbond[k].timestamp}

UnbondAmount == [k \in DOMAIN unbond |-> unbond[k].amount]

(* UNBOND once the paid requests are removed. *)
RemainingAll(u, d) == unbond                                     \* mutant
Remaining(u, d) == Drop(unbond, Matured(u, d))

(* Withdraw: a bank message with a zero amount fails, so the call is        *)
(* refused unless something is refunded; minus_nanos panics below zero.     *)
Withdraw(u, d) ==
  LET refund == Sum(UnbondAmount, Matured(u, d)) IN
  /\ time >= lair_config.unbonding_period
  /\ refund > 0
  /\ refund <= lair_balance[d]
  /\ unbond' = Remaining(u, d)
  /\ wallet' = [wallet EXCEPT ![<<u, d>>] = @ + refund]
  /\ lair_balance' = [lair_balance EXCEPT ![d] = @ - refund]
  /\ UNCHANGED <<time, lair_config, bond, global>>

(* UpdateConfig: by the owner; the new values take effect at once, for the  *)
(* time before the change too.                                              *)
UpdateConfig(sender, owner, period, rate) ==
  /\ sender = lair_config.owner
  /\ rate <= RateUnit                          \* validate_growth_rate
  /\ lair_config' = [owner |-> owner, unbonding_period |-> period,
                     growth_rate |-> rate]
  /\ UNCHANGED <<time, bond, unbond, global, lair_balance, wallet>>

-----------------------------------------------------------------------------
LairStep ==
  \/ \E u \in Users, d \in BondingAssets :
       \/ \E amount \in 1..wallet[<<u, d>>] : Bond(u, d, amount)
       \/ \E amount \in 1..bond[<<u, d>>].amount : Unbond(u, d, amount)
       \/ Withdraw(u, d)
  \/ \E sender, owner \in Admins, period \in UnbondingPeriods,
        rate \in GrowthRates : UpdateConfig(sender, owner, period, rate)

Next == Tick \/ LairStep

vars == <<time, lair_vars>>

Spec == Init /\ [][Next]_vars

(* Blocks keep coming, and a user with a matured request keeps asking. *)
FairSpec ==
  /\ Spec
  /\ WF_vars(Tick)
  /\ \A u \in Users, d \in BondingAssets : WF_vars(Withdraw(u, d))

-----------------------------------------------------------------------------
(* Properties *)

(* The shape of the state of CONFIG, BOND, UNBOND, GLOBAL and the bank. *)
TypeOK ==
  /\ time \in Nat
  /\ lair_config \in [owner : Admins, unbonding_period : Nat,
                      growth_rate : 0..RateUnit]
  /\ bond \in [Accounts -> [amount : Nat, weight : Nat, timestamp : 0..time]]
  /\ IsFiniteSet(DOMAIN unbond)
  /\ DOMAIN unbond \subseteq Users \X BondingAssets \X Nat
  /\ unbond \in [DOMAIN unbond -> [amount : Nat, timestamp : 0..time]]
  /\ global \in [bonded_amount : Nat, weight : Nat, timestamp : 0..time,
                 bonded_assets : [BondingAssets -> Nat]]
  /\ lair_balance \in [BondingAssets -> Nat]
  /\ wallet \in [Accounts -> Nat]

BondAmount == [k \in Accounts |-> bond[k].amount]
AccountsOf(d) == Users \X {d}
RequestsOf(d) == {k \in DOMAIN unbond : k[2] = d}

(* The global index counts exactly the bonds of all users, per asset and    *)
(* over all assets, whatever the order of bonds and unbonds.                *)
GlobalMatchesBonds ==
  /\ \A d \in BondingAssets :
       global.bonded_assets[d] = Sum(BondAmount, AccountsOf(d))
  /\ global.bonded_amount = Sum(BondAmount, Accounts)

(* The contract always holds the coins of every bond and of every pending   *)
(* unbonding request: no withdrawal can ever be paid with the bonds of      *)
(* someone else.                                                            *)
Solvent ==
  \A d \in BondingAssets :
    lair_balance[d] >= Sum(BondAmount, AccountsOf(d))
                         + Sum(UnbondAmount, RequestsOf(d))

(* A user whose bonds are all gone has no weight left to claim fees with,   *)
(* although partial unbondings take no weight away.                         *)
NoWeightWithoutBond ==
  \A k \in Accounts : bond[k].amount = 0 => bond[k].weight = 0

(* The global weight is the sum of the local ones at every moment, although *)
(* each is brought up to date at different times: the shares of all bonders *)
(* add up to one.  (Under one growth rate that needs no rounding.)          *)
WeightsAgree ==
  GlobalWeight = Sum([k \in Accounts |-> LocalWeight(k)], Accounts)

(* What an account has, in its wallet, its bond and its requests. *)
Holdings(k) ==
  wallet[k] + bond[k].amount + Sum(UnbondAmount, Requests(k[1], k[2]))

(* No call changes what anyone has, with one exception: an unbonding in a   *)
(* second in which the same account has already unbonded.                   *)
OnlyCollisionsLose ==
  [][\A k \in Accounts :
       \/ Holdings(k)' = Holdings(k)
       \/ /\ <<k[1], k[2], Seconds(time)>> \in DOMAIN unbond
          /\ bond'[k].amount < bond[k].amount
          /\ Holdings(k)' < Holdings(k)]_vars

(* Coins handed over to the contract are never lost to their owner: what    *)
(* the Unbonding query and Withdraw promise of every unbonded amount.       *)
NothingLost == \A k \in Accounts : Holdings(k) = Funds[k]

LastPeriod == CHOOSE p \in UnbondingPeriods : \A q \in UnbondingPeriods : q <= p

(* Every request that matures within the time considered is eventually      *)
(* paid, however many younger requests pile up behind the page limit.       *)
RequestsArePaid ==
  \A u \in Users, d \in BondingAssets, s \in 0..Seconds(MaxTime) :
    (/\ <<u, d, s>> \in DOMAIN unbond
     /\ (s + 1) * TicksPerSecond + LastPeriod <= MaxTime)
      ~> <<u, d, s>> \notin DOMAIN unbond
=============================================================================

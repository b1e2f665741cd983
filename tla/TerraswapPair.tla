---------------------------- MODULE TerraswapPair ----------------------------
(***************************************************************************)
(* A constant product pool                                                  *)
(* (contracts/liquidity_hub/pool-network/terraswap_pair): users provide two *)
(* assets for shares of the pool, traders swap one asset for the other, and *)
(* each swap leaves fees to the pool, to the protocol and to nobody.  A     *)
(* transaction that fails is reverted by the chain and is therefore no      *)
(* step; its error paths are the guards.                                    *)
(***************************************************************************)
EXTENDS Integers, FiniteSets, Sums

CONSTANTS
  Users,         \* providers and traders
  Pair,          \* the address of the pool, which holds shares of its own
  Admins,        \* addresses that may become the owner
  Toggles,       \* settings of the feature toggle the owner uses
  Fees,          \* pool fees the owner uses, in units of 1/Unit
  Unit,          \* the atomics of Decimal::one()
  NoLimit,       \* stands for a limit that a caller leaves out
  Slippages,     \* slippage tolerances callers ask for, in units of 1/Unit
  Spreads,       \* maximum spreads callers ask for, in units of 1/Unit
  Beliefs,       \* prices callers believe in, in units of 1/Unit
  MinLiquidity,  \* MINIMUM_LIQUIDITY_AMOUNT
  FactoryLp,     \* the liquidity token is a token factory token, not a cw20
  FactoryAsset,  \* an asset of the pool is a token factory token
  Funds          \* what each user holds of each asset at first

Assets == 1..2                             \* positions in asset_infos
Other(a) == 3 - a

ASSUME PairAssumption ==
  /\ IsFiniteSet(Users)
  /\ Pair \notin Users
  /\ Toggles \subseteq [deposits : BOOLEAN, withdrawals : BOOLEAN, swaps : BOOLEAN]
  /\ Fees \subseteq [protocol : Nat, swap : Nat, burn : Nat]
  /\ Unit \in Nat \ {0}
  /\ Slippages \subseteq Nat /\ Spreads \subseteq Nat /\ Beliefs \subseteq Nat \ {0}
  /\ MinLiquidity \in Nat \ {0}
  /\ FactoryLp \in BOOLEAN /\ FactoryAsset \in BOOLEAN
  /\ Funds \in [Users \X (1..2) -> Nat]

VARIABLES
  pair_config,    \* CONFIG: owner, pool_fees, feature_toggle
  collected,      \* COLLECTED_PROTOCOL_FEES
  all_time,       \* ALL_TIME_COLLECTED_PROTOCOL_FEES
  burned,         \* ALL_TIME_BURNED_FEES
  pair_balance,   \* the pool's coins
  lp,             \* the balances of the liquidity token
  wallet,         \* the users' coins
  fee_collector   \* what the fee collector has been sent

books == <<collected, all_time, burned>>
vars == <<pair_config, books, pair_balance, lp, wallet, fee_collector>>

-----------------------------------------------------------------------------
Holders == Users \cup {Pair}

(* get_total_share *)
TotalShare == Sum(lp, Holders)

(* What is traded and shared: the balance without the protocol's fees.      *)
PoolWithFees(a) == pair_balance[a]                               \* mutant
Pool(a) == pair_balance[a] - collected[a]

(* Decimal::from_ratio, and the product of an amount and a Decimal. *)
Ratio(x, y) == (x * Unit) \div y
Times(x, r) == (x * r) \div Unit

(* PoolFee::is_valid; pools of token factory assets burn nothing. *)
ValidFeesEach(f) ==                                              \* mutant
  f.protocol < Unit /\ f.swap < Unit /\ f.burn < Unit
ValidFees(f) ==
  /\ f.protocol + f.swap + f.burn < Unit
  /\ FactoryAsset => f.burn = 0

NoFees == [a \in Assets |-> 0]

Init ==
  /\ pair_config \in [owner : Admins, pool_fees : {f \in Fees : ValidFees(f)},
                      feature_toggle : {[deposits |-> TRUE, withdrawals |-> TRUE,
                                         swaps |-> TRUE]}]
  /\ collected = NoFees /\ all_time = NoFees /\ burned = NoFees
  /\ pair_balance = NoFees /\ fee_collector = NoFees
  /\ lp = [h \in Holders |-> 0]
  /\ wallet = Funds

-----------------------------------------------------------------------------
(* Liquidity *)

(* integer_sqrt *)
IntegerSqrt(n) == CHOOSE r \in 0..n : r * r <= n /\ n < (r + 1) * (r + 1)

(* The shares of a deposit once there are any: the smaller of the two       *)
(* proportions.                                                             *)
ProportionOfFirst(deposit) == (deposit[1] * TotalShare) \div Pool(1)  \* mutant
Proportion(deposit) ==
  LET share(a) == (deposit[a] * TotalShare) \div Pool(a) IN
  IF share(1) <= share(2) THEN share(1) ELSE share(2)

(* assert_slippage_tolerance: neither price of the deposit is above the     *)
(* pool's by more than the tolerance.                                       *)
WithinSlippage(deposit, tolerance) ==
  tolerance # NoLimit =>
    /\ tolerance <= Unit
    /\ \A a \in Assets :
         Times(Ratio(deposit[a], deposit[Other(a)]), Unit - tolerance)
           <= Ratio(Pool(a), Pool(Other(a)))

(* What the pool itself is given with the first deposit, for good. *)
LockedNone == 0                                                  \* mutant
Locked == IF TotalShare = 0 THEN MinLiquidity ELSE 0

(* provide_liquidity: the receiver may be someone else. *)
ProvideLiquidity(u, receiver, deposit, tolerance) ==
  LET share == IF TotalShare = 0
               THEN IntegerSqrt(deposit[1] * deposit[2]) - MinLiquidity
               ELSE Proportion(deposit) IN
  /\ pair_config.feature_toggle.deposits
  /\ \A a \in Assets : deposit[a] \in 1..wallet[<<u, a>>] /\ Pool(a) >= 0
  /\ TotalShare # 0 =>
       (\A a \in Assets : Pool(a) > 0) /\ WithinSlippage(deposit, tolerance)
  /\ share > 0
  /\ lp' = [[lp EXCEPT ![receiver] = @ + share] EXCEPT ![Pair] = @ + Locked]
  /\ wallet' = [k \in DOMAIN wallet |->
                  IF k[1] = u THEN wallet[k] - deposit[k[2]] ELSE wallet[k]]
  /\ pair_balance' = [a \in Assets |-> pair_balance[a] + deposit[a]]
  /\ UNCHANGED <<pair_config, books, fee_collector>>

(* What shares are worth of an asset, rounded down twice. *)
Refund(a, amount) == Times(Pool(a), Ratio(amount, TotalShare))

(* WithdrawLiquidity reads the toggle only where it arrives with a cw20.    *)
WithdrawAllowed == FactoryLp \/ pair_config.feature_toggle.withdrawals

(* withdraw_liquidity: sending nothing of an asset fails. *)
WithdrawLiquidity(u, amount) ==
  /\ WithdrawAllowed
  /\ amount \in 1..lp[u]
  /\ \A a \in Assets : Pool(a) >= 0 /\ Refund(a, amount) > 0
  /\ lp' = [lp EXCEPT ![u] = @ - amount]
  /\ wallet' = [k \in DOMAIN wallet |->
                  IF k[1] = u THEN wallet[k] + Refund(k[2], amount) ELSE wallet[k]]
  /\ pair_balance' = [a \in Assets |-> pair_balance[a] - Refund(a, amount)]
  /\ UNCHANGED <<pair_config, books, fee_collector>>

-----------------------------------------------------------------------------
(* Swaps *)

(* compute_swap, for an offer of asset a: what the curve returns, and the   *)
(* spread, what the offer would be worth at the pool's price beyond that.   *)
Gross(a, offer) == (Pool(Other(a)) * offer) \div (Pool(a) + offer)
SpreadAfter(a, offer) ==                                         \* mutant
  Times(offer, Ratio(Pool(Other(a)), Pool(a) + offer)) - Gross(a, offer)
Spread(a, offer) ==
  Times(offer, Ratio(Pool(Other(a)), Pool(a))) - Gross(a, offer)

(* The fees of a return, and what is left of it for the receiver. *)
FeesOf(gross) ==
  [f \in {"protocol", "swap", "burn"} |-> Times(gross, pair_config.pool_fees[f])]
Return(gross) ==
  gross - FeesOf(gross).swap - FeesOf(gross).protocol - FeesOf(gross).burn

(* assert_max_spread: against the price believed in or, without one, the    *)
(* pool's.  Dividing by zero panics.                                        *)
WithinSpread(offer, return, spread, belief, limit) ==
  limit # NoLimit =>
    IF belief # NoLimit
    THEN LET expected == Times(offer, Ratio(Unit, belief)) IN
         return < expected => Ratio(expected - return, expected) <= limit
    ELSE /\ return + spread > 0
         /\ Ratio(spread, return + spread) <= limit

(* swap: an empty return is not sent, an empty burn not made. *)
Swap(u, receiver, a, offer, belief, limit) ==
  LET ask == Other(a)
      gross == Gross(a, offer)
      fees == FeesOf(gross)
      return == Return(gross) IN
  /\ pair_config.feature_toggle.swaps
  /\ offer \in 1..wallet[<<u, a>>]
  /\ Pool(a) > 0 /\ Pool(ask) >= 0
  /\ Spread(a, offer) >= 0                    \* the subtraction panics below
  /\ WithinSpread(offer, return, Spread(a, offer), belief, limit)
  /\ pair_balance' = [pair_balance EXCEPT ![a] = @ + offer,
                                          ![ask] = @ - return - fees.burn]
  /\ wallet' = [k \in DOMAIN wallet |->
                  wallet[k] - (IF k = <<u, a>> THEN offer ELSE 0)
                            + (IF k = <<receiver, ask>> THEN return ELSE 0)]
  /\ collected' = [collected EXCEPT ![ask] = @ + fees.protocol]
  /\ all_time' = [all_time EXCEPT ![ask] = @ + fees.protocol]
  /\ burned' = [burned EXCEPT ![ask] = @ + fees.burn]
  /\ UNCHANGED <<pair_config, lp, fee_collector>>

(* Coins sent to the pool without a message. *)
Transfer(u, a, amount) ==
  /\ amount \in 1..wallet[<<u, a>>]
  /\ wallet' = [wallet EXCEPT ![<<u, a>>] = @ - amount]
  /\ pair_balance' = [pair_balance EXCEPT ![a] = @ + amount]
  /\ UNCHANGED <<pair_config, books, lp, fee_collector>>

-----------------------------------------------------------------------------
(* COLLECTED_PROTOCOL_FEES once they have been sent: both start again.      *)
CollectedFirstKept == [collected EXCEPT ![2] = 0]                \* mutant
CollectedAfter == NoFees

(* collect_protocol_fees: by anyone. *)
CollectProtocolFees ==
  /\ \A a \in Assets : collected[a] <= pair_balance[a]
  /\ collected' = CollectedAfter
  /\ pair_balance' = [a \in Assets |-> pair_balance[a] - collected[a]]
  /\ fee_collector' = [a \in Assets |-> fee_collector[a] + collected[a]]
  /\ UNCHANGED <<pair_config, all_time, burned, lp, wallet>>

(* update_config: by the owner. *)
UpdateConfig(sender, owner, fees, toggle) ==
  /\ sender = pair_config.owner
  /\ ValidFees(fees)
  /\ pair_config' = [owner |-> owner, pool_fees |-> fees, feature_toggle |-> toggle]
  /\ UNCHANGED <<books, pair_balance, lp, wallet, fee_collector>>

Next ==
  \/ \E u, receiver \in Users :
       \/ \E x \in 1..wallet[<<u, 1>>], y \in 1..wallet[<<u, 2>>],
             tolerance \in Slippages \cup {NoLimit} :
            ProvideLiquidity(u, receiver, <<x, y>>, tolerance)
       \/ \E a \in Assets : \E offer \in 1..wallet[<<u, a>>] :
            \E belief \in Beliefs \cup {NoLimit}, limit \in Spreads \cup {NoLimit} :
              Swap(u, receiver, a, offer, belief, limit)
  \/ \E u \in Users, a \in Assets : \E amount \in 1..wallet[<<u, a>>] :
       Transfer(u, a, amount)
  \/ \E u \in Users : \E amount \in 1..lp[u] : WithdrawLiquidity(u, amount)
  \/ CollectProtocolFees
  \/ \E sender, owner \in Admins, fees \in Fees, toggle \in Toggles :
       UpdateConfig(sender, owner, fees, toggle)

Spec == Init /\ [][Next]_vars

-----------------------------------------------------------------------------
(* Properties *)

(* The shape of the state: no balance is ever driven below zero, and no     *)
(* swap owes more in fees than it returns.                                  *)
TypeOK ==
  /\ pair_config.owner \in Admins
  /\ pair_config.pool_fees \in Fees
  /\ pair_config.pool_fees.protocol + pair_config.pool_fees.swap
       + pair_config.pool_fees.burn < Unit
  /\ pair_config.feature_toggle \in
       [deposits : BOOLEAN, withdrawals : BOOLEAN, swaps : BOOLEAN]
  /\ collected \in [Assets -> Nat] /\ all_time \in [Assets -> Nat]
  /\ burned \in [Assets -> Nat]
  /\ pair_balance \in [Assets -> Nat] /\ fee_collector \in [Assets -> Nat]
  /\ lp \in [Holders -> Nat]
  /\ wallet \in [Users \X Assets -> Nat]

(* The protocol's fees are always there to be collected, whatever swaps,    *)
(* withdrawals and deposits have done with the pool they are kept in.       *)
FeesSetAside == \A a \in Assets : collected[a] <= pair_balance[a]

(* Every protocol fee ever recorded is still in the books or has been sent  *)
(* to the fee collector, once.                                              *)
FeesForwardedOnce ==
  \A a \in Assets : all_time[a] = collected[a] + fee_collector[a]

(* A pool that has both assets always keeps some of both, so that there is  *)
(* a price: neither withdrawals nor swaps can empty it.                     *)
PoolStaysOpen ==
  [][(\A a \in Assets : Pool(a) > 0) => (\A a \in Assets : Pool(a)' > 0)]_vars

(* No call makes a share worth less: the product of the pool's amounts for  *)
(* the square of a share never falls, not by rounding either.               *)
LiquidityKept ==
  [][TotalShare > 0 =>
       Pool(1)' * Pool(2)' * TotalShare * TotalShare
         >= Pool(1) * Pool(2) * TotalShare' * TotalShare']_vars

(* In a pool with both assets every offer has a spread, so that swaps are   *)
(* not refused by its subtraction: it is above zero in spite of rounding    *)
(* while the pools are not larger than the precision of a Decimal.          *)
SpreadDefined ==
  (\A a \in Assets : Pool(a) \in 1..Unit) =>
    \A k \in Users \X Assets : \A offer \in 1..wallet[k] : Spread(k[2], offer) >= 0

(* With withdrawals disabled nobody withdraws.                              *)
NoWithdrawalWhileDisabled ==
  [][~pair_config.feature_toggle.withdrawals =>
       \A u \in Users : lp'[u] >= lp[u]]_vars
=============================================================================

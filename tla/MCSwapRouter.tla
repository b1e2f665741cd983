----------------------------- MODULE MCSwapRouter -----------------------------
(* Instances of the router for TLC.                                          *)
EXTENDS SwapRouter

CONSTANTS alice, bob, luna, whale, usdc, luna_whale, whale_usdc, usdc_luna

(* A triangle of pairs, one of them on the stableswap curve.                 *)
MCAssetsOf == [p \in Pools |->
  CASE p = luna_whale -> <<luna, whale>>
    [] p = whale_usdc -> <<whale, usdc>>
    [] p = usdc_luna -> <<usdc, luna>>]
MCAmpOf == [p \in Pools |-> IF p = whale_usdc THEN 2 ELSE 0]
MCScaleOf == [x \in Assets |-> 10]
MCFeesOf == [p \in Pools |->
  IF p = luna_whale THEN [protocol |-> 15, swap |-> 0, burn |-> 10]
  ELSE [protocol |-> 0, swap |-> 15, burn |-> 0]]
MCReserves == [p \in Pools |->
  CASE p = luna_whale -> (luna :> 6 @@ whale :> 8 @@ usdc :> 0)
    [] p = whale_usdc -> (luna :> 0 @@ whale :> 6 @@ usdc :> 7)
    [] p = usdc_luna -> (luna :> 5 @@ whale :> 0 @@ usdc :> 4)]
MCFunds == [u \in Users |-> IF u = alice THEN (luna :> 4 @@ whale :> 0 @@ usdc :> 0)
                            ELSE (luna :> 0 @@ whale :> 3 @@ usdc :> 0)]
(* There and back, round the triangle, and two that do not follow.           *)
MCOperations ==
  {<<<<luna, whale>>>>, <<<<whale, luna>>>>, <<<<luna, whale>>, <<whale, luna>>>>,
   <<<<luna, whale>>, <<whale, usdc>>>>,
   <<<<luna, whale>>, <<whale, usdc>>, <<usdc, luna>>>>,
   <<<<luna, usdc>>, <<whale, usdc>>>>, <<<<whale, usdc>>, <<luna, whale>>>>}
MCRoutes == {[offer |-> luna, ask |-> usdc, ops |-> <<<<luna, usdc>>>>]}
=============================================================================

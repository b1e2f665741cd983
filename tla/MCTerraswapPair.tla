--------------------------- MODULE MCTerraswapPair ---------------------------
(* Instances of the pool for TLC.                                            *)
EXTENDS TerraswapPair

CONSTANTS alice, bob

(* One user can start the pool and take part of it out again; both trade.    *)
MCFunds ==
  [k \in Users \X (1..2) |->
     IF k[1] = alice THEN 4 ELSE IF k[2] = 1 THEN 2 ELSE 1]
AllOn == [deposits |-> TRUE, withdrawals |-> TRUE, swaps |-> TRUE]
MCToggles == {AllOn, [AllOn EXCEPT !.withdrawals = FALSE]}
(* The last is refused: it adds up to more than the whole.                   *)
MCFees == {[protocol |-> 25, swap |-> 0, burn |-> 17],
           [protocol |-> 17, swap |-> 25, burn |-> 0],
           [protocol |-> 25, swap |-> 17, burn |-> 17]}
=============================================================================

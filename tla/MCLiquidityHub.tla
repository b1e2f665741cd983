--------------------------- MODULE MCLiquidityHub ---------------------------
(* Instances of LiquidityHub for TLC. *)
EXTENDS LiquidityHub

CONSTANTS u1, u2, amp        \* two bonders and the bonding asset

(* The first bonder can bond, and take out, its two coins one by one. *)
MCFunds ==
  [k \in Users \X BondingAssets |-> IF k = <<u1, amp>> THEN 2 ELSE 1]
=============================================================================

----------------------------- MODULE MCWhaleLair -----------------------------
(* Instances of WhaleLair for TLC. *)
EXTENDS WhaleLair

CONSTANTS u1, u2, amp, b     \* two bonders and the two bonding assets

(* One bonder holds two coins of the first asset, so that its bond can be   *)
(* taken out in parts, and one of the second; the other holds one coin of   *)
(* the first.                                                               *)
MCFunds ==
  [k \in Users \X BondingAssets |->
     CASE k = <<u1, amp>> -> 2 [] k \in {<<u1, b>>, <<u2, amp>>} -> 1
       [] OTHER -> 0]
=============================================================================

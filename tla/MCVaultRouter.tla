----------------------------- MODULE MCVaultRouter -----------------------------
(* Instances of VaultRouter for TLC. *)
EXTENDS VaultRouter

CONSTANTS alice, bob, f1, f2

MCFunds == [u \in Users |-> CASE u = alice -> 2 [] u = bob -> 1 [] OTHER -> 0]
OnlyDefault == {[flash_loan |-> TRUE, deposit |-> TRUE, withdraw |-> TRUE]}
MCSwitches ==
  OnlyDefault \cup {[flash_loan |-> FALSE, deposit |-> FALSE, withdraw |-> FALSE]}
MCFees == {[protocol |-> 1, flash_loan |-> 0, burn |-> 0],
           [protocol |-> 0, flash_loan |-> 1, burn |-> 0],
           [protocol |-> 0, flash_loan |-> 0, burn |-> 1],
           [protocol |-> 1, flash_loan |-> 1, burn |-> 0]}
MCMessages == {Trade(-1), Trade(2), Loan(2, <<Trade(2)>>)}
MCPayloads == {<<Trade(-1), Trade(2)>>, <<Loan(2, <<Trade(2)>>)>>}
=============================================================================

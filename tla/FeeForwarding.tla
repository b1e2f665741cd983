---------------------------- MODULE FeeForwarding ----------------------------
(***************************************************************************)
(* What the fee collector promises the fee distributor.  When an epoch asks *)
(* for fees, all that the listed vaults and pools owe is collected, what    *)
(* can be sold for the asset of the epoch is sold, and everything the       *)
(* collector then has of that asset is handed over - in one step, which     *)
(* happens as a whole or not at all.                                        *)
(***************************************************************************)
EXTENDS Integers, FiniteSets, Sums

CONSTANTS
  Contracts,       \* vaults and pools
  Vaults,          \* the vaults among them
  Listed,          \* those a new epoch collects from
  Assets,
  MustSell(_),     \* assets a new epoch sells for the given one, if it has any
  MaySell(_)       \* assets that can be sold for the given one at all

VARIABLES
  owed,            \* the fees contracts keep for the collector
  held,            \* the collector's balances
  forwarded        \* what distributors have been sent, in the assets asked for

vars == <<owed, held, forwarded>>

Init ==
  /\ owed = [c \in Contracts |-> [a \in Assets |-> 0]]
  /\ held = [a \in Assets |-> 0]
  /\ forwarded = 0

(* Selling may earn the pools new fees, never the vaults. *)
OwedAfter(base) ==
  /\ owed' \in [Contracts -> [Assets -> Nat]]
  /\ \A c \in Contracts, a \in Assets :
       IF c \in Vaults THEN owed'[c][a] = base[c][a] ELSE owed'[c][a] >= base[c][a]

Earn(c, a) ==
  /\ owed' = [owed EXCEPT ![c][a] = @ + 1]
  /\ UNCHANGED <<held, forwarded>>

(* What is left in the contracts, and what the collector has, when the      *)
(* contracts of C have paid.                                                *)
Left(C) == [c \in Contracts |-> IF c \in C THEN [a \in Assets |-> 0] ELSE owed[c]]
Gathered(C) == [a \in Assets |-> held[a] + Sum([c \in C |-> owed[c][a]], C)]

Gather(C) ==
  /\ owed' = Left(C)
  /\ held' = Gathered(C)
  /\ UNCHANGED forwarded

Sell(ask) ==
  /\ OwedAfter(owed)
  /\ held' \in [Assets -> Nat]
  /\ held'[ask] >= held[ask]
  /\ \A a \in Assets \ {ask} : held'[a] = held[a] \/ (a \in MaySell(ask) /\ held'[a] = 0)
  /\ UNCHANGED forwarded

Forward(ask) ==
  /\ OwedAfter(Left(Listed))
  /\ held' \in [Assets -> Nat]
  /\ held'[ask] = 0
  /\ \A a \in Assets \ {ask} :
       \/ a \in MaySell(ask) /\ held'[a] = 0
       \/ a \notin MustSell(ask) /\ held'[a] = Gathered(Listed)[a]
  /\ forwarded' \in Nat
  /\ forwarded' >= forwarded + Gathered(Listed)[ask]

Next ==
  \/ \E c \in Contracts, a \in Assets : Earn(c, a)
  \/ \E C \in SUBSET Contracts : Gather(C)
  \/ \E ask \in Assets : Sell(ask) \/ Forward(ask)

Spec == Init /\ [][Next]_vars
=============================================================================

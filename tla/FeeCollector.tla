---------------------------- MODULE FeeCollector ----------------------------
(***************************************************************************)
(* The fee collector (contracts/liquidity_hub/fee_collector): it collects   *)
(* the protocol fees of vaults and pools, swaps them for one asset and,     *)
(* when a new epoch asks for it, hands them to the fee distributor.         *)
(*                                                                          *)
(* A call is a transaction of many messages: tasks are those still to be    *)
(* executed, the next one first, and the messages a message sends come      *)
(* before the rest.  A message that fails undoes the whole transaction.     *)
(***************************************************************************)
EXTENDS Integers, SequencesExt, Sums

CONSTANTS
  Admins,        \* addresses that may become the owner
  Distributors,  \* addresses that may be set as the fee distributor
  NoAddress,     \* the addresses of a new contract
  Assets,
  Natives,       \* the assets that are native coins
  Vaults, Pairs, \* what the two factories list, in their order
  AssetsOf,      \* the assets of a vault or pair, in their order
  Label,         \* AssetInfo::get_label: not always different ones
  Routes,        \* pairs of labels the router has a swap route for
  PageLimit,     \* the limit of both factories' lists
  Epochs,        \* epochs a distributor asks for
  NoEpoch, NoSnapshot,
  MaxEarned      \* bound on the fees earned in all

Contracts == ToSet(Vaults) \cup ToSet(Pairs)

(* What undoing a transaction restores. *)
Snapshots ==
  [tmp_epoch : [epoch : Epochs, asset : Assets] \cup {NoEpoch},
   owed : [Contracts -> [Assets -> Nat]], held : [Assets -> Nat],
   forwarded : Nat, earned : Nat]

(* Every vault and pair is a contract of its own.                           *)
ASSUME CollectorAssumption ==
  /\ Vaults \in Seq(ToSet(Vaults)) /\ IsInjective(Vaults)
  /\ Pairs \in Seq(ToSet(Pairs)) /\ IsInjective(Pairs)
  /\ ToSet(Vaults) \cap ToSet(Pairs) = {}
  /\ NoSnapshot \notin Snapshots
  /\ Natives \subseteq Assets
  /\ AssetsOf \in [Contracts -> Seq(Assets)]
  /\ \A v \in ToSet(Vaults) : Len(AssetsOf[v]) = 1
  /\ \A p \in ToSet(Pairs) : Len(AssetsOf[p]) = 2
  /\ DOMAIN Label = Assets
  /\ PageLimit \in Nat \ {0}
  /\ MaxEarned \in Nat

VARIABLES
  coll_config,   \* CONFIG: owner, fee_distributor
  tmp_epoch,     \* TMP_EPOCH: the epoch asked for, and its asset
  owed,          \* the protocol fees contracts have not yet sent
  held,          \* the collector's balances
  forwarded,     \* what distributors have been sent
  earned,        \* all fees earned so far
  tasks, before  \* the transaction in progress, and what it started from

vars == <<coll_config, tmp_epoch, owed, held, forwarded, earned, tasks, before>>

Init ==
  /\ coll_config \in [owner : Admins, fee_distributor : {NoAddress}]
  /\ tmp_epoch = NoEpoch
  /\ owed = [c \in Contracts |-> [a \in Assets |-> 0]]
  /\ held = [a \in Assets |-> 0]
  /\ forwarded = 0 /\ earned = 0
  /\ tasks = <<>> /\ before = NoSnapshot

-----------------------------------------------------------------------------
(* Messages *)

Listing == [vault |-> Vaults, pool |-> Pairs]

(* A page of a factory's list. *)
Page(kind, start, limit) ==
  LET all == Listing[kind]
      last == start + (IF limit < PageLimit THEN limit ELSE PageLimit) IN
  SubSeq(all, start + 1, IF last < Len(all) THEN last ELSE Len(all))
FirstPage(kind) == Page(kind, 0, PageLimit)

(* collect_fees_for_contract, for each of them *)
CollectFrom(contracts) ==
  [i \in DOMAIN contracts |-> [msg |-> "collect_protocol_fees", of |-> contracts[i]]]

(* aggregate_fees stores the assets of the contracts one after the other:   *)
(* the j-th of the i-th contract is at the place <<i, j>>.                  *)
Places(contracts) ==
  UNION {{i} \X DOMAIN AssetsOf[contracts[i]] : i \in DOMAIN contracts}
Stored(contracts, place) == AssetsOf[contracts[place[1]]][place[2]]

(* TMP_ASSET_INFOS, as stored for the contracts and read and cleared at     *)
(* once: one asset for each label, the last one stored.                     *)
AssetInfos(contracts) ==
  LET info(p) == Stored(contracts, p)
      later(q, p) == q[1] > p[1] \/ (q[1] = p[1] /\ q[2] > p[2])
      overwritten(p) ==
        \E q \in Places(contracts) : later(q, p) /\ Label[info(q)] = Label[info(p)]
  IN  {info(p) : p \in {q \in Places(contracts) : ~overwritten(q)}}

Routed(offer, ask) == <<Label[offer], Label[ask]>> \in Routes

(* aggregate_fees: a swap of the whole balance for each asset with a route. *)
(* (The order of the labels is of no consequence.)                          *)
Swapped(a, ask) == a # ask /\ held[a] > 0 /\ Routed(a, ask)
SwapAll(a, ask) == [msg |-> "swap", offer |-> a, amount |-> held[a], ask |-> ask]
SwapsEach(contracts, ask) ==                                     \* mutant
  LET places == SetToSeq({p \in Places(contracts) : Swapped(Stored(contracts, p), ask)}) IN
  [i \in DOMAIN places |-> SwapAll(Stored(contracts, places[i]), ask)]
Swaps(contracts, ask) ==
  LET offers == SetToSeq({a \in AssetInfos(contracts) : Swapped(a, ask)}) IN
  [i \in DOMAIN offers |-> SwapAll(offers[i], ask)]

(* query_fees: the fees of the contracts, added up for each asset; of the   *)
(* contracts named one after the other twice, one is asked.                 *)
QueryFeesFirst(contracts, fees) ==                               \* mutant
  [a \in Assets |->
     LET first == {i \in DOMAIN contracts :
                     \A j \in 1..i : a \in ToSet(AssetsOf[contracts[j]]) <=> j = i} IN
     Sum([i \in first |-> fees[contracts[i]][a]], first)]
QueryFees(contracts, fees) ==
  LET asked == {i \in DOMAIN contracts : i > 1 => contracts[i] # contracts[i - 1]} IN
  [a \in Assets |-> Sum([i \in asked |-> fees[contracts[i]][a]], asked)]

(* forward_fees: the reply is to the last of these. *)
ForwardMessagesEager(ask) ==                                     \* mutant
  <<[msg |-> "collect_fees", of |-> "vault"],
    [msg |-> "aggregate_fees", of |-> "vault", ask |-> ask],
    [msg |-> "aggregate_fees", of |-> "pool", ask |-> ask],
    [msg |-> "collect_fees", of |-> "pool"],
    [msg |-> "reply"]>>
ForwardMessages(ask) ==
  <<[msg |-> "collect_fees", of |-> "vault"],
    [msg |-> "collect_fees", of |-> "pool"],
    [msg |-> "aggregate_fees", of |-> "vault", ask |-> ask],
    [msg |-> "aggregate_fees", of |-> "pool", ask |-> ask],
    [msg |-> "reply"]>>

-----------------------------------------------------------------------------
(* Calls from outside.  Those by the owner and by the collector itself have *)
(* the same handlers.                                                       *)

Snapshot == [tmp_epoch |-> tmp_epoch, owed |-> owed, held |-> held,
             forwarded |-> forwarded, earned |-> earned]

Begin(messages) ==
  /\ tasks = <<>> /\ messages # <<>>
  /\ tasks' = messages
  /\ before' = Snapshot

ForwardFees(sender, epoch, ask) ==
  /\ sender = coll_config.fee_distributor
  /\ Begin(ForwardMessages(ask))
  /\ tmp_epoch' = [epoch |-> epoch, asset |-> ask]
  /\ UNCHANGED <<coll_config, owed, held, forwarded, earned>>

CollectFees(sender, contracts) ==
  /\ sender = coll_config.owner
  /\ Begin(CollectFrom(contracts))
  /\ UNCHANGED <<coll_config, tmp_epoch, owed, held, forwarded, earned>>

AggregateFees(sender, contracts, ask) ==
  /\ sender = coll_config.owner
  /\ Begin(Swaps(contracts, ask))
  /\ UNCHANGED <<coll_config, tmp_epoch, owed, held, forwarded, earned>>

UpdateConfig(sender, owner, distributor) ==
  /\ tasks = <<>>
  /\ sender = coll_config.owner
  /\ coll_config' = [owner |-> owner, fee_distributor |-> distributor]
  /\ UNCHANGED <<tmp_epoch, owed, held, forwarded, earned, tasks, before>>

(* Trades and loans of others earn fees, and anyone may have a contract     *)
(* send its fees.                                                           *)
Earn(c, a) ==
  /\ tasks = <<>> /\ earned < MaxEarned
  /\ owed' = [owed EXCEPT ![c][a] = @ + 1]
  /\ earned' = earned + 1
  /\ UNCHANGED <<coll_config, tmp_epoch, held, forwarded, tasks, before>>

CollectByAnyone(c) ==
  /\ Begin(CollectFrom(<<c>>))
  /\ UNCHANGED <<coll_config, tmp_epoch, owed, held, forwarded, earned>>

-----------------------------------------------------------------------------
(* The messages of a transaction *)

Message(msg) == tasks # <<>> /\ Head(tasks).msg = msg

Continue(messages) ==
  /\ tasks' = messages \o Tail(tasks)
  /\ before' = IF tasks' = <<>> THEN NoSnapshot ELSE before

CollectFeesOfPage ==
  /\ Message("collect_fees")
  /\ Continue(CollectFrom(FirstPage(Head(tasks).of)))
  /\ UNCHANGED <<coll_config, tmp_epoch, owed, held, forwarded, earned>>

AggregateFeesOfPage ==
  /\ Message("aggregate_fees")
  /\ Continue(Swaps(FirstPage(Head(tasks).of), Head(tasks).ask))
  /\ UNCHANGED <<coll_config, tmp_epoch, owed, held, forwarded, earned>>

CollectProtocolFees ==
  LET c == Head(tasks).of IN
  /\ Message("collect_protocol_fees")
  /\ held' = [a \in Assets |-> held[a] + owed[c][a]]
  /\ owed' = [owed EXCEPT ![c] = [a \in Assets |-> 0]]
  /\ Continue(<<>>)
  /\ UNCHANGED <<coll_config, tmp_epoch, forwarded, earned>>

(* ExecuteSwapOperations of the router: at prices of at most one (a bound), *)
(* and earning new fees in some of the pools it leads through.              *)
Swap ==
  LET t == Head(tasks) IN
  /\ Message("swap")
  /\ \E returned \in 0..t.amount :
       held' = [held EXCEPT ![t.offer] = @ - t.amount, ![t.ask] = @ + returned]
  /\ \E through \in SUBSET ToSet(Pairs) :
       /\ earned + Cardinality(through) <= MaxEarned
       /\ earned' = earned + Cardinality(through)
       /\ \E fee_in \in [through -> {1, 2}] :
            owed' = [c \in Contracts |->
                       IF c \in through
                       THEN [owed[c] EXCEPT ![AssetsOf[c][fee_in[c]]] = @ + 1]
                       ELSE owed[c]]
  /\ Continue(<<>>)
  /\ UNCHANGED <<coll_config, tmp_epoch, forwarded>>

(* What is left of TMP_EPOCH after the reply. *)
TmpEpochAfter == NoEpoch

(* reply: all of the balance is sent, and the epoch answered with it. *)
Reply ==
  /\ Message("reply")
  /\ tmp_epoch # NoEpoch /\ tmp_epoch.asset \in Natives
  /\ forwarded' = forwarded + held[tmp_epoch.asset]
  /\ held' = [held EXCEPT ![tmp_epoch.asset] = 0]
  /\ tmp_epoch' = TmpEpochAfter
  /\ Continue(<<>>)
  /\ UNCHANGED <<coll_config, owed, earned>>

(* A swap may fail, and a reply fails that finds no epoch or has to send a  *)
(* token.                                                                   *)
Fail ==
  /\ \/ Message("swap")
     \/ Message("reply") /\ (tmp_epoch = NoEpoch \/ tmp_epoch.asset \notin Natives)
  /\ tmp_epoch' = before.tmp_epoch
  /\ owed' = before.owed /\ held' = before.held
  /\ forwarded' = before.forwarded /\ earned' = before.earned
  /\ tasks' = <<>> /\ before' = NoSnapshot
  /\ UNCHANGED coll_config

Next ==
  \/ \E d \in Distributors, e \in Epochs, ask \in Assets : ForwardFees(d, e, ask)
  \/ \E o \in Admins : \E contracts \in SUBSET Contracts :
       CollectFees(o, SetToSeq(contracts))
  \/ \E o \in Admins, kind \in {"vault", "pool"}, limit \in 1..PageLimit :
       \E start \in 0..(Len(Listing[kind]) - 1) :
         \/ CollectFees(o, Page(kind, start, limit))
         \/ \E ask \in Assets : AggregateFees(o, Page(kind, start, limit), ask)
  \/ \E sender, owner \in Admins, d \in Distributors : UpdateConfig(sender, owner, d)
  \/ \E c \in Contracts : \E i \in DOMAIN AssetsOf[c] : Earn(c, AssetsOf[c][i])
  \/ \E c \in Contracts : CollectByAnyone(c)
  \/ CollectFeesOfPage \/ AggregateFeesOfPage \/ CollectProtocolFees
  \/ Swap \/ Reply \/ Fail

Spec == Init /\ [][Next]_vars

-----------------------------------------------------------------------------
(* Properties *)

(* The shape of the state: no swap is given more than the collector has     *)
(* when its turn comes, although the amounts of all swaps are read first.   *)
TypeOK ==
  /\ coll_config \in [owner : Admins, fee_distributor : Distributors \cup {NoAddress}]
  /\ tmp_epoch \in [epoch : Epochs, asset : Assets] \cup {NoEpoch}
  /\ owed \in [Contracts -> [Assets -> Nat]]
  /\ held \in [Assets -> Nat]
  /\ forwarded \in Nat /\ earned \in 0..MaxEarned
  /\ (tasks = <<>>) = (before = NoSnapshot)

(* When the fees of an epoch have been collected, the collector has got     *)
(* exactly what query_fees answered for the pages of both factories when    *)
(* the epoch was asked for: nothing is swapped before, and no contract of a *)
(* page is left out of the one or the other.                                *)
CollectionForetold ==
  LET foretold(kind) == QueryFees(FirstPage(kind), before.owed) IN
  Message("aggregate_fees") /\ Head(tasks).of = "vault" =>
    held = [a \in Assets |->
              before.held[a] + foretold("vault")[a] + foretold("pool")[a]]

(* The contracts and assets of a new epoch, as FeeForwarding knows them.    *)
(* An asset that shares its label with another may be left out.             *)
ListedContracts == ToSet(FirstPage("vault")) \cup ToSet(FirstPage("pool"))
Sellable(ask) == {a \in Assets \ {ask} : Routed(a, ask)}
SureToSell(ask) ==
  {a \in Sellable(ask) :
     /\ \E c \in ListedContracts : a \in ToSet(AssetsOf[c])
     /\ \A b \in Assets \ {a} : Label[b] # Label[a]}

InProgress == tasks # <<>>
Promise == INSTANCE FeeForwarding WITH
  Vaults <- ToSet(Vaults), Listed <- ListedContracts,
  MustSell <- SureToSell, MaySell <- Sellable,
  owed <- IF InProgress THEN before.owed ELSE owed,
  held <- IF InProgress THEN before.held ELSE held,
  forwarded <- IF InProgress THEN before.forwarded ELSE forwarded

(* Seen from outside, all the messages of a call are one step that does     *)
(* what FeeForwarding promises, or nothing.                                 *)
ForwardingSpec == Promise!Spec
=============================================================================

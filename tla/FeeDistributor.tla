--------------------------- MODULE FeeDistributor ---------------------------
(***************************************************************************)
(* The fee distributor (contracts/liquidity_hub/fee_distributor): fees come *)
(* in epochs, bonders claim their share of every epoch within the grace     *)
(* period, and what nobody claimed moves to a new epoch when its own falls  *)
(* out of the grace period.  A transaction that fails is reverted by the    *)
(* chain and is therefore no step; its error paths are the guards.          *)
(***************************************************************************)
EXTENDS Integers, Sequences, FiniteSets, Sums

CONSTANTS
  Users,         \* claimers
  Admins,        \* addresses that may become the owner
  Assets,        \* native coins that fees are distributed in
  NoAsset,       \* stands for the first fee of an epoch without fees
  FeeAmounts,    \* amounts the fee collector forwards with a new epoch
  ShareUnit,     \* the atomics of Decimal::one()
  Shares,        \* fee shares, in units of 1/ShareUnit
  GracePeriods,  \* grace periods the owner asks for
  Duration,      \* epoch_config.duration
  Genesis,       \* epoch_config.genesis_epoch
  StartTime,     \* block time of the instantiation
  MaxTime        \* bound on the block time

ASSUME DistributorAssumption ==
  /\ NoAsset \notin Assets
  /\ FeeAmounts \subseteq Nat
  /\ ShareUnit \in Nat \ {0}
  /\ Shares \subseteq Nat
  /\ GracePeriods \subseteq Nat
  /\ Duration \in Nat \ {0}               \* at least a day
  /\ Genesis \in Nat
  /\ StartTime \in Nat
  /\ MaxTime \in Nat

VARIABLES
  time,          \* block time
  dist_config,   \* CONFIG: owner, grace_period, distribution_asset
  epochs,        \* EPOCHS: start_time, total, first, available, claimed by id
  last_claimed,  \* LAST_CLAIMED_EPOCH, 0 for a user without an entry
  dist_balance   \* the contract's coins in the bank

dist_vars == <<dist_config, epochs, last_claimed, dist_balance>>

MaxGracePeriod == 10                      \* MAX_GRACE_PERIOD

-----------------------------------------------------------------------------
(* Lists of fees: an asset may be absent, or present with the amount zero. *)

NoFees == [a \in {} |-> 0]
Amount(fees, a) == IF a \in DOMAIN fees THEN fees[a] ELSE 0

(* aggregate_assets *)
AggregateAssets(f, g) ==
  [a \in DOMAIN f \cup DOMAIN g |-> Amount(f, a) + Amount(g, a)]

-----------------------------------------------------------------------------
(* Queries *)

(* The start of the current epoch; Epoch::default() before the first. *)
CurrentStart == IF epochs = <<>> THEN 0 ELSE epochs[Len(epochs)].start_time

(* get_claimable_epochs: the latest grace_period epochs. *)
GraceEpochs ==
  {i \in DOMAIN epochs : i > Len(epochs) - dist_config.grace_period}

(* get_expiring_epoch: the oldest of them. *)
ExpiringEpochLate ==                                             \* mutant
  CHOOSE i \in DOMAIN epochs :
    \A j \in DOMAIN epochs :
      j > Len(epochs) - dist_config.grace_period - 1 => i <= j
ExpiringEpochNewest == Len(epochs)                               \* mutant
ExpiringEpoch == CHOOSE i \in GraceEpochs : \A j \in GraceEpochs : i <= j

(* query_claimable: those that the user has not claimed yet. *)
ClaimableEpochs(u) == {i \in GraceEpochs : i > last_claimed[u]}

-----------------------------------------------------------------------------
(* Execute messages *)

Init ==
  /\ time = StartTime
  /\ \E owner \in Admins, grace \in GracePeriods, asset \in Assets :
       /\ grace \in 1..MaxGracePeriod       \* validate_grace_period
       /\ dist_config = [owner |-> owner, grace_period |-> grace,
                         distribution_asset |-> asset]
  /\ epochs = <<>>
  /\ last_claimed = [u \in Users |-> 0]
  /\ dist_balance = [a \in Assets |-> 0]

(* The chain's clock. *)
Tick ==
  /\ time < MaxTime
  /\ time' = time + 1
  /\ UNCHANGED dist_vars

(* The current epoch is over. *)
EpochLongOver == time - CurrentStart > Duration                  \* mutant
EpochOver == time - CurrentStart >= Duration

(* The start of the new epoch. *)
NextStart == IF epochs = <<>> THEN Genesis ELSE CurrentStart + Duration

(* The fees the collector sends along: none when its balance is zero. *)
CollectedFees(amount) ==
  IF amount = 0 THEN NoFees
  ELSE [a \in {dist_config.distribution_asset} |-> amount]

(* What the expiring epoch leaves to the new one. *)
Unclaimed == IF epochs = <<>> THEN NoFees ELSE epochs[ExpiringEpoch].available

(* The asset listed first, the only one whose claims are recorded. *)
FirstFee(fees) ==
  IF DOMAIN fees # {} THEN dist_config.distribution_asset
  ELSE IF DOMAIN Unclaimed = {} THEN NoAsset
  ELSE epochs[ExpiringEpoch].first

(* The epochs once the expiring one has handed over its fees. *)
ExpiredKept == epochs                                            \* mutant
Expired ==
  IF epochs = <<>> THEN epochs
  ELSE [epochs EXCEPT ![ExpiringEpoch].available = NoFees]

(* create_new_epoch, the collector's ForwardFees and the reply to it: one   *)
(* transaction, that anyone may send.                                       *)
NewEpoch(amount) ==
  LET fees == CollectedFees(amount)
      total == AggregateAssets(fees, Unclaimed) IN
  /\ EpochOver
  /\ epochs' = Append(Expired,
                      [start_time |-> NextStart, total |-> total,
                       first |-> FirstFee(fees), available |-> total,
                       claimed |-> NoFees])
  /\ dist_balance' = [a \in Assets |-> dist_balance[a] + Amount(fees, a)]
  /\ UNCHANGED <<time, dist_config, last_claimed>>

(* The part of one fee of an epoch that goes to a share. *)
Reward(i, a, share) == (epochs[i].total[a] * share) \div ShareUnit

(* The record of claimed fees after a reward is taken: started with the     *)
(* first fee, and afterwards only the fees it has are added to.             *)
Claimed(i, share) ==
  LET e == epochs[i] IN
  IF DOMAIN e.total = {} THEN e.claimed
  ELSE IF DOMAIN e.claimed = {}
  THEN [a \in {e.first} |-> Reward(i, a, share)]
  ELSE [a \in DOMAIN e.claimed |-> e.claimed[a] + Reward(i, a, share)]

(* An epoch of which a share has been claimed. *)
AfterClaim(i, share) ==
  [epochs[i] EXCEPT
     !.claimed = Claimed(i, share),
     !.available = [a \in DOMAIN @ |->
                      IF a \in DOMAIN epochs[i].total
                      THEN @[a] - Reward(i, a, share) ELSE @[a]]]

(* What a claim of all ids pays in one asset. *)
Paid(ids, a, share) ==
  Sum([i \in DOMAIN epochs |->
         IF a \in DOMAIN epochs[i].total THEN Reward(i, a, share) ELSE 0], ids)

(* The epoch a claim is recorded at: the first listed, which is the latest. *)
ClaimedUpToFirst(ids) ==                                         \* mutant
  CHOOSE i \in ids : \A j \in ids : i <= j
ClaimedUpTo(ids) == CHOOSE i \in ids : \A j \in ids : i >= j

(* The reward is there to be taken: a fee that the epoch no longer lists is *)
(* refused, and so is a reward above what is left of it.                    *)
SoundUnchecked(i, a, share) == a \in DOMAIN epochs[i].available  \* mutant
SoundIfListed(i, a, share) ==                                    \* mutant
  a \in DOMAIN epochs[i].available =>
    Reward(i, a, share) <= epochs[i].available[a]
Sound(i, a, share) ==
  /\ a \in DOMAIN epochs[i].available
  /\ Reward(i, a, share) <= epochs[i].available[a]

(* Claim: all of the user's claimable epochs or none; a coin message with   *)
(* the amount zero fails, and the claim with it.                            *)
Claim(u, share) ==
  LET ids == ClaimableEpochs(u) IN
  /\ ids # {}
  /\ \A i \in ids : \A a \in DOMAIN epochs[i].total :
       /\ Sound(i, a, share)
       /\ Paid(ids, a, share) \in 1..dist_balance[a]
  /\ epochs' = [i \in DOMAIN epochs |->
                  IF i \in ids THEN AfterClaim(i, share) ELSE epochs[i]]
  /\ last_claimed' = [last_claimed EXCEPT ![u] = ClaimedUpTo(ids)]
  /\ dist_balance' = [a \in Assets |-> dist_balance[a] - Paid(ids, a, share)]
  /\ UNCHANGED <<time, dist_config>>

(* UpdateConfig: by the owner; the grace period may only grow. *)
UpdateConfig(sender, owner, grace, asset) ==
  /\ sender = dist_config.owner
  /\ grace \in 1..MaxGracePeriod               \* validate_grace_period
  /\ grace >= dist_config.grace_period
  /\ dist_config' = [owner |-> owner, grace_period |-> grace,
                     distribution_asset |-> asset]
  /\ UNCHANGED <<time, epochs, last_claimed, dist_balance>>

-----------------------------------------------------------------------------
CreateEpoch == \E amount \in FeeAmounts : NewEpoch(amount)

Configure ==
  \E sender, owner \in Admins, grace \in GracePeriods, asset \in Assets :
    UpdateConfig(sender, owner, grace, asset)

Next ==
  \/ Tick
  \/ CreateEpoch
  \/ \E u \in Users, share \in Shares : Claim(u, share)
  \/ Configure

vars == <<time, dist_vars>>

Spec == Init /\ [][Next]_vars

(* Blocks keep coming, and somebody asks for a new epoch once it is due. *)
FairSpec == Spec /\ WF_vars(Tick) /\ WF_vars(CreateEpoch)

-----------------------------------------------------------------------------
(* Properties *)

IsFees(f) == DOMAIN f \subseteq Assets /\ f \in [DOMAIN f -> Nat]

(* The lists of one epoch: what is available is all of the total's assets   *)
(* or, once handed over, none; of the claimed ones only the first is kept.  *)
IsEpoch(e) ==
  /\ DOMAIN e = {"start_time", "total", "first", "available", "claimed"}
  /\ e.start_time \in Nat
  /\ IsFees(e.total) /\ IsFees(e.available) /\ IsFees(e.claimed)
  /\ e.first \in (IF DOMAIN e.total = {} THEN {NoAsset} ELSE DOMAIN e.total)
  /\ DOMAIN e.available \in {{}, DOMAIN e.total}
  /\ DOMAIN e.claimed \in {{}, {e.first} \cap Assets}

(* The shape of the state of CONFIG, EPOCHS, LAST_CLAIMED_EPOCH and the     *)
(* bank; in particular no amount is ever driven below zero, and nobody has  *)
(* claimed an epoch that does not exist.                                    *)
TypeOK ==
  /\ time \in Nat
  /\ dist_config \in [owner : Admins, grace_period : 1..MaxGracePeriod,
                      distribution_asset : Assets]
  /\ epochs \in Seq({epochs[i] : i \in DOMAIN epochs})
  /\ \A i \in DOMAIN epochs : IsEpoch(epochs[i])
  /\ last_claimed \in [Users -> 0..Len(epochs)]
  /\ dist_balance \in [Assets -> Nat]

AvailableOf(a) == [i \in DOMAIN epochs |-> Amount(epochs[i].available, a)]

(* The coins of the contract are exactly the fees that can still be claimed *)
(* in some epoch: claims never reach the fees of another epoch, and nothing *)
(* is left over when epochs expire.                                         *)
Backed ==
  \A a \in Assets : dist_balance[a] = Sum(AvailableOf(a), DOMAIN epochs)

(* No fee stays behind in an epoch that can no longer be claimed, whatever  *)
(* the order of new epochs and changes of the grace period.                 *)
NoStrandedFees ==
  \A i \in DOMAIN epochs \ GraceEpochs : epochs[i].available = NoFees

(* Epochs follow each other at the distance of their duration, however late *)
(* each is created, and no epoch but the first starts ahead of its time.    *)
OnSchedule ==
  \A i \in DOMAIN epochs :
    /\ epochs[i].start_time = Genesis + (i - 1) * Duration
    /\ i > 1 => epochs[i].start_time <= time

(* An epoch pays a user once: fees of it only shrink in a claim of somebody *)
(* who had not claimed it and now has, or when the whole epoch hands over.  *)
ClaimOnce ==
  [][\A i \in DOMAIN epochs :
       \/ epochs'[i].available = epochs[i].available
       \/ epochs'[i].available = NoFees /\ Len(epochs') > Len(epochs)
       \/ \E u \in Users : last_claimed[u] < i /\ i <= last_claimed'[u]]_vars

(* What is left of an epoch leaves it as a whole: all of it is in the epoch *)
(* that is created by the same call, and the epoch that gives it up leaves  *)
(* the grace period by that call.  The first epoch of a contract that has   *)
(* fewer epochs than its grace period is the exception: it gives up its     *)
(* fees, and can still be claimed (get_expiring_epoch).                     *)
FeesHandedOver ==
  [][\A i \in DOMAIN epochs :
       (epochs[i].available # NoFees /\ epochs'[i].available = NoFees) =>
         /\ Len(epochs') = Len(epochs) + 1
         /\ \A a \in Assets : Amount(epochs'[Len(epochs')].available, a)
                              >= Amount(epochs[i].available, a)
         /\ \/ i \notin GraceEpochs'
            \/ i = 1 /\ Len(epochs) < dist_config.grace_period]_vars

(* From the second epoch on the first one has nothing to give, though it    *)
(* can be claimed until as many epochs as the grace period have followed;   *)
(* the same goes for epochs that a longer grace period has reopened.  For   *)
(* as long, whoever has not claimed such an epoch can claim nothing at all, *)
(* the fees of later epochs included.                                       *)
EmptiedEpochsLockOut ==
  [][\A u \in Users : \A i \in ClaimableEpochs(u) :
       /\ DOMAIN epochs[i].total # {}
       /\ (i = 1 /\ Len(epochs) > 1) \/ epochs[i].available = NoFees
       => last_claimed'[u] = last_claimed[u]]_vars

LastGrace ==
  CHOOSE g \in GracePeriods : \A h \in GracePeriods : h <= g

(* Every epoch whose grace period ends within the time considered hands     *)
(* over what is left in it, however late new epochs are asked for.          *)
FeesMoveOn ==
  \A i \in 1..(MaxTime \div Duration) :
    (/\ i \in DOMAIN epochs
     /\ Genesis + (i + LastGrace - 1) * Duration <= MaxTime)
      ~> (i \in DOMAIN epochs /\ epochs[i].available = NoFees)
=============================================================================

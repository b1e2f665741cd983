------------------------ MODULE FeeDistributorProofs ------------------------
(***************************************************************************)
(* For every duration, grace period, share and amount of fees: the coins of *)
(* the distributor are exactly what its epochs still offer, no fee stays    *)
(* behind in an expired epoch, and epochs keep to their schedule.           *)
(***************************************************************************)
EXTENDS FeeDistributor, Arithmetic, SequenceTheorems

(* EPOCHS is a sequence of finitely many epochs. *)
LEMMA EpochsFacts ==
  ASSUME TypeOK
  PROVE  /\ Len(epochs) \in Nat
         /\ DOMAIN epochs = 1..Len(epochs)
         /\ IsFiniteSet(DOMAIN epochs)
         /\ epochs = [i \in DOMAIN epochs |-> epochs[i]]
         /\ (epochs = <<>>) <=> (Len(epochs) = 0)
<1> DEFINE S == {epochs[i] : i \in DOMAIN epochs}
<1>1. epochs \in Seq(S)
  BY DEF TypeOK
<1> HIDE DEF S
<1>2. /\ Len(epochs) \in Nat
      /\ DOMAIN epochs = 1..Len(epochs)
      /\ epochs \in [1..Len(epochs) -> S]
  BY <1>1, LenProperties
<1>3. IsFiniteSet(1..Len(epochs))
  BY <1>2, FS_Interval
<1>4. (epochs = <<>>) <=> (Len(epochs) = 0)
  BY <1>1, EmptySeq
<1> QED
  BY <1>2, <1>3, <1>4

(* The expiring epoch is the oldest one within the grace period. *)
LEMMA ExpiringFacts ==
  ASSUME TypeOK, epochs # <<>>
  PROVE  /\ ExpiringEpoch \in GraceEpochs
         /\ ExpiringEpoch \in DOMAIN epochs
         /\ \A j \in DOMAIN epochs \ GraceEpochs : j < ExpiringEpoch
         /\ \A j \in GraceEpochs : ExpiringEpoch <= j
<1> DEFINE n == Len(epochs)
           g == dist_config.grace_period
           first == IF n < g THEN 1 ELSE n - g + 1
<1>1. n \in Nat /\ n # 0 /\ DOMAIN epochs = 1..n
  BY EpochsFacts
<1>2. g \in Nat /\ g # 0
  BY DEF TypeOK
<1>3. GraceEpochs = {i \in 1..n : i > n - g}
  BY <1>1 DEF GraceEpochs
<1> HIDE DEF n, g
<1>4. first \in GraceEpochs /\ \A j \in GraceEpochs : first <= j
  BY <1>1, <1>2, <1>3
<1>5. /\ ExpiringEpoch \in GraceEpochs
      /\ \A j \in GraceEpochs : ExpiringEpoch <= j
  BY <1>4 DEF ExpiringEpoch
<1>6. \A j \in 1..n : j \notin GraceEpochs => j <= n - g
  BY <1>1, <1>2, <1>3
<1>7. ExpiringEpoch \in 1..n /\ ExpiringEpoch > n - g
  BY <1>3, <1>5
<1>8. \A j \in DOMAIN epochs \ GraceEpochs : j < ExpiringEpoch
  <2> TAKE j \in DOMAIN epochs \ GraceEpochs
  <2>1. j \in 1..n /\ j <= n - g
    BY <1>1, <1>6
  <2> QED
    BY <1>1, <1>2, <1>7, <2>1
<1> QED
  BY <1>1, <1>5, <1>7, <1>8

(* A reward is a natural number. *)
LEMMA RewardNat ==
  ASSUME TypeOK, NEW i \in DOMAIN epochs, NEW a \in DOMAIN epochs[i].total,
         NEW share \in Nat
  PROVE  Reward(i, a, share) \in Nat
<1>1. epochs[i].total[a] \in Nat
  BY DEF TypeOK, IsEpoch, IsFees
<1> DEFINE t == epochs[i].total[a]
<1> HIDE DEF t
<1>2. t * share \in Nat
  BY <1>1 DEF t
<1>3. \A x \in Nat : x \div ShareUnit \in Nat
  BY DistributorAssumption
<1> QED
  BY <1>2, <1>3 DEF Reward, t

(* Adding up two lists of fees gives a list of fees. *)
LEMMA AggregateFees ==
  ASSUME NEW f, NEW g, IsFees(f), IsFees(g)
  PROVE  /\ IsFees(AggregateAssets(f, g))
         /\ DOMAIN AggregateAssets(f, g) = DOMAIN f \cup DOMAIN g
         /\ \A a : Amount(AggregateAssets(f, g), a) = Amount(f, a) + Amount(g, a)
<1>1. \A a : Amount(f, a) \in Nat /\ Amount(g, a) \in Nat
  BY DEF Amount, IsFees
<1>2. \A a : a \notin DOMAIN f \cup DOMAIN g => Amount(f, a) + Amount(g, a) = 0
  BY DEF Amount
<1> QED
  BY <1>1, <1>2 DEF AggregateAssets, Amount, IsFees

LEMMA NoFeesIsFees == IsFees(NoFees) /\ DOMAIN NoFees = {}
BY DEF NoFees, IsFees

-----------------------------------------------------------------------------
(* Type correctness *)

LEMMA TypeInit == Init => TypeOK
<1> SUFFICES ASSUME Init
             PROVE  TypeOK
  OBVIOUS
<1>1. dist_config \in [owner : Admins, grace_period : 1..MaxGracePeriod,
                       distribution_asset : Assets]
  BY DEF Init
<1>2. epochs = <<>> /\ DOMAIN epochs = {} /\ Len(epochs) = 0
  BY DEF Init
<1>3. epochs \in Seq({epochs[i] : i \in DOMAIN epochs})
  BY <1>2, EmptySeq
<1>4. last_claimed \in [Users -> 0..Len(epochs)]
  BY <1>2 DEF Init
<1>5. time \in Nat /\ dist_balance \in [Assets -> Nat]
  BY DistributorAssumption DEF Init
<1> QED
  BY <1>1, <1>2, <1>3, <1>4, <1>5 DEF TypeOK

(* A sequence may be rebuilt entry by entry. *)
LEMMA RebuiltSeq ==
  ASSUME NEW n \in Nat, NEW s, s = [i \in 1..n |-> s[i]]
  PROVE  /\ s \in Seq({s[i] : i \in DOMAIN s})
         /\ Len(s) = n
<1>1. DOMAIN s = 1..n
  OBVIOUS
<1>2. s \in [1..n -> {s[i] : i \in DOMAIN s}]
  BY <1>1
<1> DEFINE R == {s[i] : i \in DOMAIN s}
<1> HIDE DEF R
<1>3. s \in Seq(R)
  BY <1>2, SeqDef DEF R
<1>4. DOMAIN s = 1..Len(s) /\ Len(s) \in Nat
  BY <1>3, LenProperties
<1>5. Len(s) = n
  BY <1>1, <1>4
<1> QED
  BY <1>3, <1>5 DEF R

(* The epochs after a new one: the expiring one has no fees left, the       *)
(* others are as they were, and the new one comes last.                     *)
LEMMA NewEpochEffect ==
  ASSUME TypeOK, NEW amount \in Nat, NewEpoch(amount)
  PROVE  LET n == Len(epochs)
             fees == CollectedFees(amount)
             total == AggregateAssets(fees, Unclaimed)
             new == [start_time |-> NextStart, total |-> total,
                     first |-> FirstFee(fees), available |-> total,
                     claimed |-> NoFees]
         IN  /\ DOMAIN epochs' = 1..(n + 1)
             /\ Len(epochs') = n + 1
             /\ epochs'[n + 1] = new
             /\ \A i \in 1..n :
                  epochs'[i] = IF i = ExpiringEpoch
                               THEN [epochs[i] EXCEPT !.available = NoFees]
                               ELSE epochs[i]
             /\ epochs' = [i \in 1..(n + 1) |-> epochs'[i]]
<1> DEFINE n == Len(epochs)
           fees == CollectedFees(amount)
           total == AggregateAssets(fees, Unclaimed)
           new == [start_time |-> NextStart, total |-> total,
                   first |-> FirstFee(fees), available |-> total,
                   claimed |-> NoFees]
<1>1. n \in Nat /\ DOMAIN epochs = 1..n /\ epochs = [i \in 1..n |-> epochs[i]]
  BY EpochsFacts
<1>2. epochs' = Append(Expired, new)
  BY DEF NewEpoch
<1>3. /\ DOMAIN Expired = 1..n
      /\ Expired = [i \in 1..n |-> Expired[i]]
      /\ \A i \in 1..n :
           Expired[i] = IF i = ExpiringEpoch
                        THEN [epochs[i] EXCEPT !.available = NoFees]
                        ELSE epochs[i]
  <2>1. CASE epochs = <<>>
    <3>1. n = 0
      BY <2>1, EpochsFacts
    <3>2. Expired = epochs
      BY <2>1 DEF Expired
    <3> QED
      BY <1>1, <3>1, <3>2
  <2>2. CASE epochs # <<>>
    <3>1. Expired = [epochs EXCEPT ![ExpiringEpoch].available = NoFees]
      BY <2>2 DEF Expired
    <3> QED
      BY <1>1, <3>1
  <2> QED
    BY <2>1, <2>2
<1> HIDE DEF n, new
<1> DEFINE S == {Expired[i] : i \in DOMAIN Expired} \cup {new}
<1>4. Expired \in Seq({Expired[i] : i \in DOMAIN Expired}) /\ Len(Expired) = n
  BY <1>1, <1>3, RebuiltSeq
<1>5. Expired \in Seq(S) /\ new \in S
  BY <1>4, SeqMonotonic
<1> HIDE DEF S
<1>6. /\ epochs' \in Seq(S)
      /\ Len(epochs') = n + 1
      /\ \A i \in 1..n : epochs'[i] = Expired[i]
      /\ epochs'[n + 1] = new
  BY <1>2, <1>4, <1>5, AppendProperties
<1>7. /\ DOMAIN epochs' = 1..(n + 1)
      /\ epochs' = [i \in 1..(n + 1) |-> epochs'[i]]
  BY <1>6, LenProperties
<1> QED
  BY <1>3, <1>6, <1>7 DEF n, new

(* The fees that go into a new epoch are a list of fees. *)
LEMMA NewFees ==
  ASSUME TypeOK, NEW amount \in Nat
  PROVE  LET fees == CollectedFees(amount)
             total == AggregateAssets(fees, Unclaimed)
         IN  /\ IsFees(fees) /\ IsFees(Unclaimed) /\ IsFees(total)
             /\ FirstFee(fees) \in
                  (IF DOMAIN total = {} THEN {NoAsset} ELSE DOMAIN total)
             /\ NextStart \in Nat
<1> DEFINE fees == CollectedFees(amount)
           total == AggregateAssets(fees, Unclaimed)
           d == dist_config.distribution_asset
<1>1. d \in Assets
  BY DEF TypeOK
<1>2. IsFees(fees) /\ DOMAIN fees \subseteq {d}
  BY <1>1 DEF CollectedFees, IsFees, NoFees
<1>3. IsFees(Unclaimed)
  <2>1. CASE epochs = <<>>
    BY <2>1, NoFeesIsFees DEF Unclaimed
  <2>2. CASE epochs # <<>>
    BY <2>2, ExpiringFacts DEF Unclaimed, TypeOK, IsEpoch
  <2> QED
    BY <2>1, <2>2
<1>4. IsFees(total) /\ DOMAIN total = DOMAIN fees \cup DOMAIN Unclaimed
  BY <1>2, <1>3, AggregateFees
<1>5. FirstFee(fees) \in (IF DOMAIN total = {} THEN {NoAsset} ELSE DOMAIN total)
  <2> HIDE DEF fees, total
  <2>1. CASE DOMAIN fees # {}
    BY <1>2, <1>4, <2>1 DEF FirstFee
  <2>2. CASE DOMAIN fees = {} /\ DOMAIN Unclaimed = {}
    BY <1>4, <2>2 DEF FirstFee
  <2>3. CASE DOMAIN fees = {} /\ DOMAIN Unclaimed # {}
    <3> DEFINE e == epochs[ExpiringEpoch]
    <3>1. epochs # <<>>
      BY <2>3, NoFeesIsFees DEF Unclaimed
    <3>2. Unclaimed = e.available
      BY <3>1 DEF Unclaimed
    <3>3. IsEpoch(e)
      BY <3>1, ExpiringFacts DEF TypeOK
    <3>4. DOMAIN Unclaimed = DOMAIN e.total /\ e.first \in DOMAIN e.total
      BY <2>3, <3>2, <3>3 DEF IsEpoch
    <3>5. FirstFee(fees) = e.first
      BY <2>3 DEF FirstFee
    <3> QED
      BY <1>4, <2>3, <3>4, <3>5
  <2> QED
    BY <2>1, <2>2, <2>3
<1>6. NextStart \in Nat
  <2>1. CASE epochs = <<>>
    BY <2>1, DistributorAssumption DEF NextStart
  <2>2. CASE epochs # <<>>
    <3>1. Len(epochs) \in DOMAIN epochs
      BY <2>2, EpochsFacts
    <3>2. CurrentStart \in Nat
      BY <2>2, <3>1 DEF CurrentStart, TypeOK, IsEpoch
    <3> QED
      BY <2>2, <3>2, DistributorAssumption DEF NextStart
  <2> QED
    BY <2>1, <2>2
<1> QED
  BY <1>2, <1>3, <1>4, <1>5, <1>6

LEMMA TypeNewEpoch ==
  ASSUME TypeOK, NEW amount \in Nat, NewEpoch(amount)
  PROVE  TypeOK'
<1> DEFINE n == Len(epochs)
           fees == CollectedFees(amount)
           total == AggregateAssets(fees, Unclaimed)
           new == [start_time |-> NextStart, total |-> total,
                   first |-> FirstFee(fees), available |-> total,
                   claimed |-> NoFees]
<1>1. /\ n \in Nat /\ DOMAIN epochs = 1..n
  BY EpochsFacts
<1>2. /\ DOMAIN epochs' = 1..(n + 1)
      /\ Len(epochs') = n + 1
      /\ epochs'[n + 1] = new
      /\ \A i \in 1..n :
           epochs'[i] = IF i = ExpiringEpoch
                        THEN [epochs[i] EXCEPT !.available = NoFees]
                        ELSE epochs[i]
      /\ epochs' = [i \in 1..(n + 1) |-> epochs'[i]]
  BY NewEpochEffect
<1>3. /\ IsFees(fees) /\ IsFees(total) /\ NextStart \in Nat
      /\ FirstFee(fees) \in
           (IF DOMAIN total = {} THEN {NoAsset} ELSE DOMAIN total)
  BY NewFees
<1>4. IsEpoch(new)
  <2> DEFINE st == NextStart
             ff == FirstFee(fees)
  <2> HIDE DEF total, st, ff
  <2> QED
    BY <1>3, NoFeesIsFees DEF IsEpoch, st, ff
<1> HIDE DEF n, new
<1>5. \A i \in 1..n : IsEpoch(epochs'[i])
  <2> TAKE i \in 1..n
  <2>1. IsEpoch(epochs[i])
    BY <1>1 DEF TypeOK
  <2>2. IsEpoch([epochs[i] EXCEPT !.available = NoFees])
    BY <2>1, NoFeesIsFees DEF IsEpoch
  <2> QED
    BY <1>2, <2>1, <2>2
<1>6. \A i \in DOMAIN epochs' : IsEpoch(epochs'[i])
  BY <1>1, <1>2, <1>4, <1>5
<1>7. epochs' \in Seq({epochs'[i] : i \in DOMAIN epochs'})
  BY <1>1, <1>2, RebuiltSeq
<1>8. last_claimed' \in [Users -> 0..Len(epochs')]
  <2>1. last_claimed \in [Users -> 0..n]
    BY DEF TypeOK, n
  <2> QED
    BY <1>1, <1>2, <2>1 DEF NewEpoch
<1>9. dist_balance' \in [Assets -> Nat]
  <2>1. \A a : Amount(fees, a) \in Nat
    BY <1>3 DEF Amount, IsFees
  <2>2. dist_balance' = [a \in Assets |-> dist_balance[a] + Amount(fees, a)]
    BY DEF NewEpoch
  <2>3. dist_balance \in [Assets -> Nat]
    BY DEF TypeOK
  <2> HIDE DEF fees
  <2> QED
    BY <2>1, <2>2, <2>3
<1> QED
  BY <1>6, <1>7, <1>8, <1>9 DEF NewEpoch, TypeOK

(* What a claim pays, and what it leaves of each epoch it is paid from. *)
LEMMA ClaimFacts ==
  ASSUME TypeOK, NEW u \in Users, NEW share \in Nat, Claim(u, share)
  PROVE  LET ids == ClaimableEpochs(u) IN
         /\ ids \subseteq DOMAIN epochs /\ ids # {} /\ IsFiniteSet(ids)
         /\ ClaimedUpTo(ids) \in ids
         /\ \A j \in ids : ClaimedUpTo(ids) >= j
         /\ \A i \in ids : \A a \in DOMAIN epochs[i].total :
              /\ a \in DOMAIN epochs[i].available
              /\ Reward(i, a, share) \in Nat
              /\ Reward(i, a, share) <= epochs[i].available[a]
         /\ \A i \in ids : DOMAIN epochs[i].available = DOMAIN epochs[i].total
         /\ \A i \in ids :
              /\ epochs'[i].available =
                   [a \in DOMAIN epochs[i].available |->
                      epochs[i].available[a] - Reward(i, a, share)]
              /\ epochs'[i].claimed = Claimed(i, share)
              /\ epochs'[i].total = epochs[i].total
              /\ epochs'[i].first = epochs[i].first
              /\ epochs'[i].start_time = epochs[i].start_time
              /\ DOMAIN epochs'[i] = DOMAIN epochs[i]
         /\ \A i \in DOMAIN epochs \ ids : epochs'[i] = epochs[i]
         /\ DOMAIN epochs' = DOMAIN epochs
         /\ Len(epochs') = Len(epochs)
         /\ epochs' = [i \in 1..Len(epochs) |-> epochs'[i]]
<1> DEFINE ids == ClaimableEpochs(u)
           n == Len(epochs)
<1>1. n \in Nat /\ DOMAIN epochs = 1..n /\ IsFiniteSet(DOMAIN epochs)
  BY EpochsFacts
<1>2. ids \subseteq DOMAIN epochs
  BY DEF ClaimableEpochs, GraceEpochs
<1>3. ids # {} /\ IsFiniteSet(ids)
  BY <1>1, <1>2, FS_Subset DEF Claim
<1>4. ClaimedUpTo(ids) \in ids /\ \A j \in ids : ClaimedUpTo(ids) >= j
  <2>1. n \in ids
    <3>1. PICK i \in ids : TRUE
      BY <1>3
    <3>2. /\ i \in 1..n /\ i > n - dist_config.grace_period
          /\ i > last_claimed[u]
      BY <1>1, <3>1 DEF ClaimableEpochs, GraceEpochs
    <3>3. dist_config.grace_period \in Nat /\ last_claimed[u] \in Nat
      BY <1>1 DEF TypeOK
    <3>4. n \in 1..n /\ n > n - dist_config.grace_period /\ n > last_claimed[u]
      BY <1>1, <3>2, <3>3
    <3> QED
      BY <1>1, <3>4 DEF ClaimableEpochs, GraceEpochs
  <2>2. \A j \in ids : n >= j
    BY <1>1, <1>2
  <2> HIDE DEF ids, n
  <2> QED
    BY <2>1, <2>2 DEF ClaimedUpTo
<1>5. \A i \in ids : \A a \in DOMAIN epochs[i].total :
        /\ a \in DOMAIN epochs[i].available
        /\ Reward(i, a, share) \in Nat
        /\ Reward(i, a, share) <= epochs[i].available[a]
  BY <1>2, RewardNat DEF Claim, Sound
<1>6. \A i \in ids : DOMAIN epochs[i].available = DOMAIN epochs[i].total
  <2> TAKE i \in ids
  <2>1. DOMAIN epochs[i].available \in {{}, DOMAIN epochs[i].total}
    BY <1>2 DEF TypeOK, IsEpoch
  <2> QED
    BY <1>5, <2>1
<1>7. epochs' = [i \in DOMAIN epochs |->
                   IF i \in ids THEN AfterClaim(i, share) ELSE epochs[i]]
  BY DEF Claim
<1> HIDE DEF ids, n
<1>8. /\ DOMAIN epochs' = DOMAIN epochs
      /\ epochs' = [i \in 1..n |-> epochs'[i]]
  BY <1>1, <1>7
<1>9. Len(epochs') = n
  BY <1>1, <1>8, RebuiltSeq
<1>10. \A i \in ids :
         /\ epochs'[i].available =
              [a \in DOMAIN epochs[i].available |->
                 epochs[i].available[a] - Reward(i, a, share)]
         /\ epochs'[i].claimed = Claimed(i, share)
         /\ epochs'[i].total = epochs[i].total
         /\ epochs'[i].first = epochs[i].first
         /\ epochs'[i].start_time = epochs[i].start_time
         /\ DOMAIN epochs'[i] = DOMAIN epochs[i]
  <2> TAKE i \in ids
  <2> DEFINE e == epochs[i]
             left == [a \in DOMAIN e.available |->
                        e.available[a] - Reward(i, a, share)]
  <2>1. /\ epochs'[i] = AfterClaim(i, share) /\ i \in DOMAIN epochs
    BY <1>2, <1>7
  <2>2. DOMAIN e = {"start_time", "total", "first", "available", "claimed"}
    BY <1>2 DEF TypeOK, IsEpoch
  <2>3. AfterClaim(i, share) =
          [e EXCEPT !.claimed = Claimed(i, share), !.available = left]
    BY <1>6 DEF AfterClaim
  <2> HIDE DEF e, left
  <2>4. /\ epochs'[i].available = left
        /\ epochs'[i].claimed = Claimed(i, share)
        /\ epochs'[i].total = e.total
        /\ epochs'[i].first = e.first
        /\ epochs'[i].start_time = e.start_time
        /\ DOMAIN epochs'[i] = DOMAIN e
    BY <2>1, <2>2, <2>3
  <2> QED
    BY <2>4 DEF e, left
<1>11. \A i \in DOMAIN epochs \ ids : epochs'[i] = epochs[i]
  BY <1>7
<1> QED
  BY <1>2, <1>3, <1>4, <1>5, <1>6, <1>8, <1>9, <1>10, <1>11 DEF ids, n

LEMMA TypeClaim ==
  ASSUME TypeOK, NEW u \in Users, NEW share \in Nat, Claim(u, share)
  PROVE  TypeOK'
<1> DEFINE ids == ClaimableEpochs(u)
           n == Len(epochs)
<1>1. /\ n \in Nat /\ DOMAIN epochs = 1..n
  BY EpochsFacts
<1>2. /\ ids \subseteq DOMAIN epochs
      /\ ClaimedUpTo(ids) \in ids
      /\ \A i \in ids : \A a \in DOMAIN epochs[i].total :
           /\ a \in DOMAIN epochs[i].available
           /\ Reward(i, a, share) \in Nat
           /\ Reward(i, a, share) <= epochs[i].available[a]
      /\ \A i \in ids : DOMAIN epochs[i].available = DOMAIN epochs[i].total
      /\ \A i \in ids :
           /\ epochs'[i].available =
                [a \in DOMAIN epochs[i].available |->
                   epochs[i].available[a] - Reward(i, a, share)]
           /\ epochs'[i].claimed = Claimed(i, share)
           /\ epochs'[i].total = epochs[i].total
           /\ epochs'[i].first = epochs[i].first
           /\ epochs'[i].start_time = epochs[i].start_time
           /\ DOMAIN epochs'[i] = DOMAIN epochs[i]
      /\ \A i \in DOMAIN epochs \ ids : epochs'[i] = epochs[i]
      /\ DOMAIN epochs' = DOMAIN epochs
      /\ Len(epochs') = Len(epochs)
      /\ epochs' = [i \in 1..n |-> epochs'[i]]
  BY ClaimFacts
<1>3. \A i \in DOMAIN epochs : IsEpoch(epochs[i])
  BY DEF TypeOK
<1> HIDE DEF ids, n
<1>4. \A i \in ids : IsEpoch(epochs'[i])
  <2> TAKE i \in ids
  <2> DEFINE e == epochs[i]
  <2>1. IsEpoch(e) /\ i \in DOMAIN epochs
    BY <1>2, <1>3
  <2>2. IsFees(epochs'[i].available)
    <3>1. \A a \in DOMAIN e.available :
            e.available[a] \in Nat /\ Reward(i, a, share) \in Nat
              /\ Reward(i, a, share) <= e.available[a]
      BY <1>2, <2>1 DEF IsEpoch, IsFees
    <3>2. \A a \in DOMAIN e.available : e.available[a] - Reward(i, a, share) \in Nat
      BY <3>1
    <3>3. DOMAIN e.available \subseteq Assets
      BY <2>1 DEF IsEpoch, IsFees
    <3> HIDE DEF e
    <3>4. epochs'[i].available =
            [a \in DOMAIN e.available |-> e.available[a] - Reward(i, a, share)]
      BY <1>2 DEF e
    <3> QED
      BY <3>2, <3>3, <3>4 DEF IsFees
  <2>3. /\ IsFees(epochs'[i].claimed)
        /\ DOMAIN epochs'[i].claimed \in {{}, {e.first} \cap Assets}
    <3>1. epochs'[i].claimed = Claimed(i, share)
      BY <1>2
    <3>2. CASE DOMAIN e.total = {}
      BY <2>1, <3>1, <3>2 DEF Claimed, IsEpoch
    <3>3. CASE DOMAIN e.total # {} /\ DOMAIN e.claimed = {}
      <4>1. e.first \in DOMAIN e.total /\ e.first \in Assets
        BY <2>1, <3>3 DEF IsEpoch, IsFees
      <4>2. Reward(i, e.first, share) \in Nat
        BY <1>2, <4>1
      <4>3. Claimed(i, share) = [a \in {e.first} |-> Reward(i, a, share)]
        BY <3>3 DEF Claimed
      <4> HIDE DEF e
      <4> QED
        BY <3>1, <4>1, <4>2, <4>3 DEF IsFees
    <3>4. CASE DOMAIN e.total # {} /\ DOMAIN e.claimed # {}
      <4>1. /\ e.first \in DOMAIN e.total /\ e.first \in Assets
            /\ DOMAIN e.claimed = {e.first}
            /\ e.claimed \in [DOMAIN e.claimed -> Nat]
        BY <2>1, <3>4 DEF IsEpoch, IsFees
      <4>2. Reward(i, e.first, share) \in Nat
        BY <1>2, <4>1
      <4>3. Claimed(i, share) =
              [a \in DOMAIN e.claimed |-> e.claimed[a] + Reward(i, a, share)]
        BY <3>4 DEF Claimed
      <4> HIDE DEF e
      <4> QED
        BY <3>1, <4>1, <4>2, <4>3 DEF IsFees
    <3> QED
      BY <3>2, <3>3, <3>4
  <2> QED
    BY <1>2, <2>1, <2>2, <2>3 DEF IsEpoch
<1>5. \A i \in DOMAIN epochs' : IsEpoch(epochs'[i])
  BY <1>2, <1>3, <1>4
<1>6. epochs' \in Seq({epochs'[i] : i \in DOMAIN epochs'})
  BY <1>1, <1>2, RebuiltSeq
<1>7. last_claimed' \in [Users -> 0..Len(epochs')]
  <2>1. last_claimed \in [Users -> 0..n]
    BY DEF TypeOK, n
  <2>2. ClaimedUpTo(ids) \in 0..n
    BY <1>1, <1>2
  <2>3. last_claimed' = [last_claimed EXCEPT ![u] = ClaimedUpTo(ids)]
    BY DEF Claim, ids
  <2> QED
    BY <1>2, <2>1, <2>2, <2>3 DEF n
<1>8. dist_balance' \in [Assets -> Nat]
  <2> SUFFICES ASSUME NEW a \in Assets
               PROVE  dist_balance[a] - Paid(ids, a, share) \in Nat
    BY DEF Claim, ids
  <2>1. dist_balance[a] \in Nat
    BY DEF TypeOK
  <2>2. CASE \E i \in ids : a \in DOMAIN epochs[i].total
    <3>1. Paid(ids, a, share) \in 1..dist_balance[a]
      BY <2>2 DEF Claim, ids
    <3> QED
      BY <2>1, <3>1
  <2>3. CASE \A i \in ids : a \notin DOMAIN epochs[i].total
    <3> DEFINE f == [i \in DOMAIN epochs |->
                       IF a \in DOMAIN epochs[i].total
                       THEN Reward(i, a, share) ELSE 0]
    <3>1. \A i \in ids : f[i] = 0
      BY <1>2, <2>3
    <3> HIDE DEF f
    <3>2. \A i \in ids : {i} \X (1..f[i]) = {}
      BY <3>1
    <3>3. Units(f, ids) = {}
      BY <3>2 DEF Units
    <3>4. Sum(f, ids) = 0
      BY <3>3, FS_EmptySet DEF Sum
    <3>5. Paid(ids, a, share) = 0
      BY <3>4 DEF Paid, f
    <3> QED
      BY <2>1, <3>5
  <2> QED
    BY <2>2, <2>3
<1> QED
  BY <1>5, <1>6, <1>7, <1>8 DEF Claim, TypeOK

LEMMA TypeStep == TypeOK /\ [Next]_vars => TypeOK'
<1> SUFFICES ASSUME TypeOK, [Next]_vars
             PROVE  TypeOK'
  OBVIOUS
<1>1. CASE Tick
  BY <1>1 DEF Tick, TypeOK, dist_vars
<1>2. ASSUME NEW amount \in FeeAmounts, NewEpoch(amount)
      PROVE  TypeOK'
  BY <1>2, TypeNewEpoch, DistributorAssumption
<1>3. ASSUME NEW u \in Users, NEW share \in Shares, Claim(u, share)
      PROVE  TypeOK'
  BY <1>3, TypeClaim, DistributorAssumption
<1>4. ASSUME NEW sender \in Admins, NEW owner \in Admins,
             NEW grace \in GracePeriods, NEW asset \in Assets,
             UpdateConfig(sender, owner, grace, asset)
      PROVE  TypeOK'
  BY <1>4 DEF UpdateConfig, TypeOK
<1>5. CASE UNCHANGED vars
  BY <1>5 DEF vars, dist_vars, TypeOK
<1> QED
  BY <1>1, <1>2, <1>3, <1>4, <1>5 DEF Next, CreateEpoch, Configure

(* No amount is ever driven below zero, and nobody claims an epoch that     *)
(* does not exist.                                                          *)
THEOREM TypeCorrect == Spec => []TypeOK
<1>1. Init => TypeOK
  BY TypeInit
<1>2. TypeOK /\ [Next]_vars => TypeOK'
  BY TypeStep
<1> QED
  BY <1>1, <1>2, PTL DEF Spec

-----------------------------------------------------------------------------
(* The safety invariants *)

DistInv == TypeOK /\ Backed /\ NoStrandedFees /\ OnSchedule

(* The amounts of one asset in the epochs are natural numbers. *)
LEMMA AvailableNat ==
  ASSUME TypeOK, NEW a, NEW i \in DOMAIN epochs
  PROVE  AvailableOf(a)[i] \in Nat
BY DEF TypeOK, IsEpoch, IsFees, AvailableOf, Amount

LEMMA AvailableNatNext ==
  ASSUME TypeOK', NEW a, NEW i \in DOMAIN epochs'
  PROVE  /\ AvailableOf(a)'[i] = Amount(epochs'[i].available, a)
         /\ AvailableOf(a)'[i] \in Nat
<1>1. AvailableOf(a)'[i] = Amount(epochs'[i].available, a)
  BY DEF AvailableOf, Amount
<1>2. IsFees(epochs'[i].available)
  BY DEF TypeOK, IsEpoch
<1> QED
  BY <1>1, <1>2 DEF Amount, IsFees

(* A new epoch adds what the collector sends to what the epochs offer. *)
LEMMA BackedNewEpoch ==
  ASSUME TypeOK, TypeOK', Backed, NEW amount \in Nat, NewEpoch(amount)
  PROVE  Backed'
<1> DEFINE n == Len(epochs)
           fees == CollectedFees(amount)
           total == AggregateAssets(fees, Unclaimed)
<1>1. n \in Nat /\ DOMAIN epochs = 1..n /\ IsFiniteSet(1..n)
  BY EpochsFacts
<1>2. /\ DOMAIN epochs' = 1..(n + 1)
      /\ epochs'[n + 1].available = total
      /\ \A i \in 1..n :
           epochs'[i] = IF i = ExpiringEpoch
                        THEN [epochs[i] EXCEPT !.available = NoFees]
                        ELSE epochs[i]
  <2> DEFINE new == [start_time |-> NextStart, total |-> total,
                     first |-> FirstFee(fees), available |-> total,
                     claimed |-> NoFees]
  <2>1. /\ DOMAIN epochs' = 1..(n + 1)
        /\ epochs'[n + 1] = new
        /\ \A i \in 1..n :
             epochs'[i] = IF i = ExpiringEpoch
                          THEN [epochs[i] EXCEPT !.available = NoFees]
                          ELSE epochs[i]
    BY NewEpochEffect
  <2>2. new.available = total
    OBVIOUS
  <2> HIDE DEF new
  <2> QED
    BY <2>1, <2>2
<1>3. /\ IsFees(fees) /\ IsFees(Unclaimed)
  BY NewFees
<1>4. \A a : Amount(total, a) = Amount(fees, a) + Amount(Unclaimed, a)
  BY <1>3, AggregateFees
<1>5. \A a : Amount(fees, a) \in Nat /\ Amount(Unclaimed, a) \in Nat
  BY <1>3 DEF Amount, IsFees
<1> HIDE DEF n, fees, total
<1> SUFFICES ASSUME NEW a \in Assets
             PROVE  dist_balance'[a] = Sum(AvailableOf(a)', 1..(n + 1))
  BY <1>2 DEF Backed
<1> DEFINE f == AvailableOf(a)
           g == AvailableOf(a)'
<1>6. /\ \A i \in 1..n : f[i] = Amount(epochs[i].available, a) /\ f[i] \in Nat
      /\ \A i \in 1..(n + 1) : g[i] = Amount(epochs'[i].available, a)
  BY <1>1, <1>2, AvailableNat DEF AvailableOf
<1>7. \A i \in 1..(n + 1) : g[i] \in Nat
  BY <1>2, AvailableNatNext
<1>8. dist_balance[a] = Sum(f, 1..n)
  BY <1>1 DEF Backed
<1>9. dist_balance'[a] = dist_balance[a] + Amount(fees, a)
  BY DEF NewEpoch, fees
<1>10. g[n + 1] = Amount(fees, a) + Amount(Unclaimed, a)
  <2>1. n + 1 \in 1..(n + 1)
    BY <1>1
  <2> QED
    BY <1>2, <1>4, <1>6, <2>1
<1> HIDE DEF f, g
<1>11. Sum(g, 1..(n + 1)) = Sum(g, 1..n) + g[n + 1]
  <2>1. (1..(n + 1)) \ {n + 1} = 1..n /\ n + 1 \in 1..(n + 1)
    BY <1>1
  <2>2. IsFiniteSet(1..(n + 1))
    BY <1>1, FS_Interval
  <2>3. Sum(g, 1..(n + 1)) = Sum(g, (1..(n + 1)) \ {n + 1}) + g[n + 1]
    BY <1>7, <2>1, <2>2, SumSplit
  <2> QED
    BY <2>1, <2>3
<1>12. Sum(g, 1..n) = Sum(f, 1..n) - Amount(Unclaimed, a)
  <2>1. CASE epochs = <<>>
    <3>1. n = 0 /\ 1..n = {}
      BY <2>1, EpochsFacts DEF n
    <3>2. Sum(g, 1..n) = 0 /\ Sum(f, 1..n) = 0
      BY <3>1, SumEmpty
    <3>3. Amount(Unclaimed, a) = 0
      BY <2>1, NoFeesIsFees DEF Unclaimed, Amount
    <3> QED
      BY <3>2, <3>3
  <2>2. CASE epochs # <<>>
    <3> DEFINE x == ExpiringEpoch
    <3>1. x \in 1..n
      BY <1>1, <2>2, ExpiringFacts
    <3>2. f[x] = Amount(Unclaimed, a)
      BY <1>6, <2>2, <3>1 DEF Unclaimed
    <3>3. DOMAIN epochs[x] = {"start_time", "total", "first", "available", "claimed"}
      BY <1>1, <3>1 DEF TypeOK, IsEpoch
    <3>4. epochs'[x].available = NoFees
      BY <1>2, <3>1, <3>3
    <3>5. g[x] = 0
      <4>1. x \in 1..(n + 1)
        BY <1>1, <3>1
      <4>2. g[x] = Amount(NoFees, a)
        BY <1>6, <3>4, <4>1
      <4> QED
        BY <4>2, NoFeesIsFees DEF Amount
    <3>6. \A i \in (1..n) \ {x} : g[i] = f[i]
      <4> TAKE i \in (1..n) \ {x}
      <4>1. i \in 1..(n + 1)
        BY <1>1
      <4>2. epochs'[i] = epochs[i]
        BY <1>2
      <4> QED
        BY <1>6, <4>1, <4>2
    <3>7. \A i \in 1..n : f[i] \in Nat /\ g[i] \in Nat
      <4>1. \A i \in 1..n : i \in 1..(n + 1)
        BY <1>1
      <4> QED
        BY <1>6, <1>7, <4>1
    <3> HIDE DEF x
    <3>8. Sum(g, 1..n) = Sum(f, 1..n) + g[x] - f[x]
      BY <1>1, <3>1, <3>6, <3>7, SumChange
    <3>9. Sum(f, 1..n) \in Nat
      BY <1>1, <3>7, SumNat
    <3> QED
      BY <1>5, <3>2, <3>5, <3>8, <3>9
  <2> QED
    BY <2>1, <2>2
<1>13. Sum(f, 1..n) \in Nat
  BY <1>1, <1>6, SumNat
<1>14. dist_balance'[a] = Sum(g, 1..(n + 1))
  BY <1>5, <1>8, <1>9, <1>10, <1>11, <1>12, <1>13
<1> QED
  BY <1>14 DEF g

(* A claim takes exactly what it pays out of the epochs it is paid from. *)
LEMMA BackedClaim ==
  ASSUME TypeOK, TypeOK', Backed, NEW u \in Users, NEW share \in Nat,
         Claim(u, share)
  PROVE  Backed'
<1> DEFINE ids == ClaimableEpochs(u)
           D == DOMAIN epochs
           rest == D \ ids
<1>1. IsFiniteSet(D)
  BY EpochsFacts
<1>2. /\ ids \subseteq D
      /\ \A i \in ids : \A a \in DOMAIN epochs[i].total :
           /\ a \in DOMAIN epochs[i].available
           /\ Reward(i, a, share) \in Nat
           /\ Reward(i, a, share) <= epochs[i].available[a]
      /\ \A i \in ids : DOMAIN epochs[i].available = DOMAIN epochs[i].total
      /\ \A i \in ids :
           epochs'[i].available =
             [a \in DOMAIN epochs[i].available |->
                epochs[i].available[a] - Reward(i, a, share)]
      /\ \A i \in rest : epochs'[i] = epochs[i]
      /\ DOMAIN epochs' = D
  BY ClaimFacts
<1> SUFFICES ASSUME NEW a \in Assets
             PROVE  dist_balance'[a] = Sum(AvailableOf(a)', D)
  BY <1>2 DEF Backed
<1> DEFINE f == AvailableOf(a)
           g == AvailableOf(a)'
           p == [i \in D |-> IF a \in DOMAIN epochs[i].total
                             THEN Reward(i, a, share) ELSE 0]
<1>3. /\ \A i \in D : f[i] = Amount(epochs[i].available, a) /\ f[i] \in Nat
      /\ \A i \in D : g[i] = Amount(epochs'[i].available, a)
  BY <1>2, AvailableNat DEF AvailableOf
<1>4. \A i \in D : g[i] \in Nat
  BY <1>2, AvailableNatNext
<1>5. dist_balance'[a] = dist_balance[a] - Sum(p, ids)
  BY DEF Claim, Paid
<1>6. dist_balance[a] = Sum(f, D)
  BY DEF Backed
<1>7. \A i \in ids : p[i] \in Nat /\ f[i] = g[i] + p[i]
  <2> TAKE i \in ids
  <2> DEFINE av == epochs[i].available
  <2>1. i \in D
    BY <1>2
  <2>2. CASE a \in DOMAIN epochs[i].total
    <3>1. /\ a \in DOMAIN av /\ Reward(i, a, share) \in Nat
          /\ Reward(i, a, share) <= av[a]
      BY <1>2, <2>2
    <3>2. f[i] = av[a] /\ av[a] \in Nat
      BY <1>3, <2>1, <3>1 DEF Amount
    <3>3. /\ DOMAIN epochs'[i].available = DOMAIN av
          /\ epochs'[i].available[a] = av[a] - Reward(i, a, share)
      BY <1>2, <3>1
    <3>4. g[i] = av[a] - Reward(i, a, share)
      BY <1>3, <2>1, <3>1, <3>3 DEF Amount
    <3>5. p[i] = Reward(i, a, share)
      BY <2>1, <2>2
    <3> HIDE DEF f, g, p, av
    <3> QED
      BY <3>1, <3>2, <3>4, <3>5
  <2>3. CASE a \notin DOMAIN epochs[i].total
    <3>1. a \notin DOMAIN av /\ DOMAIN epochs'[i].available = DOMAIN av
      BY <1>2, <2>3
    <3>2. f[i] = 0 /\ g[i] = 0
      BY <1>3, <2>1, <3>1 DEF Amount
    <3>3. p[i] = 0
      BY <2>1, <2>3
    <3> HIDE DEF f, g, p
    <3> QED
      BY <3>2, <3>3
  <2> QED
    BY <2>2, <2>3
<1>8. \A i \in rest : g[i] = f[i]
  BY <1>2, <1>3
<1> HIDE DEF ids, D, f, g, p
<1>9. /\ IsFiniteSet(ids) /\ IsFiniteSet(rest)
      /\ ids \cap rest = {} /\ ids \cup rest = D
  <2>1. ids \subseteq D /\ rest \subseteq D
    BY <1>2
  <2>2. IsFiniteSet(ids) /\ IsFiniteSet(rest)
    BY <1>1, <2>1, FS_Subset
  <2> QED
    BY <1>2, <2>2
<1> HIDE DEF rest
<1>10. Sum(f, D) = Sum(f, ids) + Sum(f, rest) /\ Sum(g, D) = Sum(g, ids) + Sum(g, rest)
  <2>1. \A i \in ids \cup rest : f[i] \in Nat /\ g[i] \in Nat
    BY <1>3, <1>4, <1>9
  <2>2. Sum(f, ids \cup rest) = Sum(f, ids) + Sum(f, rest)
    BY <1>9, <2>1, SumDisjoint
  <2>3. Sum(g, ids \cup rest) = Sum(g, ids) + Sum(g, rest)
    BY <1>9, <2>1, SumDisjoint
  <2> QED
    BY <1>9, <2>2, <2>3
<1>11. Sum(g, rest) = Sum(f, rest)
  BY <1>8, SumExt
<1>12. \A i \in ids : g[i] \in Nat /\ p[i] \in Nat
  BY <1>2, <1>4, <1>7
<1>13. Sum(f, ids) = Sum(g, ids) + Sum(p, ids)
  BY <1>7, <1>9, <1>12, SumAdd
<1>14. /\ Sum(g, ids) \in Nat /\ Sum(p, ids) \in Nat /\ Sum(g, rest) \in Nat
  <2>1. \A i \in rest : g[i] \in Nat
    BY <1>4, <1>9
  <2> QED
    BY <1>9, <1>12, <2>1, SumNat
<1>15. dist_balance'[a] = Sum(g, D)
  BY <1>5, <1>6, <1>10, <1>11, <1>13, <1>14
<1> QED
  BY <1>15 DEF g, D

(* A new epoch empties the only epoch that leaves the grace period. *)
LEMMA NoStrandedNewEpoch ==
  ASSUME TypeOK, TypeOK', NoStrandedFees, NEW amount \in Nat, NewEpoch(amount)
  PROVE  NoStrandedFees'
<1> DEFINE n == Len(epochs)
           g == dist_config.grace_period
<1>1. n \in Nat /\ DOMAIN epochs = 1..n
  BY EpochsFacts
<1>2. g \in Nat /\ g # 0 /\ dist_config' = dist_config
  BY DEF TypeOK, NewEpoch
<1>3. /\ DOMAIN epochs' = 1..(n + 1)
      /\ Len(epochs') = n + 1
      /\ \A i \in 1..n :
           epochs'[i] = IF i = ExpiringEpoch
                        THEN [epochs[i] EXCEPT !.available = NoFees]
                        ELSE epochs[i]
  BY NewEpochEffect
<1>4. GraceEpochs' = {i \in 1..(n + 1) : i > n + 1 - g}
  BY <1>2, <1>3 DEF GraceEpochs
<1>5. GraceEpochs = {i \in 1..n : i > n - g}
  BY <1>1 DEF GraceEpochs
<1> HIDE DEF n, g
<1> SUFFICES ASSUME NEW i \in 1..(n + 1), i \notin GraceEpochs'
             PROVE  epochs'[i].available = NoFees
  BY <1>3 DEF NoStrandedFees
<1>6. i \in 1..n /\ i <= n + 1 - g
  BY <1>1, <1>2, <1>4
<1>7. epochs # <<>>
  BY <1>1, <1>6
<1>8. CASE i = n + 1 - g
  <2>1. i \in GraceEpochs /\ \A j \in GraceEpochs : i <= j
    BY <1>1, <1>2, <1>5, <1>6, <1>8
  <2>2. ExpiringEpoch \in GraceEpochs /\ ExpiringEpoch <= i
    BY <1>7, <2>1, ExpiringFacts
  <2>3. ExpiringEpoch = i
    BY <1>5, <2>1, <2>2
  <2>4. DOMAIN epochs[i] = {"start_time", "total", "first", "available", "claimed"}
    BY <1>1, <1>6 DEF TypeOK, IsEpoch
  <2> QED
    BY <1>3, <1>6, <2>3, <2>4
<1>9. CASE i # n + 1 - g
  <2>1. i \notin GraceEpochs
    BY <1>1, <1>2, <1>5, <1>6, <1>9
  <2>2. ExpiringEpoch # i
    BY <1>7, <2>1, ExpiringFacts
  <2> QED
    BY <1>1, <1>3, <1>6, <2>1, <2>2 DEF NoStrandedFees
<1> QED
  BY <1>8, <1>9

(* A new epoch starts one duration after the one before it. *)
LEMMA ScheduleNewEpoch ==
  ASSUME TypeOK, TypeOK', OnSchedule, NEW amount \in Nat, NewEpoch(amount)
  PROVE  OnSchedule'
<1> DEFINE n == Len(epochs)
<1>1. n \in Nat /\ DOMAIN epochs = 1..n /\ ((epochs = <<>>) <=> (n = 0))
  BY EpochsFacts
<1>2. /\ DOMAIN epochs' = 1..(n + 1)
      /\ epochs'[n + 1].start_time = NextStart
      /\ \A i \in 1..n :
           epochs'[i] = IF i = ExpiringEpoch
                        THEN [epochs[i] EXCEPT !.available = NoFees]
                        ELSE epochs[i]
  <2> DEFINE total == AggregateAssets(CollectedFees(amount), Unclaimed)
             new == [start_time |-> NextStart, total |-> total,
                     first |-> FirstFee(CollectedFees(amount)),
                     available |-> total, claimed |-> NoFees]
  <2>1. /\ DOMAIN epochs' = 1..(n + 1)
        /\ epochs'[n + 1] = new
        /\ \A i \in 1..n :
             epochs'[i] = IF i = ExpiringEpoch
                          THEN [epochs[i] EXCEPT !.available = NoFees]
                          ELSE epochs[i]
    BY NewEpochEffect
  <2>2. new.start_time = NextStart
    OBVIOUS
  <2> HIDE DEF new
  <2> QED
    BY <2>1, <2>2
<1>3. /\ time \in Nat /\ time' = time /\ Duration \in Nat /\ Genesis \in Nat
      /\ time - CurrentStart >= Duration
  BY DistributorAssumption DEF TypeOK, NewEpoch, EpochOver
<1> HIDE DEF n
<1>4. \A i \in 1..n : epochs'[i].start_time = epochs[i].start_time
  <2> TAKE i \in 1..n
  <2>1. DOMAIN epochs[i] = {"start_time", "total", "first", "available", "claimed"}
    BY <1>1 DEF TypeOK, IsEpoch
  <2> QED
    BY <1>2, <2>1
<1>5. /\ NextStart = Genesis + n * Duration
      /\ n # 0 => NextStart <= time
  <2>1. CASE n = 0
    BY <1>1, <1>3, <2>1 DEF NextStart
  <2>2. CASE n # 0
    <3>1. n \in 1..n
      BY <1>1, <2>2
    <3>2. CurrentStart = epochs[n].start_time
      BY <1>1, <2>2 DEF CurrentStart, n
    <3>3. CurrentStart = Genesis + (n - 1) * Duration
      BY <1>1, <3>1, <3>2 DEF OnSchedule
    <3>4. (n - 1) * Duration + Duration = n * Duration
      BY <1>1, <1>3
    <3>5. (n - 1) * Duration \in Int
      BY <1>1, <1>3
    <3>6. NextStart = CurrentStart + Duration
      BY <1>1, <2>2 DEF NextStart
    <3>7. NextStart = Genesis + n * Duration
      BY <1>3, <3>3, <3>4, <3>5, <3>6
    <3>8. NextStart <= time
      BY <1>3, <3>3, <3>5, <3>6
    <3> QED
      BY <3>7, <3>8
  <2> QED
    BY <2>1, <2>2
<1>6. \A i \in 1..(n + 1) :
        /\ epochs'[i].start_time = Genesis + (i - 1) * Duration
        /\ i > 1 => epochs'[i].start_time <= time
  <2> TAKE i \in 1..(n + 1)
  <2>1. CASE i = n + 1
    BY <1>1, <1>2, <1>5, <2>1
  <2>2. CASE i # n + 1
    <3>1. i \in 1..n
      BY <1>1, <2>2
    <3> QED
      BY <1>1, <1>4, <3>1 DEF OnSchedule
  <2> QED
    BY <2>1, <2>2
<1> QED
  BY <1>2, <1>3, <1>6 DEF OnSchedule

(* A claim moves no epoch in time and touches none outside the grace period. *)
LEMMA ClaimKeeps ==
  ASSUME TypeOK, NoStrandedFees, OnSchedule,
         NEW u \in Users, NEW share \in Nat, Claim(u, share)
  PROVE  NoStrandedFees' /\ OnSchedule'
<1> DEFINE ids == ClaimableEpochs(u)
<1>1. /\ \A i \in ids : epochs'[i].start_time = epochs[i].start_time
      /\ \A i \in DOMAIN epochs \ ids : epochs'[i] = epochs[i]
      /\ DOMAIN epochs' = DOMAIN epochs /\ Len(epochs') = Len(epochs)
  BY ClaimFacts
<1>2. dist_config' = dist_config /\ time' = time
  BY DEF Claim
<1>3. GraceEpochs' = GraceEpochs
  BY <1>1, <1>2 DEF GraceEpochs
<1>4. ids \subseteq GraceEpochs
  BY DEF ClaimableEpochs
<1> HIDE DEF ids
<1>5. NoStrandedFees'
  BY <1>1, <1>3, <1>4 DEF NoStrandedFees
<1>6. \A i \in DOMAIN epochs : epochs'[i].start_time = epochs[i].start_time
  BY <1>1
<1>7. OnSchedule'
  BY <1>1, <1>2, <1>6 DEF OnSchedule
<1> QED
  BY <1>5, <1>7

LEMMA InvInit == Init => DistInv
<1> SUFFICES ASSUME Init
             PROVE  DistInv
  OBVIOUS
<1>1. TypeOK
  BY TypeInit
<1>2. epochs = <<>> /\ DOMAIN epochs = {}
  BY DEF Init
<1>3. Backed
  <2>1. \A a \in Assets : Sum(AvailableOf(a), DOMAIN epochs) = 0
    BY <1>2, SumEmpty
  <2> QED
    BY <2>1 DEF Init, Backed
<1>4. NoStrandedFees /\ OnSchedule
  BY <1>2 DEF NoStrandedFees, OnSchedule
<1> QED
  BY <1>1, <1>3, <1>4 DEF DistInv

LEMMA InvStep == DistInv /\ [Next]_vars => DistInv'
<1> SUFFICES ASSUME DistInv, [Next]_vars
             PROVE  DistInv'
  OBVIOUS
<1> USE DEF DistInv
<1>1. TypeOK'
  BY TypeStep
<1>2. CASE Tick
  <2>1. UNCHANGED <<dist_config, epochs, last_claimed, dist_balance>>
    BY <1>2 DEF Tick, dist_vars
  <2>2. Backed' /\ NoStrandedFees'
    BY <2>1 DEF Backed, NoStrandedFees, AvailableOf, GraceEpochs
  <2>3. time \in Nat /\ time' = time + 1
    BY <1>2 DEF Tick, TypeOK
  <2>4. \A i \in DOMAIN epochs : epochs[i].start_time \in Nat
    BY DEF TypeOK, IsEpoch
  <2>5. OnSchedule'
    BY <2>1, <2>3, <2>4 DEF OnSchedule
  <2> QED
    BY <1>1, <2>2, <2>5
<1>3. ASSUME NEW amount \in FeeAmounts, NewEpoch(amount)
      PROVE  DistInv'
  <2>1. amount \in Nat
    BY DistributorAssumption
  <2> QED
    BY <1>1, <1>3, <2>1, BackedNewEpoch, NoStrandedNewEpoch, ScheduleNewEpoch
<1>4. ASSUME NEW u \in Users, NEW share \in Shares, Claim(u, share)
      PROVE  DistInv'
  <2>1. share \in Nat
    BY DistributorAssumption
  <2> QED
    BY <1>1, <1>4, <2>1, BackedClaim, ClaimKeeps
<1>5. ASSUME NEW sender \in Admins, NEW owner \in Admins,
             NEW grace \in GracePeriods, NEW asset \in Assets,
             UpdateConfig(sender, owner, grace, asset)
      PROVE  DistInv'
  <2>1. UNCHANGED <<time, epochs, last_claimed, dist_balance>>
    BY <1>5 DEF UpdateConfig
  <2>2. Backed' /\ OnSchedule'
    BY <2>1 DEF Backed, OnSchedule, AvailableOf
  <2>3. GraceEpochs \subseteq GraceEpochs'
    <3>1. /\ dist_config'.grace_period = grace /\ grace \in Nat
          /\ dist_config.grace_period <= grace
          /\ dist_config.grace_period \in Nat
      BY <1>5 DEF UpdateConfig, TypeOK
    <3>2. Len(epochs) \in Nat /\ DOMAIN epochs = 1..Len(epochs)
      BY EpochsFacts
    <3> QED
      BY <2>1, <3>1, <3>2 DEF GraceEpochs
  <2>4. NoStrandedFees'
    BY <2>1, <2>3 DEF NoStrandedFees
  <2> QED
    BY <1>1, <2>2, <2>4
<1>6. CASE UNCHANGED vars
  BY <1>1, <1>6
  DEF vars, dist_vars, Backed, NoStrandedFees, OnSchedule, AvailableOf, GraceEpochs
<1> QED
  BY <1>2, <1>3, <1>4, <1>5, <1>6 DEF Next, CreateEpoch, Configure

LEMMA InvAlways == Spec => []DistInv
<1>1. Init => DistInv
  BY InvInit
<1>2. DistInv /\ [Next]_vars => DistInv'
  BY InvStep
<1> QED
  BY <1>1, <1>2, PTL DEF Spec

(* The coins of the contract are exactly the fees its epochs still offer. *)
THEOREM FeesBacked == Spec => []Backed
<1>1. DistInv => Backed
  BY DEF DistInv
<1> QED
  BY <1>1, InvAlways, PTL

(* Nothing stays behind in an epoch that has left the grace period, however *)
(* the owner raises it.                                                     *)
THEOREM NothingStranded == Spec => []NoStrandedFees
<1>1. DistInv => NoStrandedFees
  BY DEF DistInv
<1> QED
  BY <1>1, InvAlways, PTL

(* The epochs keep to their schedule. *)
THEOREM ScheduleKept == Spec => []OnSchedule
<1>1. DistInv => OnSchedule
  BY DEF DistInv
<1> QED
  BY <1>1, InvAlways, PTL

-----------------------------------------------------------------------------
(* Claims *)

(* No call takes fees out of an epoch except a claim of a user who had not  *)
(* claimed it, and has claimed it afterwards, or the handover at its end.   *)
THEOREM ClaimsAreOnce == Spec => ClaimOnce
<1> DEFINE Once ==
      \A i \in DOMAIN epochs :
        \/ epochs'[i].available = epochs[i].available
        \/ epochs'[i].available = NoFees /\ Len(epochs') > Len(epochs)
        \/ \E u \in Users : last_claimed[u] < i /\ i <= last_claimed'[u]
<1>1. TypeOK /\ [Next]_vars => [Once]_vars
  <2> SUFFICES ASSUME TypeOK, Next
               PROVE  Once
    OBVIOUS
  <2>1. CASE Tick
    BY <2>1 DEF Tick, dist_vars
  <2>2. ASSUME NEW amount \in FeeAmounts, NewEpoch(amount)
        PROVE  Once
    <3>1. amount \in Nat
      BY DistributorAssumption
    <3>2. /\ Len(epochs') = Len(epochs) + 1
          /\ \A i \in 1..Len(epochs) :
               epochs'[i] = IF i = ExpiringEpoch
                            THEN [epochs[i] EXCEPT !.available = NoFees]
                            ELSE epochs[i]
      BY <2>2, <3>1, NewEpochEffect
    <3>3. Len(epochs) \in Nat /\ DOMAIN epochs = 1..Len(epochs)
      BY EpochsFacts
    <3>4. \A i \in DOMAIN epochs :
            [epochs[i] EXCEPT !.available = NoFees].available = NoFees
      <4> TAKE i \in DOMAIN epochs
      <4>1. "available" \in DOMAIN epochs[i]
        BY DEF TypeOK, IsEpoch
      <4> QED
        BY <4>1
    <3>5. \A i \in DOMAIN epochs :
            \/ epochs'[i].available = epochs[i].available
            \/ epochs'[i].available = NoFees
      BY <3>2, <3>3, <3>4
    <3>6. Len(epochs') > Len(epochs)
      BY <3>2, <3>3
    <3> QED
      BY <3>5, <3>6
  <2>3. ASSUME NEW u \in Users, NEW share \in Shares, Claim(u, share)
        PROVE  Once
    <3> DEFINE ids == ClaimableEpochs(u)
    <3>1. share \in Nat
      BY DistributorAssumption
    <3>2. /\ \A j \in ids : ClaimedUpTo(ids) >= j
          /\ \A i \in DOMAIN epochs \ ids : epochs'[i] = epochs[i]
      BY <2>3, <3>1, ClaimFacts
    <3>3. last_claimed' = [last_claimed EXCEPT ![u] = ClaimedUpTo(ids)]
      BY <2>3 DEF Claim
    <3>4. last_claimed'[u] = ClaimedUpTo(ids)
      BY <3>3 DEF TypeOK
    <3>5. \A i \in ids : last_claimed[u] < i
      BY DEF ClaimableEpochs
    <3> HIDE DEF ids
    <3>6. \A i \in ids : i <= last_claimed'[u]
      <4> TAKE i \in ids
      <4>1. ClaimedUpTo(ids) >= i
        BY <3>2
      <4> QED
        BY <3>4, <4>1
    <3>7. \A i \in DOMAIN epochs :
            \/ epochs'[i].available = epochs[i].available
            \/ last_claimed[u] < i /\ i <= last_claimed'[u]
      BY <3>2, <3>5, <3>6
    <3> QED
      BY <3>7
  <2>4. ASSUME NEW sender \in Admins, NEW owner \in Admins,
               NEW grace \in GracePeriods, NEW asset \in Assets,
               UpdateConfig(sender, owner, grace, asset)
        PROVE  Once
    BY <2>4 DEF UpdateConfig
  <2> QED
    BY <2>1, <2>2, <2>3, <2>4 DEF Next, CreateEpoch, Configure
<1>2. Spec => [][Next]_vars /\ []TypeOK
  BY TypeCorrect DEF Spec
<1> QED
  BY <1>1, <1>2, PTL DEF ClaimOnce

(* What is left of an epoch is handed over as a whole: only a new epoch     *)
(* empties one, takes over all it had, and empties the one that leaves the  *)
(* grace period with it, or the first of all while there are fewer epochs   *)
(* than the grace period.                                                   *)
THEOREM LeftoversHandedOver == Spec => FeesHandedOver
<1> DEFINE HandedOver ==
             \A i \in DOMAIN epochs :
               (epochs[i].available # NoFees /\ epochs'[i].available = NoFees) =>
               /\ Len(epochs') = Len(epochs) + 1
               /\ \A a \in Assets : Amount(epochs'[Len(epochs')].available, a)
                                    >= Amount(epochs[i].available, a)
               /\ \/ i \notin GraceEpochs'
                  \/ i = 1 /\ Len(epochs) < dist_config.grace_period
<1>1. TypeOK /\ [Next]_vars => [HandedOver]_vars
  <2> SUFFICES ASSUME TypeOK, Next
               PROVE  HandedOver
    OBVIOUS
  <2>1. ASSUME epochs' = epochs
        PROVE  HandedOver
    BY <2>1
  <2>2. ASSUME NEW amount \in FeeAmounts, NewEpoch(amount)
        PROVE  HandedOver
    <3> DEFINE n == Len(epochs)
               g == dist_config.grace_period
               fees == CollectedFees(amount)
               total == AggregateAssets(fees, Unclaimed)
    <3> SUFFICES ASSUME NEW i \in DOMAIN epochs,
                        epochs[i].available # NoFees,
                        epochs'[i].available = NoFees
                 PROVE  /\ Len(epochs') = n + 1
                        /\ \A a \in Assets :
                             Amount(epochs'[Len(epochs')].available, a)
                             >= Amount(epochs[i].available, a)
                        /\ i \notin GraceEpochs' \/ (i = 1 /\ n < g)
      OBVIOUS
    <3>1. n \in Nat /\ DOMAIN epochs = 1..n /\ i \in 1..n /\ epochs # <<>>
      BY EpochsFacts
    <3>2. g \in Nat /\ g # 0 /\ dist_config' = dist_config
      BY <2>2 DEF TypeOK, NewEpoch
    <3>3. amount \in Nat
      BY DistributorAssumption
    <3>4. /\ Len(epochs') = n + 1
          /\ epochs'[n + 1].available = total
          /\ i # ExpiringEpoch => epochs'[i] = epochs[i]
      <4> DEFINE new == [start_time |-> NextStart, total |-> total,
                         first |-> FirstFee(fees), available |-> total,
                         claimed |-> NoFees]
      <4>1. /\ Len(epochs') = n + 1
            /\ epochs'[n + 1] = new
            /\ i # ExpiringEpoch => epochs'[i] = epochs[i]
        BY <2>2, <3>1, <3>3, NewEpochEffect
      <4>2. new.available = total
        OBVIOUS
      <4> HIDE DEF new
      <4> QED
        BY <4>1, <4>2
    <3>5. i = ExpiringEpoch
      BY <3>4
    <3>6. \A a \in Assets : Amount(total, a) >= Amount(epochs[i].available, a)
      <4>1. IsFees(fees) /\ IsFees(Unclaimed)
        BY <3>3, NewFees
      <4>2. Unclaimed = epochs[i].available
        BY <3>1, <3>5 DEF Unclaimed
      <4> HIDE DEF fees
      <4>3. \A a : Amount(total, a) = Amount(fees, a) + Amount(Unclaimed, a)
        BY <4>1, AggregateFees
      <4>4. \A a : Amount(fees, a) \in Nat /\ Amount(Unclaimed, a) \in Nat
        BY <4>1 DEF Amount, IsFees
      <4> HIDE DEF total
      <4>5. \A a : Amount(total, a) >= Amount(Unclaimed, a)
        BY <4>3, <4>4
      <4> QED
        BY <4>2, <4>5
    <3>7. i \notin GraceEpochs' \/ (i = 1 /\ n < g)
      <4>2. \A j \in GraceEpochs : i <= j
        BY <3>1, <3>5, ExpiringFacts
      <4>3. GraceEpochs = {j \in 1..n : j > n - g}
        BY <3>1 DEF GraceEpochs
      <4>4. \A j \in GraceEpochs' : j > n + 1 - g
        BY <3>2, <3>4 DEF GraceEpochs
      <4> HIDE DEF n, g
      <4>5. CASE n < g
        <5>1. 1 \in GraceEpochs
          BY <3>1, <3>2, <4>3, <4>5
        <5> QED
          BY <3>1, <4>2, <4>5, <5>1
      <4>6. CASE g <= n
        <5>1. n - g + 1 \in GraceEpochs
          BY <3>1, <3>2, <4>3, <4>6
        <5>2. i <= n - g + 1
          BY <4>2, <5>1
        <5>3. ~(i > n + 1 - g)
          BY <3>1, <3>2, <5>2
        <5> QED
          BY <4>4, <5>3
      <4> QED
        BY <3>1, <3>2, <4>5, <4>6
    <3> HIDE DEF total
    <3> QED
      BY <3>4, <3>6, <3>7
  <2>3. ASSUME NEW u \in Users, NEW share \in Shares, Claim(u, share)
        PROVE  HandedOver
    <3> DEFINE ids == ClaimableEpochs(u)
    <3> SUFFICES ASSUME NEW i \in DOMAIN epochs,
                        epochs[i].available # NoFees,
                        epochs'[i].available = NoFees
                 PROVE  FALSE
      OBVIOUS
    <3>1. share \in Nat
      BY DistributorAssumption
    <3>2. /\ \A j \in ids : epochs'[j].available =
                [a \in DOMAIN epochs[j].available |->
                   epochs[j].available[a] - Reward(j, a, share)]
          /\ \A j \in DOMAIN epochs \ ids : epochs'[j] = epochs[j]
      BY <2>3, <3>1, ClaimFacts
    <3> HIDE DEF ids
    <3>3. DOMAIN epochs'[i].available = DOMAIN epochs[i].available
      BY <3>2
    <3>4. epochs[i].available \in [DOMAIN epochs[i].available -> Nat]
      BY DEF TypeOK, IsEpoch, IsFees
    <3>5. DOMAIN epochs[i].available = {} => epochs[i].available = NoFees
      BY <3>4 DEF NoFees
    <3>6. DOMAIN NoFees = {}
      BY NoFeesIsFees
    <3> QED
      BY <3>3, <3>5, <3>6
  <2> QED
    BY <2>1, <2>2, <2>3
    DEF Next, Tick, CreateEpoch, Configure, UpdateConfig, dist_vars
<1>2. Spec => [][Next]_vars /\ []TypeOK
  BY TypeCorrect DEF Spec
<1> QED
  BY <1>1, <1>2, PTL DEF FeesHandedOver

(* The second epoch takes over what the first has left, and nothing returns *)
(* to the first.                                                            *)
FirstEmptied == Len(epochs) > 1 => epochs[1].available = NoFees

LEMMA FirstEmptiedStep ==
  ASSUME TypeOK, FirstEmptied, [Next]_vars
  PROVE  FirstEmptied'
<1>1. CASE epochs' = epochs
  BY <1>1 DEF FirstEmptied
<1>2. ASSUME NEW amount \in FeeAmounts, NewEpoch(amount)
      PROVE  FirstEmptied'
  <2> DEFINE n == Len(epochs)
  <2>1. n \in Nat /\ DOMAIN epochs = 1..n
    BY EpochsFacts
  <2>2. amount \in Nat
    BY DistributorAssumption
  <2>3. /\ Len(epochs') = n + 1
        /\ \A i \in 1..n :
             epochs'[i] = IF i = ExpiringEpoch
                          THEN [epochs[i] EXCEPT !.available = NoFees]
                          ELSE epochs[i]
    BY <1>2, <2>2, NewEpochEffect
  <2> SUFFICES ASSUME n >= 1
               PROVE  epochs'[1].available = NoFees
    BY <2>1, <2>3 DEF FirstEmptied
  <2>4. 1 \in DOMAIN epochs /\ epochs # <<>>
    BY <2>1
  <2>5. "available" \in DOMAIN epochs[1]
    BY <2>4 DEF TypeOK, IsEpoch
  <2>6. CASE ExpiringEpoch = 1
    BY <2>1, <2>3, <2>4, <2>5, <2>6
  <2>7. CASE ExpiringEpoch # 1
    <3>1. n # 1
      BY <2>1, <2>4, <2>7, ExpiringFacts
    <3>2. epochs[1].available = NoFees
      BY <2>1, <3>1 DEF FirstEmptied
    <3> QED
      BY <2>1, <2>3, <2>4, <2>7, <3>2
  <2> QED
    BY <2>6, <2>7
<1>3. ASSUME NEW u \in Users, NEW share \in Shares, Claim(u, share)
      PROVE  FirstEmptied'
  <2> DEFINE ids == ClaimableEpochs(u)
  <2>1. share \in Nat
    BY DistributorAssumption
  <2>2. /\ \A j \in ids : epochs'[j].available =
              [a \in DOMAIN epochs[j].available |->
                 epochs[j].available[a] - Reward(j, a, share)]
        /\ \A j \in DOMAIN epochs \ ids : epochs'[j] = epochs[j]
        /\ Len(epochs') = Len(epochs)
    BY <1>3, <2>1, ClaimFacts
  <2>3. Len(epochs) \in Nat /\ DOMAIN epochs = 1..Len(epochs)
    BY EpochsFacts
  <2> HIDE DEF ids
  <2> SUFFICES ASSUME Len(epochs) > 1, epochs[1].available = NoFees
               PROVE  epochs'[1].available = NoFees
    BY <2>2 DEF FirstEmptied
  <2>4. CASE 1 \in ids
    BY <2>2, <2>4 DEF NoFees
  <2>5. CASE 1 \notin ids
    BY <2>2, <2>3, <2>5
  <2> QED
    BY <2>4, <2>5
<1> QED
  BY <1>1, <1>2, <1>3
  DEF Next, Tick, CreateEpoch, Configure, UpdateConfig, dist_vars, vars

(* Whoever has an emptied epoch among those it can claim, the first of all  *)
(* once there is a second or one that a longer grace period has reopened,   *)
(* cannot claim anything.                                                   *)
THEOREM EmptiedLockOut == Spec => EmptiedEpochsLockOut
<1> DEFINE LockedOut ==
             \A u \in Users : \A i \in ClaimableEpochs(u) :
               /\ DOMAIN epochs[i].total # {}
               /\ (i = 1 /\ Len(epochs) > 1) \/ epochs[i].available = NoFees
               => last_claimed'[u] = last_claimed[u]
           Inv == TypeOK /\ FirstEmptied
<1>1. Inv /\ [Next]_vars => [LockedOut]_vars
  <2> SUFFICES ASSUME Inv, Next
               PROVE  LockedOut
    OBVIOUS
  <2>1. ASSUME last_claimed' = last_claimed
        PROVE  LockedOut
    BY <2>1
  <2>2. ASSUME NEW v \in Users, NEW share \in Shares, Claim(v, share)
        PROVE  LockedOut
    <3> SUFFICES ASSUME NEW u \in Users, NEW i \in ClaimableEpochs(u),
                        DOMAIN epochs[i].total # {},
                        \/ i = 1 /\ Len(epochs) > 1
                        \/ epochs[i].available = NoFees
                 PROVE  last_claimed'[u] = last_claimed[u]
      OBVIOUS
    <3>1. epochs[i].available = NoFees
      BY DEF FirstEmptied
    <3>2. DOMAIN epochs[i].available = {}
      BY <3>1, NoFeesIsFees
    <3>3. v # u
      BY <2>2, <3>2 DEF Claim, Sound
    <3>4. last_claimed' =
            [last_claimed EXCEPT ![v] = ClaimedUpTo(ClaimableEpochs(v))]
      BY <2>2 DEF Claim
    <3> QED
      BY <3>3, <3>4 DEF TypeOK
  <2> QED
    BY <2>1, <2>2
    DEF Next, Tick, CreateEpoch, NewEpoch, Configure, UpdateConfig, dist_vars
<1>2. Init => FirstEmptied
  BY DEF Init, FirstEmptied
<1>3. Spec => []Inv
  <2>1. TypeOK /\ FirstEmptied /\ [Next]_vars => FirstEmptied'
    BY FirstEmptiedStep
  <2> QED
    BY <1>2, <2>1, TypeCorrect, PTL DEF Spec
<1>4. Spec => [][Next]_vars
  BY PTL DEF Spec
<1> QED
  BY <1>1, <1>3, <1>4, PTL DEF EmptiedEpochsLockOut

-----------------------------------------------------------------------------
(* Shares above one *)

(* An epoch never offers more of a fee than it was created with. *)
AvailableBounded ==
  \A i \in DOMAIN epochs : \A a \in DOMAIN epochs[i].available :
    epochs[i].available[a] <= epochs[i].total[a]

LEMMA AvailableBoundedStep ==
  ASSUME TypeOK, AvailableBounded, [Next]_vars
  PROVE  AvailableBounded'
<1>1. CASE epochs' = epochs
  BY <1>1 DEF AvailableBounded
<1>2. ASSUME NEW amount \in FeeAmounts, NewEpoch(amount)
      PROVE  AvailableBounded'
  <2> DEFINE n == Len(epochs)
             total == AggregateAssets(CollectedFees(amount), Unclaimed)
             new == [start_time |-> NextStart, total |-> total,
                     first |-> FirstFee(CollectedFees(amount)),
                     available |-> total, claimed |-> NoFees]
  <2>1. amount \in Nat
    BY DistributorAssumption
  <2>2. /\ DOMAIN epochs' = 1..(n + 1)
        /\ epochs'[n + 1] = new
        /\ \A i \in 1..n :
             epochs'[i] = IF i = ExpiringEpoch
                          THEN [epochs[i] EXCEPT !.available = NoFees]
                          ELSE epochs[i]
    BY <1>2, <2>1, NewEpochEffect
  <2>3. n \in Nat /\ DOMAIN epochs = 1..n
    BY EpochsFacts
  <2>4. IsFees(total)
    BY <2>1, NewFees
  <2>5. /\ \A a \in DOMAIN total : total[a] <= total[a]
        /\ new.total = total /\ new.available = total
    BY <2>4 DEF IsFees
  <2>6. \A i \in 1..n : DOMAIN [epochs[i] EXCEPT !.available = NoFees].available = {}
    <3> TAKE i \in 1..n
    <3>1. "available" \in DOMAIN epochs[i]
      BY <2>3 DEF TypeOK, IsEpoch
    <3> QED
      BY <3>1, NoFeesIsFees
  <2> HIDE DEF n, total, new
  <2> SUFFICES ASSUME NEW i \in 1..(n + 1), NEW a \in DOMAIN epochs'[i].available
               PROVE  epochs'[i].available[a] <= epochs'[i].total[a]
    BY <2>2 DEF AvailableBounded
  <2>7. CASE i = n + 1
    BY <2>2, <2>5, <2>7
  <2>8. CASE i # n + 1
    <3>1. i \in 1..n
      BY <2>3, <2>8
    <3>2. i # ExpiringEpoch /\ epochs'[i] = epochs[i]
      BY <2>2, <2>6, <3>1
    <3> QED
      BY <2>3, <3>1, <3>2 DEF AvailableBounded
  <2> QED
    BY <2>7, <2>8
<1>3. ASSUME NEW u \in Users, NEW share \in Shares, Claim(u, share)
      PROVE  AvailableBounded'
  <2> DEFINE ids == ClaimableEpochs(u)
  <2>1. share \in Nat
    BY DistributorAssumption
  <2>2. /\ ids \subseteq DOMAIN epochs
        /\ \A i \in ids : \A a \in DOMAIN epochs[i].total :
             Reward(i, a, share) \in Nat
        /\ \A i \in ids : DOMAIN epochs[i].available = DOMAIN epochs[i].total
        /\ \A i \in ids :
             /\ epochs'[i].available =
                  [a \in DOMAIN epochs[i].available |->
                     epochs[i].available[a] - Reward(i, a, share)]
             /\ epochs'[i].total = epochs[i].total
        /\ \A i \in DOMAIN epochs \ ids : epochs'[i] = epochs[i]
        /\ DOMAIN epochs' = DOMAIN epochs
    BY <1>3, <2>1, ClaimFacts
  <2> HIDE DEF ids
  <2> SUFFICES ASSUME NEW i \in DOMAIN epochs, NEW a \in DOMAIN epochs'[i].available
               PROVE  epochs'[i].available[a] <= epochs'[i].total[a]
    BY <2>2 DEF AvailableBounded
  <2>3. CASE i \in ids
    <3>1. /\ a \in DOMAIN epochs[i].available /\ a \in DOMAIN epochs[i].total
          /\ epochs'[i].available[a] = epochs[i].available[a] - Reward(i, a, share)
          /\ epochs'[i].total[a] = epochs[i].total[a]
      BY <2>2, <2>3
    <3>2. epochs[i].available[a] \in Nat /\ epochs[i].total[a] \in Nat
      BY <3>1 DEF TypeOK, IsEpoch, IsFees
    <3>3. epochs[i].available[a] <= epochs[i].total[a]
      BY <3>1 DEF AvailableBounded
    <3>4. Reward(i, a, share) \in Nat
      BY <2>2, <2>3, <3>1
    <3> QED
      BY <3>1, <3>2, <3>3, <3>4
  <2>4. CASE i \notin ids
    BY <2>2, <2>4 DEF AvailableBounded
  <2> QED
    BY <2>3, <2>4
<1> QED
  BY <1>1, <1>2, <1>3
  DEF Next, Tick, CreateEpoch, Configure, UpdateConfig, vars, dist_vars

(* A claim by a share above one pays exactly what a share of one does: each *)
(* reward is at least the whole fee, and the epoch has no more to give.     *)
LEMMA ShareAboveOne ==
  ASSUME TypeOK, AvailableBounded, NEW u \in Users, NEW share \in Nat,
         share > ShareUnit, Claim(u, share)
  PROVE  Claim(u, ShareUnit)
<1> DEFINE ids == ClaimableEpochs(u)
<1>1. ShareUnit \in Nat \ {0}
  BY DistributorAssumption
<1>2. /\ ids \subseteq DOMAIN epochs
      /\ \A i \in ids : \A a \in DOMAIN epochs[i].total :
           /\ a \in DOMAIN epochs[i].available
           /\ Reward(i, a, share) \in Nat
           /\ Reward(i, a, share) <= epochs[i].available[a]
  BY ClaimFacts
<1>3. ASSUME NEW i \in ids, NEW a \in DOMAIN epochs[i].total
      PROVE  Reward(i, a, share) = Reward(i, a, ShareUnit)
  <2> DEFINE t == epochs[i].total[a]
             r == Reward(i, a, share)
  <2>1. t \in Nat /\ epochs[i].available[a] \in Nat
    <3>1. i \in DOMAIN epochs /\ a \in DOMAIN epochs[i].available
      BY <1>2
    <3>2. IsFees(epochs[i].total) /\ IsFees(epochs[i].available)
      BY <3>1 DEF TypeOK, IsEpoch
    <3> QED
      BY <3>1, <3>2 DEF IsFees
  <2>2. r \in Nat /\ r <= t
    <3>1. epochs[i].available[a] <= t
      BY <1>2 DEF AvailableBounded
    <3> QED
      BY <1>2, <2>1, <3>1
  <2>3. Reward(i, a, ShareUnit) = (t * ShareUnit) \div ShareUnit
    BY DEF Reward
  <2>4. r = (t * share) \div ShareUnit
    BY DEF Reward
  <2> HIDE DEF t, r
  <2>5. (t * ShareUnit) \div ShareUnit = t
    BY <1>1, <2>1, QuotientExact
  <2>6. t <= r
    <3>1. t * ShareUnit <= t * share
      <4>1. ShareUnit * t <= share * t
        BY <1>1, <2>1, ProductMono
      <4> QED
        BY <1>1, <2>1, <4>1
    <3>2. t * share \in Nat
      BY <2>1, ProductNat
    <3> QED
      BY <1>1, <2>1, <2>4, <2>5, <3>1, <3>2, ProductNat, QuotientMono
  <2> QED
    BY <2>1, <2>2, <2>3, <2>5, <2>6 DEF r
<1>4. \A a : Paid(ids, a, ShareUnit) = Paid(ids, a, share)
  <2> TAKE a
  <2> DEFINE f == [i \in DOMAIN epochs |->
                     IF a \in DOMAIN epochs[i].total
                     THEN Reward(i, a, ShareUnit) ELSE 0]
             g == [i \in DOMAIN epochs |->
                     IF a \in DOMAIN epochs[i].total
                     THEN Reward(i, a, share) ELSE 0]
  <2>1. \A i \in ids : f[i] = g[i]
    BY <1>2, <1>3
  <2>2. Sum(f, ids) = Sum(g, ids)
    BY <2>1, SumExt
  <2> QED
    BY <2>2 DEF Paid
<1>5. \A i \in ids : AfterClaim(i, ShareUnit) = AfterClaim(i, share)
  <2> TAKE i \in ids
  <2> DEFINE e == epochs[i]
  <2>1. IsEpoch(e) /\ i \in DOMAIN epochs
    BY <1>2 DEF TypeOK
  <2>2. Claimed(i, ShareUnit) = Claimed(i, share)
    <3>1. CASE DOMAIN e.total = {}
      BY <3>1 DEF Claimed
    <3>2. CASE DOMAIN e.total # {}
      <4>1. e.first \in DOMAIN e.total
        BY <2>1, <3>2 DEF IsEpoch
      <4>2. \A a \in DOMAIN e.claimed : a = e.first
        BY <2>1 DEF IsEpoch
      <4>3. \A a \in DOMAIN e.claimed \cup {e.first} :
              Reward(i, a, ShareUnit) = Reward(i, a, share)
        BY <1>3, <4>1, <4>2
      <4>4. [a \in {e.first} |-> Reward(i, a, ShareUnit)]
              = [a \in {e.first} |-> Reward(i, a, share)]
        BY <4>3
      <4>5. [a \in DOMAIN e.claimed |-> e.claimed[a] + Reward(i, a, ShareUnit)]
              = [a \in DOMAIN e.claimed |-> e.claimed[a] + Reward(i, a, share)]
        BY <4>3
      <4> HIDE DEF e
      <4> QED
        BY <3>2, <4>4, <4>5 DEF Claimed, e
    <3> QED
      BY <3>1, <3>2
  <2> DEFINE left(s) == [a \in DOMAIN e.available |->
                           IF a \in DOMAIN e.total
                           THEN e.available[a] - Reward(i, a, s)
                           ELSE e.available[a]]
  <2>3. left(ShareUnit) = left(share)
    BY <1>3
  <2>4. \A s : AfterClaim(i, s) =
                 [e EXCEPT !.claimed = Claimed(i, s), !.available = left(s)]
    BY DEF AfterClaim
  <2> HIDE DEF e, left
  <2> QED
    BY <2>2, <2>3, <2>4
<1>6. \A i \in ids : \A a \in DOMAIN epochs[i].total :
        /\ Sound(i, a, ShareUnit)
        /\ Paid(ids, a, ShareUnit) \in 1..dist_balance[a]
  BY <1>2, <1>3, <1>4 DEF Claim, Sound
<1>7. epochs' = [i \in DOMAIN epochs |->
                   IF i \in ids THEN AfterClaim(i, ShareUnit) ELSE epochs[i]]
  BY <1>5 DEF Claim
<1>8. dist_balance' = [a \in Assets |-> dist_balance[a] - Paid(ids, a, ShareUnit)]
  BY <1>4 DEF Claim
<1> QED
  BY <1>6, <1>7, <1>8 DEF Claim
=============================================================================

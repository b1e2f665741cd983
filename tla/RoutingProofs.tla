---------------------------- MODULE RoutingProofs ----------------------------
(***************************************************************************)
(* The registries, and the router of swaps through the pairs they list.     *)
(* For any assets and contracts, however many: a reader of the pages misses *)
(* nothing, lookups find what they are asked for, and migrations leave what *)
(* the new programs read.  And for any pairs and operations, however long:  *)
(* the router leaves nothing behind, pays the minimum and what it promised; *)
(* what pools compute is near the exact solution.                           *)
(***************************************************************************)
EXTENDS Factories, SwapRouter, Arithmetic, FiniteSetTheorems, SequenceTheorems,
        WellFoundedInduction, TLAPS

-----------------------------------------------------------------------------
(* The order of keys *)

(* A key with another before it has the later place. *)
LEMMA PlaceMonotone ==
  ASSUME NEW keys \in SUBSET Nat, IsFiniteSet(keys), NEW j \in keys, NEW k \in keys
  PROVE  /\ Place(k, keys) \in 1..Cardinality(keys)
         /\ j < k => Place(j, keys) < Place(k, keys)
<1> DEFINE UpTo(x) == {i \in keys : i <= x}
<1>1. \A x \in keys : /\ UpTo(x) \in SUBSET keys /\ IsFiniteSet(UpTo(x))
                      /\ Cardinality(UpTo(x)) \in Nat
                      /\ Cardinality(UpTo(x)) <= Cardinality(keys)
  BY FS_Subset, FS_CardinalityType
<1>2. Cardinality(keys) \in Nat
  BY FS_CardinalityType
<1>3. Cardinality(UpTo(k)) # 0
  <2>1. k \in UpTo(k)
    OBVIOUS
  <2>2. QED
    BY <1>1, <2>1, FS_EmptySet
<1>4. ASSUME j < k PROVE Cardinality(UpTo(j)) < Cardinality(UpTo(k))
  <2>1. UpTo(j) \in SUBSET UpTo(k) /\ UpTo(j) # UpTo(k)
    <3>1. \A i \in Nat : i <= j => i <= k
      BY <1>4
    <3>2. k \in UpTo(k) /\ ~(k <= j)
      BY <1>4
    <3>3. QED
      BY <3>1, <3>2
  <2>2. /\ Cardinality(UpTo(j)) <= Cardinality(UpTo(k))
        /\ Cardinality(UpTo(j)) # Cardinality(UpTo(k))
    BY <1>1, <2>1, FS_Subset
  <2>3. QED
    BY <1>1, <2>2
<1>5. Place(k, keys) = Cardinality(UpTo(k)) /\ Place(j, keys) = Cardinality(UpTo(j))
  BY DEF Place
<1>6. QED
  BY <1>1, <1>2, <1>3, <1>4, <1>5

(* Every place up to the number of keys is that of one key. *)
LEMMA KeyAtPlace ==
  ASSUME NEW keys \in SUBSET Nat, IsFiniteSet(keys)
  PROVE  /\ Cardinality(keys) \in Nat
         /\ \A i \in 1..Cardinality(keys) : KeyAt(i, keys) \in keys
         /\ \A k \in keys : /\ Place(k, keys) \in 1..Cardinality(keys)
                            /\ KeyAt(Place(k, keys), keys) = k
<1> DEFINE n == Cardinality(keys)
           places == [k \in keys |-> Place(k, keys)]
<1>1. n \in Nat
  BY FS_CardinalityType
<1>2. \A k \in keys : Place(k, keys) \in 1..n
  BY PlaceMonotone
<1>3. \A j, k \in keys : Place(j, keys) = Place(k, keys) => j = k
  <2> SUFFICES ASSUME NEW j \in keys, NEW k \in keys, Place(j, keys) = Place(k, keys), j # k
               PROVE  FALSE
    OBVIOUS
  <2>1. j < k \/ k < j
    OBVIOUS
  <2>2. Place(j, keys) < Place(k, keys) \/ Place(k, keys) < Place(j, keys)
    BY <2>1, PlaceMonotone
  <2>3. QED
    BY <2>2, <1>1, <1>2
<1>4. \A i \in 1..n : \E k \in keys : Place(k, keys) = i
  <2>1. places \in Injection(keys, 1..n)
    BY <1>2, <1>3 DEF Injection, IsInjective
  <2>2. IsFiniteSet(1..n) /\ Cardinality(1..n) = n
    BY <1>1, FS_Interval
  <2>3. places \in Surjection(keys, 1..n)
    BY <2>1, <2>2, FS_Injection
  <2>4. QED
    BY <2>3 DEF Surjection
<1>5. QED
  BY <1>1, <1>2, <1>3, <1>4 DEF KeyAt

-----------------------------------------------------------------------------
(* The reader *)

(* What is listed all the time and comes no later than the last key that    *)
(* was read has been seen; what has been seen comes no later.               *)
WalkOK(w, on_list) ==
  /\ w \in [start_after : Nat, seen : SUBSET Nat, twice : {{}},
            throughout : SUBSET on_list, over : BOOLEAN]
  /\ \A k \in w.seen : k <= w.start_after
  /\ \A k \in w.throughout : w.over \/ k <= w.start_after => k \in w.seen

LEMMA StartWalkStep ==
  ASSUME NEW on_list \in SUBSET (Nat \ {0}), StartWalk(on_list)
  PROVE  WalkOK(walk', on_list)
<1>1. walk' = [start_after |-> 0, seen |-> {}, twice |-> {}, throughout |-> on_list,
               over |-> FALSE]
  BY DEF StartWalk, NoWalk
<1>2. \A k \in on_list : ~(k <= 0)
  OBVIOUS
<1>3. QED
  BY <1>1, <1>2 DEF WalkOK

LEMMA NextPageStep ==
  ASSUME NEW on_list \in SUBSET (Nat \ {0}), IsFiniteSet(on_list), NEW limit \in Limits,
         WalkOK(walk, on_list), NextPage(on_list, limit)
  PROVE  WalkOK(walk', on_list)
<1> DEFINE later == Later(on_list, walk.start_after)
           n == IF limit < MaxLimit THEN limit ELSE MaxLimit
           page == Page(on_list, walk.start_after, limit)
<1>1. /\ walk \in [start_after : Nat, seen : SUBSET Nat, twice : {{}},
                   throughout : SUBSET on_list, over : BOOLEAN]
      /\ walk.start_after \in Nat /\ walk.seen \in SUBSET Nat /\ walk.twice = {}
      /\ walk.throughout \in SUBSET on_list /\ ~walk.over
  BY DEF WalkOK, NextPage
<1>2. CASE later = {} /\ walk' = [walk EXCEPT !.over = TRUE]
  <2>1. \A k \in on_list : k <= walk.start_after
    BY <1>1, <1>2 DEF Later
  <2>2. QED
    BY <1>1, <1>2, <2>1 DEF WalkOK
<1>3. CASE \E last \in page :
             /\ \A k \in page : k <= last
             /\ walk' = [walk EXCEPT !.start_after = last, !.seen = @ \cup page,
                                     !.twice = @ \cup (page \cap walk.seen)]
  <2>1. PICK last \in page :
          /\ \A k \in page : k <= last
          /\ walk' = [walk EXCEPT !.start_after = last, !.seen = @ \cup page,
                                  !.twice = @ \cup (page \cap walk.seen)]
    BY <1>3
  <2>2. page = {k \in later : Place(k, later) <= n}
    BY DEF Page, Taken
  <2>3. /\ later \in SUBSET Nat /\ later \in SUBSET on_list /\ IsFiniteSet(later)
        /\ \A k \in on_list : k \in later <=> walk.start_after < k
        /\ Cardinality(later) \in Nat
    <3>1. later \in SUBSET on_list /\ IsFiniteSet(later)
      BY FS_Subset DEF Later
    <3>2. QED
      BY <1>1, <3>1, FS_CardinalityType DEF Later
  <2>4. n \in Nat
    BY PageAssumption
  <2>5. last \in Nat /\ walk.start_after < last
    BY <2>2, <2>3
  <2>6. page \cap walk.seen = {}
    <3>1. \A k \in page : k \in Nat /\ walk.start_after < k
      BY <2>2, <2>3
    <3>2. \A k \in walk.seen : k \in Nat /\ k <= walk.start_after
      BY <1>1 DEF WalkOK
    <3>3. QED
      BY <1>1, <3>1, <3>2
  <2>7. /\ walk' \in [start_after : Nat, seen : SUBSET Nat, twice : {{}},
                      throughout : SUBSET on_list, over : BOOLEAN]
        /\ walk'.start_after = last /\ walk'.seen = walk.seen \cup page
        /\ walk'.throughout = walk.throughout /\ ~walk'.over
    <3> DEFINE seen == walk.seen \cup page
               again == walk.twice \cup (page \cap walk.seen)
    <3>1. seen \in SUBSET Nat /\ again = {}
      BY <1>1, <2>2, <2>3, <2>6
    <3>2. walk' = [walk EXCEPT !.start_after = last, !.seen = seen, !.twice = again]
      BY <2>1
    <3> HIDE DEF seen, again, page, later, n
    <3>3. /\ walk' \in [start_after : Nat, seen : SUBSET Nat, twice : {{}},
                        throughout : SUBSET on_list, over : BOOLEAN]
          /\ walk'.start_after = last /\ walk'.seen = seen
          /\ walk'.throughout = walk.throughout /\ ~walk'.over
      BY <1>1, <2>5, <3>1, <3>2
    <3>4. QED
      BY <3>3 DEF seen
  <2>8. \A k \in walk.seen \cup page : k <= last
    BY <1>1, <2>1, <2>5 DEF WalkOK
  <2>9. ASSUME NEW k \in walk.throughout, k <= last PROVE k \in walk.seen \cup page
    <3>1. CASE k <= walk.start_after
      BY <1>1, <3>1 DEF WalkOK
    <3>2. CASE walk.start_after < k
      <4>1. k \in later
        BY <1>1, <2>3, <3>2
      <4>2. last \in later /\ Place(last, later) <= n
        BY <2>2
      <4>3. Place(k, later) \in Nat /\ Place(last, later) \in Nat
        BY <2>3, <4>1, <4>2, PlaceMonotone
      <4>4. Place(k, later) <= Place(last, later)
        <5>1. CASE k = last
          BY <4>3, <5>1
        <5>2. CASE k < last
          BY <2>3, <4>1, <4>2, <4>3, <5>2, PlaceMonotone
        <5>3. QED
          BY <1>1, <2>5, <2>9, <5>1, <5>2
      <4>5. QED
        BY <2>2, <2>4, <4>1, <4>2, <4>3, <4>4
    <3>3. QED
      BY <1>1, <3>1, <3>2
  <2>10. QED
    BY <2>7, <2>8, <2>9 DEF WalkOK
<1>4. QED
  BY <1>2, <1>3 DEF NextPage

LEMMA UnlistedStep ==
  ASSUME NEW on_list, NEW key, WalkOK(walk, on_list), Unlisted(key)
  PROVE  WalkOK(walk', on_list \ {key})
<1>1. walk' = [walk EXCEPT !.throughout = @ \ {key}]
  BY DEF Unlisted
<1>2. QED
  BY <1>1 DEF WalkOK

LEMMA MoreListed ==
  ASSUME NEW on_list, NEW more, on_list \subseteq more, WalkOK(walk, on_list), UNCHANGED walk
  PROVE  WalkOK(walk', more)
BY DEF WalkOK

-----------------------------------------------------------------------------
(* The factory of vaults *)

VaultInv ==
  /\ VaultFactoryTypeOK
  /\ VaultsReadable
  /\ vault_factory.version = 109 => Cardinality(DOMAIN vaults) <= MaxVaults
  /\ MaxVaults <= 10 => VaultsMatchAssets

LEMMA VaultKeys ==
  ASSUME VaultFactoryTypeOK
  PROVE  DOMAIN vaults \in SUBSET (Nat \ {0}) /\ IsFiniteSet(DOMAIN vaults)
BY VaultFactoryAssumption, FS_Subset DEF VaultFactoryTypeOK

LEMMA FreshVaults ==
  ASSUME NEW owner \in Admins, NEW collector \in Collectors, Fresh(owner, collector),
         tmp_vault_asset = NoAsset
  PROVE  VaultInv
<1>1. /\ vault_factory = [owner |-> owner, fee_collector |-> collector, version |-> 111]
      /\ vaults = <<>> /\ vault_contracts = <<>>
  BY DEF Fresh
<1>2. VaultFactoryTypeOK
  BY <1>1 DEF VaultFactoryTypeOK
<1>3. QED
  BY <1>1, <1>2 DEF VaultInv, VaultsReadable, VaultsMatchAssets

LEMMA DeployedVaults ==
  ASSUME NEW owner \in Admins, NEW collector \in Collectors, NEW denoms \in SUBSET Denoms,
         Cardinality(denoms) <= MaxVaults, Deployed(owner, collector, denoms),
         tmp_vault_asset = NoAsset
  PROVE  VaultInv
<1> DEFINE n == Cardinality(denoms)
<1>1. denoms \in SUBSET Nat /\ IsFiniteSet(denoms) /\ n \in Nat
  BY VaultFactoryAssumption, FS_Subset, FS_CardinalityType
<1>2. /\ \A i \in 1..n : KeyAt(i, denoms) \in denoms
      /\ \A k \in denoms : Place(k, denoms) \in 1..n /\ KeyAt(Place(k, denoms), denoms) = k
  BY <1>1, KeyAtPlace
<1>3. /\ vault_factory = [owner |-> owner, fee_collector |-> collector, version |-> 109]
      /\ vaults = [k \in denoms |-> [vault |-> Place(k, denoms), asset_info |-> NoAsset]]
  BY DEF Deployed
<1>4. PICK versions \in [denoms -> OldVersions] :
        vault_contracts =
          [i \in 1..n |-> OldVault(KeyAt(i, denoms), versions[KeyAt(i, denoms)], collector)]
  BY DEF Deployed
<1>5. ASSUME NEW i \in 1..n
      PROVE  /\ vault_contracts[i] \in VaultContract
             /\ vault_contracts[i].asset_info = KeyAt(i, denoms)
             /\ Readable(vault_contracts[i])
  <2> DEFINE k == KeyAt(i, denoms)
             version == versions[k]
  <2>1. k \in Denoms /\ version \in OldVersions
    BY <1>2
  <2>2. vault_contracts[i] = OldVault(k, version, collector)
    BY <1>4
  <2> HIDE DEF k, version
  <2>3. LayoutOfVault(version) \in {"no_burn_fee", "burn_fee"} /\ 0 \in 0..(VaultFeeUnit - 1)
    BY VaultFactoryAssumption DEF LayoutOfVault
  <2>4. OldVault(k, version, collector) \in VaultContract
    BY <2>1, <2>3 DEF OldVault, VaultContract
  <2>5. QED
    BY <2>2, <2>4 DEF OldVault, Readable, k
<1>6. vault_contracts \in Seq(VaultContract) /\ Len(vault_contracts) = n
  BY <1>1, <1>4, <1>5
<1>7. VaultFactoryTypeOK
  BY <1>2, <1>3, <1>6 DEF VaultFactoryTypeOK
<1>8. QED
  BY <1>1, <1>2, <1>3, <1>5, <1>6, <1>7 DEF VaultInv, VaultsReadable, VaultsMatchAssets

(* A step that changes vaults but neither their asset nor the list.         *)
LEMMA SameVaults ==
  ASSUME VaultInv, UNCHANGED <<vaults, tmp_vault_asset>>,
         vault_factory' \in [owner : Admins, fee_collector : Collectors,
                            version : {vault_factory.version}],
         vault_contracts' \in Seq(VaultContract),
         Len(vault_contracts') = Len(vault_contracts),
         \A i \in 1..Len(vault_contracts) :
           /\ vault_contracts'[i].asset_info = vault_contracts[i].asset_info
           /\ Readable(vault_contracts'[i])
  PROVE  VaultInv'
<1>1. VaultFactoryTypeOK /\ vault_factory'.version = vault_factory.version
  BY DEF VaultInv
<1>2. VaultFactoryTypeOK'
  BY <1>1 DEF VaultFactoryTypeOK
<1>3. VaultsReadable'
  BY DEF VaultsReadable, Readable, LayoutOfVault
<1>4. ASSUME VaultsMatchAssets PROVE VaultsMatchAssets'
  BY <1>1, <1>4 DEF VaultsMatchAssets, VaultFactoryTypeOK
<1>5. QED
  BY <1>1, <1>2, <1>3, <1>4 DEF VaultInv

(* One vault is replaced by another of the same asset. *)
LEMMA OneVault ==
  ASSUME VaultInv, UNCHANGED <<vault_factory, vaults, tmp_vault_asset>>,
         NEW i \in DOMAIN vault_contracts, NEW c \in VaultContract,
         c.asset_info = vault_contracts[i].asset_info, Readable(c),
         vault_contracts' = [vault_contracts EXCEPT ![i] = c]
  PROVE  VaultInv'
<1>1. /\ vault_contracts \in Seq(VaultContract)
      /\ vault_factory \in [owner : Admins, fee_collector : Collectors,
                            version : {vault_factory.version}]
      /\ \A j \in 1..Len(vault_contracts) : Readable(vault_contracts[j])
  BY DEF VaultInv, VaultFactoryTypeOK, VaultsReadable
<1>2. /\ vault_contracts' \in Seq(VaultContract)
      /\ Len(vault_contracts') = Len(vault_contracts)
      /\ \A j \in 1..Len(vault_contracts) :
           vault_contracts'[j] = IF j = i THEN c ELSE vault_contracts[j]
  BY <1>1
<1>3. QED
  BY <1>1, <1>2, SameVaults

LEMMA MigratedVaultOK ==
  ASSUME NEW c \in VaultContract, Readable(c), CanMigrateVault(c)
  PROVE  /\ MigratedVault(c) \in VaultContract
         /\ MigratedVault(c).asset_info = c.asset_info
         /\ Readable(MigratedVault(c))
<1> DEFINE layout == IF NeedsBurnFee(c.version) THEN "burn_fee" ELSE c.layout
           m == MigratedVault(c)
<1>1. (c.version \in OldVersions \/ c.version = VaultVersion) /\ c.layout = LayoutOfVault(c.version)
  BY DEF VaultContract, Readable
<1>2. c.version \in Int /\ c.version <= 121
  <2>1. \A v \in OldVersions : v \in Int /\ v <= 120
    BY VaultFactoryAssumption
  <2>2. QED
    BY <1>1, <2>1 DEF VaultVersion
<1>3. layout = "burn_fee"
  BY <1>1, <1>2 DEF NeedsBurnFee, LayoutOfVault
<1>4. m = [c EXCEPT !.version = VaultVersion, !.layout = layout]
  BY DEF MigratedVault
<1>5. /\ m \in VaultContract /\ m.asset_info = c.asset_info
      /\ m.version = VaultVersion /\ m.layout = "burn_fee"
  BY <1>3, <1>4 DEF VaultContract
<1>6. QED
  BY <1>5 DEF Readable, LayoutOfVault, VaultVersion

LEMMA CreateVaultStep ==
  ASSUME VaultInv, NEW sender, NEW denom \in Denoms, NEW fees \in VaultFees,
         CreateVault(sender, denom, fees)
  PROVE  VaultInv' /\ DOMAIN vaults \subseteq DOMAIN vaults'
<1> DEFINE n == Len(vault_contracts)
           c == NewVault(denom, fees)
<1>1. /\ VaultFactoryTypeOK /\ VaultsReadable /\ vault_factory.version = 111
      /\ vault_contracts \in Seq(VaultContract) /\ n \in Nat
  BY DEF VaultInv, CreateVault, VaultFactoryOwner, VaultFactoryTypeOK
<1>2. fees \in 0..(VaultFeeUnit - 1)
  BY VaultFactoryAssumption DEF CreateVault, ValidVaultFees
<1>3. c \in VaultContract /\ c.asset_info = denom /\ Readable(c)
  BY <1>1, <1>2 DEF NewVault, VaultContract, Readable, LayoutOfVault, VaultVersion,
                    VaultFactoryTypeOK
<1>4. /\ vault_contracts' = Append(vault_contracts, c)
      /\ vault_factory' = vault_factory /\ tmp_vault_asset' = denom
      /\ vaults' = Put(vaults, denom, VaultEntry(Len(vault_contracts'), denom))
  BY DEF CreateVault, TmpVaultAsset
<1> HIDE DEF c
<1>5. /\ vault_contracts' \in Seq(VaultContract) /\ Len(vault_contracts') = n + 1
      /\ vault_contracts'[n + 1] = c
      /\ \A i \in 1..n : vault_contracts'[i] = vault_contracts[i]
  BY <1>1, <1>3, <1>4
<1>6. vaults' = [k \in {denom} \cup DOMAIN vaults |->
                   IF k = denom THEN [vault |-> n + 1, asset_info |-> denom] ELSE vaults[k]]
  BY <1>4, <1>5 DEF VaultEntry, Put
<1>7. VaultFactoryTypeOK'
  BY <1>1, <1>4, <1>5, <1>6 DEF VaultFactoryTypeOK
<1>8. VaultsReadable'
  BY <1>1, <1>3, <1>5 DEF VaultsReadable, Readable, LayoutOfVault
<1>9. ASSUME VaultsMatchAssets PROVE VaultsMatchAssets'
  BY <1>1, <1>3, <1>4, <1>5, <1>6, <1>9 DEF VaultsMatchAssets, VaultFactoryTypeOK
<1>10. QED
  BY <1>1, <1>4, <1>6, <1>7, <1>8, <1>9 DEF VaultInv

LEMMA RemoveVaultStep ==
  ASSUME VaultInv, NEW sender, NEW denom, RemoveVault(sender, denom)
  PROVE  VaultInv' /\ DOMAIN vaults' = DOMAIN vaults \ {denom}
<1>1. /\ VaultFactoryTypeOK /\ vault_factory.version = 111
      /\ vaults' = [k \in DOMAIN vaults \ {denom} |-> vaults[k]]
      /\ UNCHANGED <<vault_factory, tmp_vault_asset, vault_contracts>>
  BY DEF VaultInv, RemoveVault, VaultFactoryOwner, Drop
<1>2. VaultFactoryTypeOK'
  BY <1>1 DEF VaultFactoryTypeOK
<1>3. VaultsMatchAssets => VaultsMatchAssets'
  BY <1>1 DEF VaultsMatchAssets
<1>4. QED
  BY <1>1, <1>2, <1>3 DEF VaultInv, VaultsReadable, Readable, LayoutOfVault

LEMMA UpdateVaultConfigStep ==
  ASSUME VaultInv, NEW sender, NEW i \in DOMAIN vault_contracts,
         NEW owner \in Admins \cup {VaultFactoryAddr}, NEW collector \in Collectors,
         NEW fees \in VaultFees, UpdateVaultConfig(sender, i, owner, collector, fees)
  PROVE  VaultInv' /\ UNCHANGED vaults
<1> DEFINE c == [vault_contracts[i] EXCEPT !.owner = owner, !.fee_collector = collector,
                                           !.fees = fees]
<1>1. vault_contracts[i] \in VaultContract /\ fees \in 0..(VaultFeeUnit - 1)
  BY VaultFactoryAssumption
  DEF VaultInv, VaultFactoryTypeOK, UpdateVaultConfig, ValidVaultFees
<1>2. /\ c \in VaultContract /\ c.asset_info = vault_contracts[i].asset_info
      /\ c.layout = vault_contracts[i].layout /\ c.version = vault_contracts[i].version
  BY <1>1 DEF VaultContract
<1>3. /\ vault_contracts' = [vault_contracts EXCEPT ![i] = c]
      /\ UNCHANGED <<vault_factory, vaults, tmp_vault_asset>> /\ Readable(vault_contracts[i])
  BY DEF UpdateVaultConfig
<1> HIDE DEF c
<1>4. Readable(c)
  BY <1>2, <1>3 DEF Readable
<1>5. QED
  BY <1>2, <1>3, <1>4, OneVault

LEMMA UpdateVaultFactoryStep ==
  ASSUME VaultInv, NEW sender, NEW owner \in Admins, NEW collector \in Collectors,
         UpdateVaultFactory(sender, owner, collector)
  PROVE  VaultInv' /\ UNCHANGED vaults
<1>1. /\ VaultFactoryTypeOK /\ VaultsReadable
      /\ UNCHANGED <<vaults, tmp_vault_asset, vault_contracts>>
      /\ vault_factory' = [vault_factory EXCEPT !.owner = owner, !.fee_collector = collector]
  BY DEF VaultInv, UpdateVaultFactory
<1>2. /\ vault_factory' \in [owner : Admins, fee_collector : Collectors,
                            version : {vault_factory.version}]
      /\ vault_contracts' \in Seq(VaultContract)
  BY <1>1 DEF VaultFactoryTypeOK
<1>3. \A i \in 1..Len(vault_contracts) : Readable(vault_contracts'[i])
  BY <1>1, <1>2 DEF VaultsReadable
<1>4. QED
  BY <1>1, <1>2, <1>3, SameVaults

LEMMA MigrateVaultStep ==
  ASSUME VaultInv, NEW sender, NEW i \in DOMAIN vault_contracts, MigrateVault(sender, i)
  PROVE  VaultInv' /\ UNCHANGED vaults
<1>1. vault_contracts[i] \in VaultContract /\ Readable(vault_contracts[i])
  BY DEF VaultInv, VaultFactoryTypeOK, VaultsReadable
<1>2. /\ CanMigrateVault(vault_contracts[i])
      /\ vault_contracts' = [vault_contracts EXCEPT ![i] = MigratedVault(vault_contracts[i])]
      /\ UNCHANGED <<vault_factory, vaults, tmp_vault_asset>>
  BY DEF MigrateVault
<1>3. QED
  BY <1>1, <1>2, MigratedVaultOK, OneVault

LEMMA MigrateVaultsStep ==
  ASSUME VaultInv, NEW sender, MigrateVaults(sender)
  PROVE  VaultInv' /\ UNCHANGED vaults
<1> DEFINE chosen == {vaults[k].vault : k \in Taken(DOMAIN vaults, 30)}
<1>1. /\ vault_contracts \in Seq(VaultContract)
      /\ vault_factory \in [owner : Admins, fee_collector : Collectors,
                            version : {vault_factory.version}]
      /\ \A i \in 1..Len(vault_contracts) : Readable(vault_contracts[i])
  BY DEF VaultInv, VaultFactoryTypeOK, VaultsReadable
<1>2. /\ \A i \in chosen : CanMigrateVault(vault_contracts[i])
      /\ vault_contracts' = [i \in DOMAIN vault_contracts |->
            IF i \in chosen THEN MigratedVault(vault_contracts[i]) ELSE vault_contracts[i]]
      /\ UNCHANGED <<vault_factory, vaults, tmp_vault_asset>>
  BY DEF MigrateVaults
<1> HIDE DEF chosen
<1>3. ASSUME NEW i \in 1..Len(vault_contracts)
      PROVE  /\ vault_contracts'[i] \in VaultContract
             /\ vault_contracts'[i].asset_info = vault_contracts[i].asset_info
             /\ Readable(vault_contracts'[i])
  <2>1. vault_contracts[i] \in VaultContract /\ Readable(vault_contracts[i])
    BY <1>1
  <2>2. CASE i \in chosen
    BY <1>1, <1>2, <2>1, <2>2, MigratedVaultOK
  <2>3. CASE i \notin chosen
    BY <1>1, <1>2, <2>1, <2>3
  <2>4. QED
    BY <2>2, <2>3
<1>4. /\ vault_contracts' \in Seq(VaultContract)
      /\ Len(vault_contracts') = Len(vault_contracts)
  BY <1>1, <1>2, <1>3
<1>5. QED
  BY <1>1, <1>2, <1>3, <1>4, SameVaults

(* All the vaults of a factory of old get their asset: ten are taken.       *)
LEMMA MigrateVaultFactoryStep ==
  ASSUME VaultInv, MigrateVaultFactory
  PROVE  VaultInv' /\ DOMAIN vaults' = DOMAIN vaults
<1> DEFINE taken == Taken(DOMAIN vaults, 10)
<1>1. /\ VaultFactoryTypeOK /\ VaultsReadable /\ vault_factory.version = 109
      /\ vault_factory' = [vault_factory EXCEPT !.version = 111]
      /\ vaults' = [k \in DOMAIN vaults |->
                      IF k \in taken THEN [vaults[k] EXCEPT !.asset_info = k] ELSE vaults[k]]
      /\ tmp_vault_asset' = NoAsset /\ vault_contracts' = vault_contracts
  BY DEF VaultInv, MigrateVaultFactory, VaultFactoryTypeOK
<1>2. ASSUME MaxVaults <= 10 PROVE \A k \in DOMAIN vaults : k \in taken
  <2>1. DOMAIN vaults \in SUBSET Nat /\ IsFiniteSet(DOMAIN vaults)
    BY <1>1, VaultKeys
  <2>2. /\ Cardinality(DOMAIN vaults) \in Nat
        /\ \A k \in DOMAIN vaults : Place(k, DOMAIN vaults) \in 1..Cardinality(DOMAIN vaults)
    BY <2>1, KeyAtPlace
  <2>3. Cardinality(DOMAIN vaults) <= MaxVaults /\ MaxVaults \in Nat
    BY <1>1, VaultFactoryAssumption DEF VaultInv
  <2>4. QED
    BY <1>2, <2>2, <2>3 DEF Taken
<1> HIDE DEF taken
<1>3. \A k \in DOMAIN vaults :
        /\ vaults[k] \in [vault : 1..Len(vault_contracts), asset_info : Denoms \cup {NoAsset}]
        /\ k \in Denoms
  BY <1>1 DEF VaultFactoryTypeOK
<1>4. \A k \in DOMAIN vaults :
        /\ vaults'[k] \in [vault : 1..Len(vault_contracts), asset_info : Denoms \cup {NoAsset}]
        /\ vaults'[k].vault = vaults[k].vault
        /\ k \in taken => vaults'[k].asset_info = k
  BY <1>1, <1>3
<1>5. VaultFactoryTypeOK' /\ vault_factory'.version = 111
  BY <1>1, <1>4 DEF VaultFactoryTypeOK
<1>6. VaultsReadable'
  BY <1>1 DEF VaultsReadable, Readable, LayoutOfVault
<1>7. ASSUME MaxVaults <= 10 PROVE VaultsMatchAssets'
  <2>1. VaultsMatchAssets
    BY <1>7 DEF VaultInv
  <2>2. QED
    BY <1>1, <1>2, <1>4, <1>5, <1>7, <2>1 DEF VaultsMatchAssets
<1>8. QED
  BY <1>1, <1>5, <1>6, <1>7 DEF VaultInv

-----------------------------------------------------------------------------
(* Keys of pairs *)

(* Two digits make one number. *)
LEMMA DigitsUnique ==
  ASSUME NEW B \in Nat, NEW a \in Nat, NEW b \in Nat, NEW c \in Nat, NEW d \in Nat,
         b < B, d < B, a * B + b = c * B + d
  PROVE  a = c /\ b = d
<1>1. \A x, y \in Nat : x < y => x * B + B <= y * B
  <2> SUFFICES ASSUME NEW x \in Nat, NEW y \in Nat, x < y PROVE x * B + B <= y * B
    OBVIOUS
  <2>1. (x + 1) * B <= y * B
    BY ProductMono
  <2>2. (x + 1) * B = x * B + B
    OBVIOUS
  <2>3. QED
    BY <2>1, <2>2
<1>2. a * B \in Nat /\ c * B \in Nat
  OBVIOUS
<1>3. ~(a < c)
  BY <1>1, <1>2
<1>4. ~(c < a)
  BY <1>1, <1>2
<1>5. a = c
  BY <1>3, <1>4
<1>6. QED
  BY <1>2, <1>5

LEMMA QuotientRest ==
  ASSUME NEW a \in Nat, NEW b \in Nat \ {0}
  PROVE  a \div b \in Nat /\ a % b \in Nat /\ a % b < b /\ a = (a \div b) * b + (a % b)
<1>1. a \div b \in Nat
  OBVIOUS
<1>2. a = b * (a \div b) + (a % b) /\ a % b \in 0..(b - 1)
  OBVIOUS
<1>3. b * (a \div b) = (a \div b) * b
  BY <1>1
<1>4. QED
  BY <1>1, <1>2, <1>3

LEMMA TokensNat == Base \in Nat /\ \A t \in Tokens : t \in Nat /\ 1 <= t /\ t < Base
BY PoolFactoryAssumption

(* Only the same two names have the same key. *)
LEMMA PairKeyUnique ==
  ASSUME NEW a \in Tokens, NEW b \in Tokens, NEW c \in Tokens, NEW d \in Tokens
  PROVE  PairKey(a, b) = PairKey(c, d) <=> (a = c /\ b = d) \/ (a = d /\ b = c)
<1>1. \A x, y, z, w \in Tokens : x * Base + y = z * Base + w => x = z /\ y = w
  BY TokensNat, DigitsUnique
<1>2. ASSUME PairKey(a, b) = PairKey(c, d)
      PROVE  (a = c /\ b = d) \/ (a = d /\ b = c)
  BY <1>1, <1>2 DEF PairKey
<1>3. PairKey(a, b) = PairKey(b, a)
  <2>1. a <= b /\ b <= a => a = b
    BY TokensNat
  <2>2. a <= b \/ b <= a
    BY TokensNat
  <2>3. QED
    BY <2>1, <2>2 DEF PairKey
<1>4. QED
  BY <1>2, <1>3

(* A key gives back its two names. *)
LEMMA NamesOfKey ==
  ASSUME NEW key \in Keys
  PROVE  /\ key \in Nat \ {0} /\ key <= Base * Base
         /\ key \div Base \in Tokens /\ key % Base \in Tokens
         /\ PairKey(key \div Base, key % Base) = key
<1>1. PICK a \in Tokens, b \in Tokens : a <= b /\ key = a * Base + b
  <2>1. PICK p \in Tokens \X Tokens : key = PairKey(p[1], p[2])
    BY DEF Keys
  <2>2. p[1] \in Tokens /\ p[2] \in Tokens
    BY <2>1
  <2>3. CASE p[1] <= p[2]
    BY <2>1, <2>2, <2>3 DEF PairKey
  <2>4. CASE p[2] <= p[1] /\ ~(p[1] <= p[2])
    BY <2>1, <2>2, <2>4 DEF PairKey
  <2>5. QED
    BY <2>2, <2>3, <2>4, TokensNat
<1>2. /\ a \in Nat /\ b \in Nat /\ 1 <= b /\ b < Base /\ a + 1 <= Base
      /\ Base \in Nat \ {0} /\ a * Base \in Nat
  BY TokensNat
<1>3. key \in Nat \ {0} /\ key <= Base * Base
  <2>1. (a + 1) * Base <= Base * Base
    BY <1>2, ProductMono
  <2>2. (a + 1) * Base = a * Base + Base /\ Base * Base \in Nat
    BY <1>2
  <2>3. QED
    BY <1>1, <1>2, <2>1, <2>2
<1>4. /\ key \div Base \in Nat /\ key % Base \in Nat /\ key % Base < Base
      /\ key = (key \div Base) * Base + (key % Base)
  BY <1>2, <1>3, QuotientRest
<1>5. key \div Base = a /\ key % Base = b
  BY <1>1, <1>2, <1>4, DigitsUnique
<1>6. PairKey(a, b) = key
  BY <1>1 DEF PairKey
<1>7. QED
  BY <1>3, <1>5, <1>6

LEMMA KeysFinite == Keys \in SUBSET (Nat \ {0}) /\ IsFiniteSet(Keys)
<1>1. Base * Base \in Nat
  BY TokensNat
<1>2. \A key \in Keys : key \in Nat \ {0} /\ key <= Base * Base
  BY NamesOfKey
<1>3. QED
  BY <1>1, <1>2, FS_BoundedSetOfNaturals

-----------------------------------------------------------------------------
(* The factory of pairs *)

(* An entry is at the key of its assets and says what the pair says.        *)
EntryAgrees(k) ==
  LET entry == pairs[k]
      c == pair_contracts[entry.contract] IN
  /\ PairKey(entry.asset_infos[1], entry.asset_infos[2]) = k
  /\ entry.asset_infos = c.asset_infos
  /\ entry.asset_decimals = c.asset_decimals
  /\ entry.pair_type = c.pair_type
  /\ entry.liquidity_token # "untyped" => entry.liquidity_token = c.liquidity_token

PoolInv ==
  /\ PoolFactoryTypeOK
  /\ \A k \in DOMAIN pairs : EntryAgrees(k)
  /\ pool_factory.version = 110 =>
       \A i \in 1..Len(pair_contracts) : pair_contracts[i].pair_type = "ConstantProduct"
  /\ PairContractsReadable

LEMMA PairKeys ==
  ASSUME PoolFactoryTypeOK
  PROVE  DOMAIN pairs \in SUBSET (Nat \ {0}) /\ IsFiniteSet(DOMAIN pairs)
BY KeysFinite, FS_Subset DEF PoolFactoryTypeOK

LEMMA TwoAssets ==
  ASSUME NEW infos \in Tokens \X Tokens
  PROVE  /\ infos[1] \in Tokens /\ infos[2] \in Tokens
         /\ ToSet(infos) = {infos[1], infos[2]}
<1>1. infos = <<infos[1], infos[2]>>
  OBVIOUS
<1>2. DOMAIN infos = {1, 2}
  BY <1>1
<1>3. QED
  BY <1>2 DEF ToSet

(* What the invariant says to those who look up two assets. *)
LEMMA InvPairsAgree ==
  ASSUME PoolInv
  PROVE  PairsAgree
<1>1. \A k \in DOMAIN pairs :
        /\ pairs[k].asset_infos \in Tokens \X Tokens
        /\ EntryAgrees(k)
  BY DEF PoolInv, PoolFactoryTypeOK, PairListEntry
<1>2. ASSUME NEW a \in Tokens, NEW b \in Tokens, PairKey(a, b) \in DOMAIN pairs
      PROVE  LET entry == pairs[PairKey(a, b)]
                 c == pair_contracts[entry.contract] IN
             /\ ToSet(entry.asset_infos) = {a, b}
             /\ entry.asset_infos = c.asset_infos
             /\ entry.asset_decimals = c.asset_decimals
             /\ entry.pair_type = c.pair_type
             /\ EntryReadable(PairKey(a, b)) => entry.liquidity_token = c.liquidity_token
  <2> DEFINE infos == pairs[PairKey(a, b)].asset_infos
  <2>1. /\ infos \in Tokens \X Tokens /\ EntryAgrees(PairKey(a, b))
        /\ PairKey(infos[1], infos[2]) = PairKey(a, b)
    BY <1>1, <1>2 DEF EntryAgrees
  <2>2. /\ infos[1] \in Tokens /\ infos[2] \in Tokens
        /\ ToSet(infos) = {infos[1], infos[2]}
    BY <2>1, TwoAssets
  <2>3. (infos[1] = a /\ infos[2] = b) \/ (infos[1] = b /\ infos[2] = a)
    BY <2>1, <2>2, PairKeyUnique
  <2>4. ToSet(infos) = {a, b}
    BY <2>2, <2>3
  <2>5. QED
    BY <2>1, <2>4 DEF EntryAgrees, EntryReadable
<1>3. ASSUME NEW k1 \in DOMAIN pairs, NEW k2 \in DOMAIN pairs,
             ToSet(pairs[k1].asset_infos) = ToSet(pairs[k2].asset_infos)
      PROVE  k1 = k2
  <2> DEFINE x == pairs[k1].asset_infos
             y == pairs[k2].asset_infos
  <2>1. /\ x \in Tokens \X Tokens /\ y \in Tokens \X Tokens
        /\ PairKey(x[1], x[2]) = k1 /\ PairKey(y[1], y[2]) = k2
    BY <1>1 DEF EntryAgrees
  <2>2. ToSet(x) = ToSet(y)
    BY <1>3
  <2> HIDE DEF x, y
  <2>3. /\ x[1] \in Tokens /\ x[2] \in Tokens /\ y[1] \in Tokens /\ y[2] \in Tokens
        /\ {x[1], x[2]} = {y[1], y[2]}
    BY <2>1, <2>2, TwoAssets
  <2>4. (x[1] = y[1] /\ x[2] = y[2]) \/ (x[1] = y[2] /\ x[2] = y[1])
    BY <2>3
  <2>5. QED
    BY <2>1, <2>3, <2>4, PairKeyUnique
<1>4. QED
  BY <1>2, <1>3 DEF PairsAgree

LEMMA NewPools ==
  ASSUME NEW owner \in Admins, NEW collector \in Collectors,
         NewPoolFactory(owner, collector), allow_native_tokens = <<>>
  PROVE  PoolInv
<1>1. /\ pool_factory = [owner |-> owner, fee_collector |-> collector,
                         version |-> PoolFactoryVersion]
      /\ pairs = <<>> /\ pair_contracts = <<>>
  BY DEF NewPoolFactory
<1>2. PoolFactoryTypeOK
  BY <1>1 DEF PoolFactoryTypeOK
<1>3. QED
  BY <1>1, <1>2 DEF PoolInv, PairContractsReadable, PoolFactoryVersion

LEMMA OldPoolsOfKeys ==
  ASSUME NEW owner \in Admins, NEW collector \in Collectors, NEW keys \in SUBSET Keys,
         DeployedPools(owner, collector, keys), allow_native_tokens = <<>>
  PROVE  PoolInv
<1> DEFINE n == Cardinality(keys)
<1>1. keys \in SUBSET Nat /\ IsFiniteSet(keys) /\ n \in Nat
  BY KeysFinite, FS_Subset, FS_CardinalityType
<1>2. /\ \A i \in 1..n : KeyAt(i, keys) \in keys
      /\ \A k \in keys : Place(k, keys) \in 1..n /\ KeyAt(Place(k, keys), keys) = k
  BY <1>1, KeyAtPlace
<1>3. /\ pool_factory = [owner |-> owner, fee_collector |-> collector, version |-> 110]
      /\ pairs = [k \in keys |-> OldEntry(k, Place(k, keys))]
  BY DEF DeployedPools
<1>4. PICK versions \in [keys -> OldPairVersions] :
        pair_contracts =
          [i \in 1..n |-> OldPair(KeyAt(i, keys), versions[KeyAt(i, keys)], collector)]
  BY DEF DeployedPools
<1>5. \A k \in keys : /\ k \div Base \in Tokens /\ k % Base \in Tokens
                      /\ PairKey(k \div Base, k % Base) = k
  BY NamesOfKey
<1>6. "ConstantProduct" \in PairTypes /\ Cw20Decimals \in Nat
  BY PoolFactoryAssumption
<1>7. ASSUME NEW i \in 1..n
      PROVE  /\ pair_contracts[i] \in PairContract
             /\ pair_contracts[i].asset_infos
                  = <<KeyAt(i, keys) \div Base, KeyAt(i, keys) % Base>>
             /\ pair_contracts[i].asset_decimals = <<Cw20Decimals, Cw20Decimals>>
             /\ pair_contracts[i].pair_type = "ConstantProduct"
             /\ ~pair_contracts[i].burns
             /\ PairReadable(pair_contracts[i])
  <2> DEFINE k == KeyAt(i, keys)
             version == versions[k]
             first == k \div Base
             second == k % Base
  <2>1. version \in OldPairVersions /\ first \in Tokens /\ second \in Tokens
    BY <1>2, <1>5
  <2>2. /\ InfoOf(version) \in {"pascal_case", "untyped_lp", "typed_lp"}
        /\ PairConfigOf(version) \in {"no_burn_fee", "burn_fee"}
    BY DEF InfoOf, PairConfigOf
  <2>3. pair_contracts[i] =
          [asset_infos |-> <<first, second>>,
           asset_decimals |-> <<Cw20Decimals, Cw20Decimals>>,
           pair_type |-> "ConstantProduct", liquidity_token |-> "cw20", burns |-> FALSE,
           owner |-> PoolFactoryAddr, fee_collector |-> collector, version |-> version,
           info |-> InfoOf(version), config |-> PairConfigOf(version)]
    BY <1>4 DEF OldPair
  <2> HIDE DEF version, first, second
  <2>4. QED
    BY <1>6, <2>1, <2>2, <2>3 DEF PairContract, PairReadable, first, second
<1>8. pair_contracts \in Seq(PairContract) /\ Len(pair_contracts) = n
  BY <1>1, <1>4, <1>7
<1>9. ASSUME NEW k \in keys
      PROVE  pairs[k] \in PairListEntry /\ EntryAgrees(k)
  <2> DEFINE i == Place(k, keys)
             first == k \div Base
             second == k % Base
  <2>1. /\ i \in 1..n /\ KeyAt(i, keys) = k /\ first \in Tokens /\ second \in Tokens
        /\ PairKey(first, second) = k
    BY <1>2, <1>5
  <2>2. /\ pair_contracts[i].asset_infos = <<first, second>>
        /\ pair_contracts[i].asset_decimals = <<Cw20Decimals, Cw20Decimals>>
        /\ pair_contracts[i].pair_type = "ConstantProduct"
    BY <1>7, <2>1
  <2>3. pairs[k] = [contract |-> i, asset_infos |-> <<first, second>>,
                    asset_decimals |-> <<Cw20Decimals, Cw20Decimals>>,
                    pair_type |-> "ConstantProduct", liquidity_token |-> "untyped"]
    BY <1>3 DEF OldEntry
  <2> HIDE DEF i, first, second
  <2>4. QED
    BY <1>6, <1>8, <2>1, <2>2, <2>3 DEF PairListEntry, EntryAgrees
<1>10. PoolFactoryTypeOK
  BY <1>3, <1>7, <1>8, <1>9 DEF PoolFactoryTypeOK
<1>11. QED
  BY <1>3, <1>7, <1>8, <1>9, <1>10 DEF PoolInv, PairContractsReadable

(* One pair is replaced by another that says the same of its assets. *)
LEMMA OnePair ==
  ASSUME PoolInv, UNCHANGED <<pool_factory, allow_native_tokens, pairs>>,
         NEW i \in DOMAIN pair_contracts, NEW c \in PairContract,
         pair_contracts' = [pair_contracts EXCEPT ![i] = c],
         c.asset_infos = pair_contracts[i].asset_infos,
         c.asset_decimals = pair_contracts[i].asset_decimals,
         c.pair_type = pair_contracts[i].pair_type,
         c.liquidity_token = pair_contracts[i].liquidity_token,
         c.burns => \A j \in 1..2 : FormOf[c.asset_infos[j]] # "factory",
         PairReadable(c) \/ LeftBehind(c)
  PROVE  PoolInv'
<1>1. PoolFactoryTypeOK /\ pair_contracts \in Seq(PairContract)
  BY DEF PoolInv, PoolFactoryTypeOK
<1>2. /\ pair_contracts' \in Seq(PairContract)
      /\ Len(pair_contracts') = Len(pair_contracts)
      /\ \A j \in 1..Len(pair_contracts) :
           pair_contracts'[j] = IF j = i THEN c ELSE pair_contracts[j]
  BY <1>1
<1>3. PairListEntry' = PairListEntry
  BY <1>2 DEF PairListEntry
<1>4. PoolFactoryTypeOK'
  BY <1>1, <1>2, <1>3 DEF PoolFactoryTypeOK
<1>5. ASSUME NEW k \in DOMAIN pairs PROVE EntryAgrees(k)'
  <2>1. EntryAgrees(k) /\ pairs[k].contract \in 1..Len(pair_contracts)
    BY <1>1 DEF PoolInv, PoolFactoryTypeOK, PairListEntry
  <2>2. pairs'[k] = pairs[k]
    OBVIOUS
  <2>3. QED
    BY <1>2, <2>1, <2>2 DEF EntryAgrees
<1>6. PairContractsReadable'
  BY <1>1, <1>2 DEF PoolInv, PairContractsReadable, PairReadable, LeftBehind
<1>7. QED
  BY <1>1, <1>2, <1>4, <1>5, <1>6 DEF PoolInv

LEMMA CreatePairStep ==
  ASSUME PoolInv, NEW sender, NEW a \in Tokens, NEW b \in Tokens,
         NEW pair_type \in PairTypes, NEW lp \in {"cw20", "native"}, NEW burns \in BOOLEAN,
         CreatePair(sender, <<a, b>>, pair_type, lp, burns)
  PROVE  PoolInv' /\ DOMAIN pairs \subseteq DOMAIN pairs'
<1> DEFINE n == Len(pair_contracts)
           infos == <<a, b>>
           decimals == <<DecimalsOf(a), DecimalsOf(b)>>
           key == PairKey(a, b)
           c == NewPair(infos, decimals, pair_type, lp, burns)
           entry == [contract |-> n + 1, asset_infos |-> infos, asset_decimals |-> decimals,
                     pair_type |-> pair_type, liquidity_token |-> lp]
<1>1. /\ PoolFactoryTypeOK /\ pool_factory.version = PoolFactoryVersion
      /\ pair_contracts \in Seq(PairContract) /\ n \in Nat
      /\ pool_factory.fee_collector \in Collectors
  BY DEF PoolInv, CreatePair, PoolFactoryOwner, PoolFactoryTypeOK
<1>2. decimals \in Nat \X Nat
  <2>1. \A t \in {a, b} : KnownDecimals(t)
    BY TwoAssets DEF CreatePair
  <2>2. \A t \in {a, b} : DecimalsOf(t) \in Nat
    BY <1>1, <2>1, PoolFactoryAssumption DEF KnownDecimals, DecimalsOf, PoolFactoryTypeOK
  <2>3. QED
    BY <2>2
<1>3. burns => \A j \in 1..2 : FormOf[infos[j]] # "factory"
  BY DEF CreatePair, MayBurn, IsFactoryToken
<1>4. /\ c \in PairContract /\ PairReadable(c)
      /\ c.asset_infos = infos /\ c.asset_decimals = decimals /\ c.pair_type = pair_type
      /\ c.liquidity_token = lp /\ c.burns = burns
  <2>1. /\ InfoOf(PairVersion) \in {"pascal_case", "untyped_lp", "typed_lp"}
        /\ PairConfigOf(PairVersion) \in {"no_burn_fee", "burn_fee"}
    BY DEF InfoOf, PairConfigOf
  <2>2. infos \in Tokens \X Tokens
    OBVIOUS
  <2> HIDE DEF infos, decimals
  <2>3. QED
    BY <1>1, <1>2, <2>1, <2>2 DEF NewPair, PairContract, PairReadable
<1>5. /\ pair_contracts' = Append(pair_contracts, c)
      /\ pairs' = Put(pairs, key, entry)
      /\ UNCHANGED <<pool_factory, allow_native_tokens>>
  <2>1. a # b /\ [i \in 1..2 |-> DecimalsOf(infos[i])] = decimals
    BY DEF CreatePair
  <2>2. pair_contracts' = Append(pair_contracts, c)
    BY <2>1 DEF CreatePair
  <2>3. pair_contracts'[n + 1] = c
    BY <1>1, <1>4, <2>2
  <2>4. tmp_pair_info' = [pair_key |-> key, asset_infos |-> infos,
                          asset_decimals |-> decimals, pair_type |-> pair_type]
    BY <2>1 DEF CreatePair, TmpPairInfo
  <2>5. pairs' = Put(pairs, tmp_pair_info'.pair_key,
                     PairEntry(n + 1, pair_contracts'[n + 1], tmp_pair_info'))
    BY DEF CreatePair
  <2>6. PairEntry(n + 1, c, tmp_pair_info') = entry
    BY <1>4, <2>4 DEF PairEntry
  <2>7. QED
    BY <2>2, <2>3, <2>4, <2>5, <2>6 DEF CreatePair
<1>6. key \in Keys
  <2>1. <<a, b>> \in {q \in Tokens \X Tokens : q[1] # q[2]}
    BY DEF CreatePair
  <2>2. QED
    BY <2>1 DEF Keys
<1>7. infos \in Tokens \X Tokens /\ infos[1] = a /\ infos[2] = b
  OBVIOUS
<1> HIDE DEF c, decimals, infos
<1>8. /\ pair_contracts' \in Seq(PairContract) /\ Len(pair_contracts') = n + 1
      /\ pair_contracts'[n + 1] = c
      /\ \A i \in 1..n : pair_contracts'[i] = pair_contracts[i]
  BY <1>1, <1>4, <1>5
<1>9. entry \in PairListEntry'
  BY <1>1, <1>2, <1>7, <1>8 DEF PairListEntry
<1>10. /\ DOMAIN pairs' = DOMAIN pairs \cup {key}
       /\ pairs' = [k \in DOMAIN pairs' |-> IF k = key THEN entry ELSE pairs[k]]
  BY <1>5 DEF Put
<1>11. \A k \in DOMAIN pairs : pairs[k] \in PairListEntry'
  BY <1>1, <1>8 DEF PoolFactoryTypeOK, PairListEntry
<1>12. PoolFactoryTypeOK'
  <2>1. pairs' \in [DOMAIN pairs' -> PairListEntry']
    BY <1>9, <1>10, <1>11
  <2>2. \A i \in DOMAIN pair_contracts' : pair_contracts'[i].burns =>
          \A j \in 1..2 : FormOf[pair_contracts'[i].asset_infos[j]] # "factory"
    BY <1>1, <1>3, <1>4, <1>8 DEF PoolFactoryTypeOK
  <2>3. QED
    BY <1>1, <1>5, <1>6, <1>8, <1>10, <2>1, <2>2 DEF PoolFactoryTypeOK
<1>13. ASSUME NEW k \in DOMAIN pairs' PROVE EntryAgrees(k)'
  <2>1. CASE k = key
    <3>1. /\ pairs'[k].contract = n + 1 /\ pairs'[k].asset_infos = infos
          /\ pairs'[k].asset_decimals = decimals /\ pairs'[k].pair_type = pair_type
          /\ pairs'[k].liquidity_token = lp
      BY <1>10, <2>1
    <3>2. QED
      BY <1>4, <1>7, <1>8, <2>1, <3>1 DEF EntryAgrees
  <2>2. CASE k # key
    <3>1. k \in DOMAIN pairs /\ pairs'[k] = pairs[k]
      BY <1>10, <2>2
    <3>2. EntryAgrees(k) /\ pairs[k].contract \in 1..n
      BY <1>1, <3>1 DEF PoolInv, PoolFactoryTypeOK, PairListEntry
    <3>3. QED
      BY <1>8, <3>1, <3>2 DEF EntryAgrees
  <2>3. QED
    BY <2>1, <2>2
<1>14. PairContractsReadable => PairContractsReadable'
  BY <1>1, <1>4, <1>8 DEF PairContractsReadable, PairReadable, LeftBehind
<1>15. QED
  BY <1>1, <1>5, <1>10, <1>12, <1>13, <1>14 DEF PoolInv, PoolFactoryVersion

LEMMA RemovePairStep ==
  ASSUME PoolInv, NEW sender, NEW a, NEW b, RemovePair(sender, a, b)
  PROVE  PoolInv' /\ DOMAIN pairs' = DOMAIN pairs \ {PairKey(a, b)}
<1> DEFINE key == PairKey(a, b)
<1>1. /\ PoolFactoryTypeOK
      /\ pairs' = [k \in DOMAIN pairs \ {key} |-> pairs[k]]
      /\ UNCHANGED <<pool_factory, allow_native_tokens, pair_contracts>>
  BY DEF PoolInv, RemovePair, Drop
<1>2. PoolFactoryTypeOK'
  BY <1>1 DEF PoolFactoryTypeOK, PairListEntry
<1>3. \A k \in DOMAIN pairs' : EntryAgrees(k)'
  BY <1>1 DEF PoolInv, EntryAgrees
<1>4. QED
  BY <1>1, <1>2, <1>3 DEF PoolInv, PairContractsReadable, PairReadable, LeftBehind

LEMMA AddNativeTokenDecimalsStep ==
  ASSUME PoolInv, NEW sender, NEW t \in Tokens, NEW d \in Decimals,
         AddNativeTokenDecimals(sender, t, d)
  PROVE  PoolInv' /\ UNCHANGED pairs
<1>1. /\ PoolFactoryTypeOK
      /\ t \in Verified /\ d \in Nat
      /\ allow_native_tokens' =
           [x \in DOMAIN allow_native_tokens \cup {t} |->
              IF x = t THEN d ELSE allow_native_tokens[x]]
      /\ UNCHANGED <<pool_factory, pairs, pair_contracts>>
  BY PoolFactoryAssumption DEF PoolInv, AddNativeTokenDecimals, Put
<1>2. PoolFactoryTypeOK'
  BY <1>1 DEF PoolFactoryTypeOK, PairListEntry
<1>3. QED
  BY <1>1, <1>2 DEF PoolInv, EntryAgrees, PairContractsReadable, PairReadable, LeftBehind

LEMMA UpdatePairConfigStep ==
  ASSUME PoolInv, NEW sender, NEW i \in DOMAIN pair_contracts,
         NEW owner \in Admins \cup {PoolFactoryAddr}, NEW collector \in Collectors,
         NEW burns \in BOOLEAN, UpdatePairConfig(sender, i, owner, collector, burns)
  PROVE  PoolInv' /\ UNCHANGED pairs
<1> DEFINE old == pair_contracts[i]
           c == [old EXCEPT !.owner = owner, !.fee_collector = collector, !.burns = burns]
<1>1. /\ old \in PairContract
      /\ pair_contracts' = [pair_contracts EXCEPT ![i] = c]
      /\ UNCHANGED <<pool_factory, allow_native_tokens, pairs>>
      /\ PairReadable(old) /\ (burns => MayBurn(old.asset_infos))
  BY DEF PoolInv, PoolFactoryTypeOK, UpdatePairConfig
<1> HIDE DEF old
<1>2. /\ c \in PairContract
      /\ c.asset_infos = old.asset_infos /\ c.asset_decimals = old.asset_decimals
      /\ c.pair_type = old.pair_type /\ c.liquidity_token = old.liquidity_token
      /\ c.info = old.info /\ c.config = old.config /\ c.version = old.version
      /\ c.burns = burns
  BY <1>1 DEF PairContract
<1> HIDE DEF c
<1>3. PairReadable(c) /\ (c.burns => \A j \in 1..2 : FormOf[c.asset_infos[j]] # "factory")
  BY <1>1, <1>2 DEF PairReadable, MayBurn, IsFactoryToken
<1>4. QED
  BY <1>1, <1>2, <1>3, OnePair DEF old

LEMMA UpdatePoolFactoryStep ==
  ASSUME PoolInv, NEW sender, NEW owner \in Admins, NEW collector \in Collectors,
         UpdatePoolFactory(sender, owner, collector)
  PROVE  PoolInv' /\ UNCHANGED pairs
<1>1. /\ PoolFactoryTypeOK
      /\ pool_factory' = [pool_factory EXCEPT !.owner = owner, !.fee_collector = collector]
      /\ UNCHANGED <<allow_native_tokens, pairs, pair_contracts>>
  BY DEF PoolInv, UpdatePoolFactory
<1>2. PoolFactoryTypeOK' /\ pool_factory'.version = pool_factory.version
  BY <1>1 DEF PoolFactoryTypeOK, PairListEntry
<1>3. QED
  BY <1>1, <1>2 DEF PoolInv, EntryAgrees, PairContractsReadable, PairReadable, LeftBehind

LEMMA MigratePairStep ==
  ASSUME PoolInv, NEW sender, NEW i \in DOMAIN pair_contracts, MigratePair(sender, i)
  PROVE  PoolInv' /\ UNCHANGED pairs
<1> DEFINE old == pair_contracts[i]
           c == MigratedPair(old)
<1>1. /\ PoolFactoryTypeOK /\ old \in PairContract
      /\ pair_contracts' = [pair_contracts EXCEPT ![i] = c]
      /\ UNCHANGED <<pool_factory, allow_native_tokens, pairs>>
      /\ CanMigratePair(old)
      /\ old.burns => \A j \in 1..2 : FormOf[old.asset_infos[j]] # "factory"
      /\ PairReadable(old) \/ LeftBehind(old)
  BY DEF PoolInv, PoolFactoryTypeOK, MigratePair, PairContractsReadable
<1> HIDE DEF old
<1>2. MigratedInfo(old) \in {"pascal_case", "untyped_lp", "typed_lp"}
  BY <1>1 DEF MigratedInfo, PairContract
<1>3. /\ c \in PairContract
      /\ c.asset_infos = old.asset_infos /\ c.asset_decimals = old.asset_decimals
      /\ c.pair_type = old.pair_type /\ c.liquidity_token = old.liquidity_token
      /\ c.burns = old.burns
      /\ c.version = PairVersion /\ c.info = MigratedInfo(old)
      /\ c.config = IF old.version = 110 THEN "burn_fee" ELSE old.config
  BY <1>1, <1>2 DEF MigratedPair, PairContract
<1> HIDE DEF c
<1>4. PairReadable(c) \/ LeftBehind(c)
  <2>1. /\ old.version = 104 \/ old.version = 110 \/ old.version = 120
        /\ old.info = InfoOf(old.version) /\ old.config = PairConfigOf(old.version)
    BY <1>1, PoolFactoryAssumption
    DEF PairContract, PairReadable, LeftBehind, CanMigratePair, PairVersion
  <2>2. CASE old.version = 104
    BY <1>3, <2>1, <2>2 DEF LeftBehind, MigratedInfo, PairConfigOf
  <2>3. CASE old.version = 110
    BY <1>1, <2>1, <2>3 DEF CanMigratePair, InfoOf, PairVersion
  <2>4. CASE old.version = 120
    BY <1>3, <2>1, <2>4 DEF PairReadable, MigratedInfo, InfoOf, PairConfigOf, PairVersion
  <2>5. QED
    BY <2>1, <2>2, <2>3, <2>4
<1>5. QED
  BY <1>1, <1>3, <1>4, OnePair, ZenonT(40) DEF old

LEMMA MigratePoolFactoryStep ==
  ASSUME PoolInv, MigratePoolFactory
  PROVE  PoolInv' /\ DOMAIN pairs' = DOMAIN pairs
<1>1. /\ PoolFactoryTypeOK /\ pool_factory.version = 110
      /\ pool_factory' = [pool_factory EXCEPT !.version = PoolFactoryVersion]
      /\ pairs' = [k \in DOMAIN pairs |-> [pairs[k] EXCEPT !.pair_type = "ConstantProduct"]]
      /\ UNCHANGED <<allow_native_tokens, pair_contracts>>
  <2>1. PoolFactoryTypeOK
    BY DEF PoolInv
  <2>2. pool_factory.version \in {110, 120} /\ pool_factory.version < 120
    BY <2>1 DEF PoolFactoryTypeOK, MigratePoolFactory, PoolFactoryVersion
  <2>3. QED
    BY <2>1, <2>2 DEF MigratePoolFactory
<1>2. "ConstantProduct" \in PairTypes
  BY PoolFactoryAssumption
<1>3. ASSUME NEW k \in DOMAIN pairs
      PROVE  pairs'[k] \in PairListEntry /\ EntryAgrees(k)'
  <2>1. pairs[k] \in PairListEntry /\ EntryAgrees(k)
    BY <1>1 DEF PoolInv, PoolFactoryTypeOK
  <2>2. pairs'[k] = [pairs[k] EXCEPT !.pair_type = "ConstantProduct"]
    BY <1>1
  <2>3. /\ pairs'[k] \in PairListEntry /\ pairs'[k].pair_type = "ConstantProduct"
        /\ pairs'[k].contract = pairs[k].contract
        /\ pairs'[k].asset_infos = pairs[k].asset_infos
        /\ pairs'[k].asset_decimals = pairs[k].asset_decimals
        /\ pairs'[k].liquidity_token = pairs[k].liquidity_token
    BY <1>2, <2>1, <2>2 DEF PairListEntry
  <2>4. pair_contracts[pairs[k].contract].pair_type = "ConstantProduct"
    BY <1>1, <2>1 DEF PoolInv, PairListEntry
  <2>5. QED
    BY <1>1, <2>1, <2>3, <2>4 DEF EntryAgrees
<1>4. PairListEntry' = PairListEntry /\ pool_factory'.version = PoolFactoryVersion
  BY <1>1 DEF PairListEntry, PoolFactoryTypeOK
<1>5. PoolFactoryTypeOK'
  BY <1>1, <1>3, <1>4 DEF PoolFactoryTypeOK
<1>6. QED
  BY <1>1, <1>3, <1>4, <1>5 DEF PoolInv, PairContractsReadable, PairReadable, LeftBehind,
                                PoolFactoryVersion

-----------------------------------------------------------------------------
(* Both factories, and their reader *)

Listed == IF at_work = "vaults" THEN DOMAIN vaults ELSE DOMAIN pairs

FactoriesInv ==
  /\ at_work \in {"vaults", "pools"}
  /\ VaultInv
  /\ PoolInv
  /\ WalkOK(walk, Listed)

LEMMA VaultFactoryInitInv == VaultFactoryInit => VaultInv
BY FreshVaults, DeployedVaults DEF VaultFactoryInit

LEMMA PoolFactoryInitInv == PoolFactoryInit => PoolInv
<1> SUFFICES ASSUME PoolFactoryInit PROVE PoolInv
  OBVIOUS
<1> DEFINE old == {PairKey(p[1], p[2]) : p \in
             {q \in Tokens \X Tokens :
                q[1] # q[2] /\ FormOf[q[1]] = "cw20" /\ FormOf[q[2]] = "cw20"}}
<1>1. PICK owner \in Admins, collector \in Collectors :
        \/ NewPoolFactory(owner, collector)
        \/ \E keys \in SUBSET old : DeployedPools(owner, collector, keys)
  BY DEF PoolFactoryInit
<1>2. allow_native_tokens = <<>>
  BY DEF PoolFactoryInit
<1>3. old \subseteq Keys
  BY DEF Keys
<1> HIDE DEF old
<1>4. QED
  BY <1>1, <1>2, <1>3, NewPools, OldPoolsOfKeys

LEMMA FactoriesInitInv == FactoriesInit => FactoriesInv
<1> SUFFICES ASSUME FactoriesInit PROVE FactoriesInv
  OBVIOUS
<1>1. VaultInv /\ PoolInv /\ at_work \in {"vaults", "pools"}
  BY VaultFactoryInitInv, PoolFactoryInitInv DEF FactoriesInit
<1>2. WalkOK(walk, Listed)
  BY DEF FactoriesInit, WalkOK, NoWalk
<1>3. QED
  BY <1>1, <1>2 DEF FactoriesInv

LEMMA IdleVaults ==
  ASSUME VaultInv, UNCHANGED vault_factory_vars
  PROVE  VaultInv' /\ DOMAIN vaults' = DOMAIN vaults
BY DEF vault_factory_vars, VaultInv, VaultFactoryTypeOK, VaultsReadable, Readable,
       VaultsMatchAssets

LEMMA IdlePools ==
  ASSUME PoolInv, UNCHANGED pool_factory_vars
  PROVE  PoolInv' /\ DOMAIN pairs' = DOMAIN pairs
BY DEF pool_factory_vars, PoolInv, PoolFactoryTypeOK, PairListEntry, EntryAgrees,
       PairContractsReadable, PairReadable, LeftBehind

(* Each step of a factory keeps what its reader relies on. *)
LEMMA VaultFactoryStep ==
  ASSUME VaultInv, WalkOK(walk, DOMAIN vaults), VaultFactoryNext
  PROVE  VaultInv' /\ WalkOK(walk', DOMAIN vaults')
<1> DEFINE Kept == WalkOK(walk', DOMAIN vaults')
<1>1. DOMAIN vaults \in SUBSET (Nat \ {0}) /\ IsFiniteSet(DOMAIN vaults)
  BY VaultKeys DEF VaultInv
<1>2. ASSUME DOMAIN vaults \subseteq DOMAIN vaults', UNCHANGED walk PROVE Kept
  BY <1>2, MoreListed
<1>3. ASSUME NEW sender \in Admins, NEW denom \in Denoms, NEW fees \in VaultFees,
             CreateVault(sender, denom, fees)
      PROVE  VaultInv' /\ Kept
  <2>1. UNCHANGED walk
    BY <1>3 DEF CreateVault
  <2>2. QED
    BY <1>2, <1>3, <2>1, CreateVaultStep
<1>4. ASSUME NEW sender \in Admins, NEW denom \in Denoms, RemoveVault(sender, denom)
      PROVE  VaultInv' /\ Kept
  <2>1. Unlisted(denom)
    BY <1>4 DEF RemoveVault
  <2>2. WalkOK(walk', DOMAIN vaults \ {denom})
    BY <2>1, UnlistedStep
  <2>3. VaultInv' /\ DOMAIN vaults' = DOMAIN vaults \ {denom}
    BY <1>4, RemoveVaultStep
  <2>4. QED
    BY <2>2, <2>3
<1>5. ASSUME NEW sender \in Admins, NEW i \in DOMAIN vault_contracts, MigrateVault(sender, i)
      PROVE  VaultInv' /\ Kept
  <2>1. UNCHANGED walk
    BY <1>5 DEF MigrateVault
  <2>2. QED
    BY <1>2, <1>5, <2>1, MigrateVaultStep
<1>6. ASSUME NEW sender \in Admins, NEW i \in DOMAIN vault_contracts,
             NEW owner \in Admins \cup {VaultFactoryAddr}, NEW collector \in Collectors,
             NEW fees \in VaultFees, UpdateVaultConfig(sender, i, owner, collector, fees)
      PROVE  VaultInv' /\ Kept
  <2>1. UNCHANGED walk
    BY <1>6 DEF UpdateVaultConfig
  <2>2. QED
    BY <1>2, <1>6, <2>1, UpdateVaultConfigStep
<1>7. ASSUME NEW sender \in Admins, NEW owner \in Admins, NEW collector \in Collectors,
             UpdateVaultFactory(sender, owner, collector)
      PROVE  VaultInv' /\ Kept
  <2>1. UNCHANGED walk
    BY <1>7 DEF UpdateVaultFactory
  <2>2. QED
    BY <1>2, <1>7, <2>1, UpdateVaultFactoryStep
<1>8. ASSUME NEW sender \in Admins, MigrateVaults(sender) PROVE VaultInv' /\ Kept
  <2>1. UNCHANGED walk
    BY <1>8 DEF MigrateVaults
  <2>2. QED
    BY <1>2, <1>8, <2>1, MigrateVaultsStep
<1>9. ASSUME MigrateVaultFactory PROVE VaultInv' /\ Kept
  <2>1. UNCHANGED walk
    BY <1>9 DEF MigrateVaultFactory
  <2>2. QED
    BY <1>2, <1>9, <2>1, MigrateVaultFactoryStep
<1>10. ASSUME ReadVaults PROVE VaultInv' /\ Kept
  <2>1. UNCHANGED vault_factory_vars
    BY <1>10 DEF ReadVaults
  <2>2. VaultInv' /\ DOMAIN vaults' = DOMAIN vaults
    BY <2>1, IdleVaults
  <2>3. WalkOK(walk', DOMAIN vaults)
    BY <1>1, <1>10, StartWalkStep, NextPageStep DEF ReadVaults
  <2>4. QED
    BY <2>2, <2>3
<1>11. QED
  BY <1>3, <1>4, <1>5, <1>6, <1>7, <1>8, <1>9, <1>10 DEF VaultFactoryNext

LEMMA PoolFactoryStep ==
  ASSUME PoolInv, WalkOK(walk, DOMAIN pairs), PoolFactoryNext
  PROVE  PoolInv' /\ WalkOK(walk', DOMAIN pairs')
<1> DEFINE Kept == WalkOK(walk', DOMAIN pairs')
<1>1. DOMAIN pairs \in SUBSET (Nat \ {0}) /\ IsFiniteSet(DOMAIN pairs)
  BY PairKeys DEF PoolInv
<1>2. ASSUME DOMAIN pairs \subseteq DOMAIN pairs', UNCHANGED walk PROVE Kept
  BY <1>2, MoreListed
<1>3. ASSUME NEW sender \in Admins, NEW a \in Tokens, NEW b \in Tokens,
             NEW pair_type \in PairTypes, NEW lp \in {"cw20", "native"},
             NEW burns \in BOOLEAN, CreatePair(sender, <<a, b>>, pair_type, lp, burns)
      PROVE  PoolInv' /\ Kept
  <2>1. UNCHANGED walk
    BY <1>3 DEF CreatePair
  <2>2. QED
    BY <1>2, <1>3, <2>1, CreatePairStep
<1>4. ASSUME NEW sender \in Admins, NEW a \in Tokens, NEW b \in Tokens,
             RemovePair(sender, a, b)
      PROVE  PoolInv' /\ Kept
  <2>1. Unlisted(PairKey(a, b))
    BY <1>4 DEF RemovePair
  <2>2. WalkOK(walk', DOMAIN pairs \ {PairKey(a, b)})
    BY <2>1, UnlistedStep
  <2>3. PoolInv' /\ DOMAIN pairs' = DOMAIN pairs \ {PairKey(a, b)}
    BY <1>4, RemovePairStep
  <2>4. QED
    BY <2>2, <2>3
<1>5. ASSUME NEW sender \in Admins, NEW t \in Tokens, NEW d \in Decimals,
             AddNativeTokenDecimals(sender, t, d)
      PROVE  PoolInv' /\ Kept
  <2>1. UNCHANGED walk
    BY <1>5 DEF AddNativeTokenDecimals
  <2>2. QED
    BY <1>2, <1>5, <2>1, AddNativeTokenDecimalsStep
<1>6. ASSUME NEW sender \in Admins, NEW i \in DOMAIN pair_contracts, MigratePair(sender, i)
      PROVE  PoolInv' /\ Kept
  <2>1. UNCHANGED walk
    BY <1>6 DEF MigratePair
  <2>2. QED
    BY <1>2, <1>6, <2>1, MigratePairStep
<1>7. ASSUME NEW sender \in Admins, NEW i \in DOMAIN pair_contracts,
             NEW owner \in Admins \cup {PoolFactoryAddr}, NEW collector \in Collectors,
             NEW burns \in BOOLEAN, UpdatePairConfig(sender, i, owner, collector, burns)
      PROVE  PoolInv' /\ Kept
  <2>1. UNCHANGED walk
    BY <1>7 DEF UpdatePairConfig
  <2>2. QED
    BY <1>2, <1>7, <2>1, UpdatePairConfigStep
<1>8. ASSUME NEW sender \in Admins, NEW owner \in Admins, NEW collector \in Collectors,
             UpdatePoolFactory(sender, owner, collector)
      PROVE  PoolInv' /\ Kept
  <2>1. UNCHANGED walk
    BY <1>8 DEF UpdatePoolFactory
  <2>2. QED
    BY <1>2, <1>8, <2>1, UpdatePoolFactoryStep
<1>9. ASSUME MigratePoolFactory PROVE PoolInv' /\ Kept
  <2>1. UNCHANGED walk
    BY <1>9 DEF MigratePoolFactory
  <2>2. QED
    BY <1>2, <1>9, <2>1, MigratePoolFactoryStep
<1>10. ASSUME ReadPairs PROVE PoolInv' /\ Kept
  <2>1. UNCHANGED pool_factory_vars
    BY <1>10 DEF ReadPairs
  <2>2. PoolInv' /\ DOMAIN pairs' = DOMAIN pairs
    BY <2>1, IdlePools
  <2>3. WalkOK(walk', DOMAIN pairs)
    BY <1>1, <1>10, StartWalkStep, NextPageStep DEF ReadPairs
  <2>4. QED
    BY <2>2, <2>3
<1>11. QED
  BY <1>3, <1>4, <1>5, <1>6, <1>7, <1>8, <1>9, <1>10 DEF PoolFactoryNext

LEMMA FactoriesStep == FactoriesInv /\ [FactoriesNext]_factories_vars => FactoriesInv'
<1> SUFFICES ASSUME FactoriesInv, [FactoriesNext]_factories_vars PROVE FactoriesInv'
  OBVIOUS
<1>1. CASE at_work = "vaults" /\ VaultFactoryNext /\ UNCHANGED <<pool_factory_vars, at_work>>
  <2>1. VaultInv /\ WalkOK(walk, DOMAIN vaults)
    BY <1>1 DEF FactoriesInv, Listed
  <2>2. VaultInv' /\ WalkOK(walk', DOMAIN vaults')
    BY <1>1, <2>1, VaultFactoryStep
  <2>3. PoolInv'
    BY <1>1, IdlePools DEF FactoriesInv
  <2>4. QED
    BY <1>1, <2>2, <2>3 DEF FactoriesInv, Listed
<1>2. CASE at_work = "pools" /\ PoolFactoryNext /\ UNCHANGED <<vault_factory_vars, at_work>>
  <2>1. PoolInv /\ WalkOK(walk, DOMAIN pairs)
    BY <1>2 DEF FactoriesInv, Listed
  <2>2. PoolInv' /\ WalkOK(walk', DOMAIN pairs')
    BY <1>2, <2>1, PoolFactoryStep
  <2>3. VaultInv'
    BY <1>2, IdleVaults DEF FactoriesInv
  <2>4. QED
    BY <1>2, <2>2, <2>3 DEF FactoriesInv, Listed
<1>3. CASE UNCHANGED factories_vars
  <2>1. VaultInv' /\ PoolInv' /\ Listed' = Listed
    BY <1>3, IdleVaults, IdlePools
    DEF FactoriesInv, factories_vars, Listed, vault_factory_vars, pool_factory_vars
  <2>2. QED
    BY <1>3, <2>1 DEF FactoriesInv, factories_vars
<1>4. QED
  BY <1>1, <1>2, <1>3 DEF FactoriesNext

LEMMA FactoriesInvariant == FactoriesSpec => []FactoriesInv
BY FactoriesInitInv, FactoriesStep, PTL DEF FactoriesSpec

-----------------------------------------------------------------------------
(* Theorems *)

(* The state has its shape: no vault takes fees of the whole, no pair burns *)
(* a token of a token factory (VaultFee::is_valid, update_pair_config).     *)
THEOREM FactoriesTypeCorrect == FactoriesSpec => []FactoriesTypeOK
<1>1. FactoriesInv => FactoriesTypeOK
  BY DEF FactoriesInv, VaultInv, PoolInv, FactoriesTypeOK
<1>2. QED
  BY <1>1, FactoriesInvariant, PTL

(* The vault found for an asset is one of that asset, whatever was created, *)
(* removed and migrated before (create_vault, reply).  The migration takes  *)
(* ten entries: with more it would leave some without their asset.          *)
THEOREM VaultLookups == ASSUME MaxVaults <= 10 PROVE FactoriesSpec => []VaultsMatchAssets
<1>1. FactoriesInv => VaultsMatchAssets
  BY DEF FactoriesInv, VaultInv
<1>2. QED
  BY <1>1, FactoriesInvariant, PTL

(* The pair found for two assets is one of these two, the only one, and its *)
(* entry says what the pair says (create_pair, the replies, migrate).       *)
THEOREM PairLookups == FactoriesSpec => []PairsAgree
<1>1. FactoriesInv => PairsAgree
  BY InvPairsAgree DEF FactoriesInv
<1>2. QED
  BY <1>1, FactoriesInvariant, PTL

(* What a migration leaves, the new program reads: of all vaults, and of    *)
(* all pairs except those of 1.0.4 and earlier, which it leaves behind      *)
(* (migrate of the vault and of the pair).                                  *)
THEOREM MigrationsReadable == FactoriesSpec => []ContractsReadable
<1>1. FactoriesInv => ContractsReadable
  BY DEF FactoriesInv, VaultInv, PoolInv, ContractsReadable
<1>2. QED
  BY <1>1, FactoriesInvariant, PTL

(* A reader of the pages of either list, of any length, sees every entry    *)
(* that is there all the time, and none twice (read_vaults, read_pairs).    *)
THEOREM ReadersFindAll == FactoriesSpec => []WalkFindsAll
<1>1. FactoriesInv => WalkFindsAll
  BY DEF FactoriesInv, WalkOK, WalkFindsAll
<1>2. QED
  BY <1>1, FactoriesInvariant, PTL

-----------------------------------------------------------------------------
(* Recursion, and Newton's method *)

(* A set that holds zero and with every number below n its successor holds  *)
(* all up to n.                                                             *)
LEMMA UpTo ==
  ASSUME NEW n \in Nat, NEW T, 0 \in T, \A i \in 0..(n - 1) : i \in T => i + 1 \in T
  PROVE  \A i \in 0..n : i \in T
<1> DEFINE D == {i \in 0..n : i \notin T}
           R == {p \in Nat \X Nat : p[1] < p[2]}
<1>1. SUFFICES ASSUME D # {} PROVE FALSE
  OBVIOUS
<1>2. IsWellFoundedOn(R, Nat)
  BY NatLessThanWellFounded DEF OpToRel
<1>3. D \subseteq Nat
  OBVIOUS
<1> HIDE DEF D, R
<1>4. PICK d \in D : \A e \in D : <<e, d>> \notin R
  BY <1>1, <1>2, <1>3, WFMin
<1>5. d \in 0..n /\ d \notin T
  BY DEF D
<1>6. d # 0
  BY <1>5
<1>7. d - 1 \in 0..(n - 1) /\ (d - 1) + 1 = d /\ d - 1 \in 0..n
  BY <1>5, <1>6
<1>8. d - 1 \notin T
  BY <1>5, <1>7
<1>9. d - 1 \in D
  BY <1>7, <1>8 DEF D
<1>10. <<d - 1, d>> \in R
  BY <1>5, <1>7 DEF R
<1> QED
  BY <1>4, <1>9, <1>10

(* A function up to n is defined by its first value and by how each of the  *)
(* others follows from the one before.                                      *)
Follows(g, n, a, F) == g[0] = a /\ \A i \in 1..n : g[i] = F[<<i, g[i - 1]>>]
LEMMA Recursion ==
  ASSUME NEW n \in Nat, NEW A, NEW a \in A, NEW F \in [(1..n) \X A -> A]
  PROVE  \E g \in [0..n -> A] : Follows(g, n, a, F)
<1> DEFINE Def(m, g) == \A i \in 0..m : g[i] = IF i = 0 THEN a ELSE F[<<i, g[i - 1]>>]
           T == {m \in 0..n : \E g \in [0..m -> A] : Def(m, g)}
<1>1. 0 \in T
  <2>1. [i \in 0..0 |-> a] \in [0..0 -> A]
    OBVIOUS
  <2>2. Def(0, [i \in 0..0 |-> a])
    OBVIOUS
  <2>3. 0 \in 0..n
    OBVIOUS
  <2> HIDE DEF Def
  <2>4. \E g \in [0..0 -> A] : Def(0, g)
    BY <2>1, <2>2
  <2> QED
    BY <2>3, <2>4
<1>2. ASSUME NEW m \in 0..(n - 1), m \in T
      PROVE  m + 1 \in T
  <2>1. PICK g \in [0..m -> A] : Def(m, g)
    BY <1>2
  <2>2. m \in 0..m /\ m + 1 \in 1..n /\ m \in Nat
    OBVIOUS
  <2>3. g[m] \in A
    BY <2>1, <2>2
  <2>4. F[<<m + 1, g[m]>>] \in A
    BY <2>2, <2>3
  <2> DEFINE h == [i \in 0..(m + 1) |-> IF i = m + 1 THEN F[<<m + 1, g[m]>>] ELSE g[i]]
  <2>5. \A i \in 0..(m + 1) : i # m + 1 => i \in 0..m /\ (i # 0 => i - 1 \in 0..m /\ i - 1 # m + 1)
    OBVIOUS
  <2>6. h \in [0..(m + 1) -> A]
    BY <2>1, <2>4, <2>5
  <2>7. ASSUME NEW i \in 0..(m + 1)
        PROVE  h[i] = IF i = 0 THEN a ELSE F[<<i, h[i - 1]>>]
    <3>1. CASE i = m + 1
      <4>1. i # 0 /\ i - 1 = m /\ m \in 0..(m + 1) /\ m # m + 1
        BY <3>1
      <4>2. h[m] = g[m]
        BY <4>1
      <4> QED
        BY <3>1, <4>1, <4>2
    <3>2. CASE i # m + 1
      <4>1. i \in 0..m
        BY <2>5, <3>2
      <4>2. g[i] = IF i = 0 THEN a ELSE F[<<i, g[i - 1]>>]
        BY <2>1, <4>1
      <4>3. h[i] = g[i]
        BY <3>2
      <4>4. ASSUME i # 0 PROVE h[i - 1] = g[i - 1]
        <5>1. i - 1 \in 0..(m + 1) /\ i - 1 # m + 1
          BY <4>4, <4>1
        <5> QED
          BY <5>1
      <4> QED
        BY <4>2, <4>3, <4>4
    <3> QED
      BY <3>1, <3>2
  <2>8. Def(m + 1, h)
    BY <2>7
  <2>9. m + 1 \in 0..n
    BY <2>2
  <2> HIDE DEF h, Def
  <2> QED
    BY <2>6, <2>8, <2>9
<1>3. n \in T
  <2> HIDE DEF T
  <2>1. \A i \in 0..n : i \in T
    BY <1>1, <1>2, UpTo
  <2> QED
    BY <2>1
<1>4. PICK g \in [0..n -> A] : Def(n, g)
  BY <1>3
<1>5. ASSUME NEW i \in 1..n
      PROVE  g[i] = F[<<i, g[i - 1]>>]
  <2>1. i \in 0..n /\ i # 0
    OBVIOUS
  <2> QED
    BY <1>4, <2>1
<1>6. g[0] = a
  <2>1. 0 \in 0..n
    OBVIOUS
  <2> QED
    BY <1>4, <2>1
<1>7. Follows(g, n, a, F)
  BY <1>5, <1>6 DEF Follows
<1> QED
  BY <1>7

(* The iterations of Newton's method are natural numbers, and one that ends *)
(* in a number has a step from a number before that is within tolerance.    *)
LEMMA NewtonConverges ==
  ASSUME NEW step \in [Nat -> Nat \cup {Undefined}], NEW first \in Nat, NEW tolerance \in Nat
  PROVE  /\ Newton(step, first, tolerance) \in Nat \cup {Undefined}
         /\ Newton(step, first, tolerance) # Undefined =>
              \E y \in Nat : /\ step[y] = Newton(step, first, tolerance)
                             /\ step[y] - y \in (-tolerance)..tolerance
<1> DEFINE N == NewtonIterations
           Known == {acc \in [value : Nat \cup {Undefined}, done : BOOLEAN] :
                       acc.value = Undefined => acc.done}
           Here == [value |-> first, done |-> FALSE]
           F == [x \in (1..N) \X Known |-> NewtonStep(step, tolerance, x[2])]
           Close(acc) == acc.done /\ acc.value # Undefined =>
              \E y \in Nat : step[y] = acc.value /\ step[y] - y \in (-tolerance)..tolerance
           f == NewtonSteps(step, first, tolerance)
           T == {i \in 0..N : f[i] \in Known /\ Close(f[i])}
<1>1. N \in Nat
  BY DEF NewtonIterations
<1>2. Here \in Known
  BY CurveAssumption
<1>3. ASSUME NEW acc \in Known
      PROVE  /\ NewtonStep(step, tolerance, acc) \in Known
             /\ Close(acc) => Close(NewtonStep(step, tolerance, acc))
  <2>1. CASE acc.done
    BY <2>1 DEF NewtonStep
  <2>2. CASE ~acc.done
    <3>1. acc.value \in Nat
      BY <2>2
    <3>2. PICK y \in Nat : y = acc.value
      BY <3>1
    <3>3. step[y] \in Nat \cup {Undefined}
      BY <3>2
    <3> DEFINE next == step[y]
               new == [value |-> next,
                       done |-> next = Undefined \/ next - y \in (-tolerance)..tolerance]
    <3>4. NewtonStep(step, tolerance, acc) = new
      BY <2>2, <3>2 DEF NewtonStep
    <3>5. new \in Known
      BY <3>3
    <3>6. Close(new)
      BY <3>2, <3>3
    <3> HIDE DEF new, Known, Close
    <3> QED
      BY <3>4, <3>5, <3>6
  <2> QED
    BY <2>1, <2>2
<1> HIDE DEF Known, Here, Close
<1>4. F \in [(1..N) \X Known -> Known]
  BY <1>3
<1>5. f = [i \in 0..N |-> IF i = 0 THEN Here ELSE NewtonStep(step, tolerance, f[i - 1])]
  <2>1. PICK g \in [0..N -> Known] : Follows(g, N, Here, F)
    <3> HIDE DEF F, N, T, f
    <3> QED
      BY <1>1, <1>2, <1>4, Recursion
  <2>2. ASSUME NEW i \in 0..N, i # 0
        PROVE  F[<<i, g[i - 1]>>] = NewtonStep(step, tolerance, g[i - 1])
    <3>1. i \in 1..N /\ i - 1 \in 0..N
      BY <2>2, <1>1
    <3>2. g[i - 1] \in Known
      BY <3>1
    <3> HIDE DEF N
    <3> QED
      BY <3>1, <3>2
  <2>3. \A i \in 0..N : i # 0 => i \in 1..N
    BY <1>1
  <2>4. g = [i \in 0..N |-> IF i = 0 THEN Here ELSE NewtonStep(step, tolerance, g[i - 1])]
    <3> HIDE DEF N, F
    <3> QED
      BY <2>1, <2>2, <2>3 DEF Follows
  <2> QED
    BY <2>4 DEF NewtonSteps, Here
<1> HIDE DEF f
<1>6. \A i \in 0..N : i \in T
  <2>1. 0 \in T
    BY <1>1, <1>2, <1>5 DEF Close, Here
  <2>2. ASSUME NEW i \in 0..(N - 1), i \in T
        PROVE  i + 1 \in T
    <3>1. i + 1 \in 0..N /\ i + 1 # 0 /\ (i + 1) - 1 = i
      BY <1>1
    <3>2. f[i + 1] = NewtonStep(step, tolerance, f[i])
      <4> HIDE DEF N
      <4> QED
        BY <1>5, <3>1
    <3>3. f[i] \in Known /\ Close(f[i])
      BY <2>2
    <3> QED
      BY <1>3, <3>1, <3>2, <3>3
  <2> HIDE DEF T, N
  <2> QED
    BY <1>1, <2>1, <2>2, UpTo
<1>7. f[N] \in Known /\ Close(f[N])
  <2>1. N \in 0..N
    BY <1>1
  <2> QED
    BY <1>6, <2>1
<1>8. Newton(step, first, tolerance) = IF f[N].done THEN f[N].value ELSE Undefined
  BY DEF Newton, f
<1> QED
  BY <1>7, <1>8 DEF Known, Close

(* Products and quotients of decimals are natural.                          *)
LEMMA MulNat ==
  ASSUME NEW x \in Nat, NEW y \in Nat
  PROVE  Mul(x, y) \in Nat
<1>1. x * y \in Nat
  BY ProductNat
<1> HIDE DEF Mul
<1> QED
  BY <1>1, Quotient, CurveAssumption DEF Mul

LEMMA DivNat ==
  ASSUME NEW x \in Nat, NEW y \in Nat \ {0}
  PROVE  Div(x, y) \in Nat
<1>1. x * One \in Nat
  BY ProductNat, CurveAssumption
<1> QED
  BY <1>1, Quotient DEF Div

(* What the Newton iterations of the stableswap curve end in. *)
LEMMA StableDNat ==
  ASSUME NEW offer_pool \in Nat, NEW ask_pool \in Nat, NEW amp \in Nat \ {0},
         NEW tolerance \in Nat
  PROVE  StableD(offer_pool, ask_pool, amp, tolerance) \in Nat \cup {Undefined}
<1> DEFINE sum == offer_pool + ask_pool
           ann == amp * NCoins * One
           Product(d) == (((d * d) \div Mul(offer_pool, NCoins * One)) * d)
                           \div Mul(ask_pool, NCoins * One)
           Above(d) == Mul(Mul(ann, sum) + Mul(Product(d), NCoins * One), d)
           Below(d) == Mul(ann - One, d) + Mul((NCoins + 1) * One, Product(d))
           step == [d \in Nat |-> IF Below(d) = 0 THEN Undefined ELSE Div(Above(d), Below(d))]
<1>1. SUFFICES ASSUME offer_pool > 0, ask_pool > 0
               PROVE  Newton(step, sum, tolerance) \in Nat \cup {Undefined}
  BY DEF StableD
<1>2. ASSUME NEW x \in Nat \ {0}
      PROVE  Mul(x, NCoins * One) \in Nat \ {0}
  <2>1. x * (2 * One) = One * (2 * x) /\ 2 * x \in Nat \ {0}
    BY CurveAssumption
  <2>2. (x * (2 * One)) \div One = 2 * x
    <3>1. (One * (2 * x)) \div One = 2 * x
      BY <2>1, QuotientExact, CurveAssumption
    <3> QED
      BY <2>1, <3>1
  <2> QED
    BY <2>1, <2>2 DEF Mul, NCoins
<1>3. /\ NCoins * One \in Nat /\ (NCoins + 1) * One \in Nat /\ sum \in Nat
      /\ ann \in Nat /\ ann - One \in Nat
  <2>1. amp * 2 * One \in Nat /\ 1 * One <= (amp * 2) * One /\ 1 * One = One
    <3>1. amp * 2 \in Nat /\ 1 <= amp * 2
      OBVIOUS
    <3> QED
      BY <3>1, ProductNat, ProductMono, CurveAssumption
  <2> QED
    BY <2>1, CurveAssumption DEF NCoins
<1> HIDE DEF ann, sum
<1>4. ASSUME NEW d \in Nat
      PROVE  Product(d) \in Nat
  <2>1. PICK m \in Nat \ {0}, n \in Nat \ {0} :
          m = Mul(offer_pool, NCoins * One) /\ n = Mul(ask_pool, NCoins * One)
    BY <1>1, <1>2
  <2>2. d * d \in Nat
    BY ProductNat
  <2>3. PICK half \in Nat : half = (d * d) \div m
    BY <2>2, Quotient
  <2>4. PICK top \in Nat : top = half * d
    BY ProductNat
  <2>5. top \div n \in Nat
    BY Quotient
  <2>6. Product(d) = top \div n
    BY <2>1, <2>3, <2>4
  <2> QED
    BY <2>5, <2>6
<1> HIDE DEF Product
<1>5. ASSUME NEW d \in Nat
      PROVE  Above(d) \in Nat /\ Below(d) \in Nat
  <2>1. Mul(ann, sum) \in Nat /\ Mul(Product(d), NCoins * One) \in Nat
    BY <1>3, <1>4, MulNat
  <2>2. Mul(ann, sum) + Mul(Product(d), NCoins * One) \in Nat
    BY <2>1
  <2>3. Mul(ann - One, d) \in Nat /\ Mul((NCoins + 1) * One, Product(d)) \in Nat
    BY <1>3, <1>4, MulNat
  <2>4. Above(d) \in Nat
    BY <2>2, MulNat
  <2>5. Below(d) \in Nat
    BY <2>3
  <2> QED
    BY <2>4, <2>5
<1> HIDE DEF Above, Below
<1>6. step \in [Nat -> Nat \cup {Undefined}]
  BY <1>5, DivNat
<1> QED
  BY <1>3, <1>6, NewtonConverges

(* A root of the curve, if the iteration ends in one, is one step from a    *)
(* number next to it.                                                       *)
LEMMA StableRootStep ==
  ASSUME NEW d \in Nat, NEW pool_sum \in Nat \ {0}, NEW ann \in Nat \ {0}
  PROVE  LET new == StableRoot(d, pool_sum, ann)
             c == (((d * d) \div (pool_sum * NCoins)) * d) \div (ann * NCoins)
             b == pool_sum + d \div ann IN
         /\ new \in Nat \cup {Undefined} /\ c \in Nat /\ b \in Nat
         /\ new # Undefined =>
              \E y \in Nat : /\ 2 * y + b > d
                             /\ new = (y * y + c) \div (2 * y + b - d)
                             /\ new - y \in (-1)..1
<1> DEFINE c == (((d * d) \div (pool_sum * NCoins)) * d) \div (ann * NCoins)
           b == pool_sum + d \div ann
           step == [y \in Nat |-> IF 2 * y + b <= d THEN Undefined
                                  ELSE (y * y + c) \div (2 * y + b - d)]
           new == StableRoot(d, pool_sum, ann)
<1>1. c \in Nat
  <2>1. d * d \in Nat
    BY ProductNat
  <2>2. pool_sum * NCoins \in Nat \ {0} /\ ann * NCoins \in Nat \ {0}
    BY DEF NCoins
  <2>3. (d * d) \div (pool_sum * NCoins) \in Nat
    BY <2>1, <2>2, Quotient
  <2>4. ((d * d) \div (pool_sum * NCoins)) * d \in Nat
    BY <2>3, ProductNat
  <2> QED
    BY <2>2, <2>4, Quotient
<1>2. b \in Nat
  BY Quotient
<1> HIDE DEF c, b
<1>3. ASSUME NEW y \in Nat, 2 * y + b > d
      PROVE  (y * y + c) \div (2 * y + b - d) \in Nat
  <2>1. y * y + c \in Nat
    BY <1>1, ProductNat
  <2>2. 2 * y + b - d \in Nat \ {0}
    BY <1>2, <1>3
  <2> QED
    BY <2>1, <2>2, Quotient
<1>4. step \in [Nat -> Nat \cup {Undefined}]
  BY <1>2, <1>3
<1>5. new = Newton(step, d, 1)
  BY DEF StableRoot, c, b
<1> HIDE DEF new
<1>6. /\ new \in Nat \cup {Undefined}
      /\ new # Undefined => \E y \in Nat : step[y] = new /\ new - y \in (-1)..1
  <2> HIDE DEF step
  <2>1. 1 \in Nat
    OBVIOUS
  <2> QED
    BY <1>4, <1>5, <2>1, NewtonConverges
<1>7. ASSUME new # Undefined
      PROVE  \E y \in Nat : /\ 2 * y + b > d
                            /\ new = (y * y + c) \div (2 * y + b - d)
                            /\ new - y \in (-1)..1
  <2>1. PICK y \in Nat : step[y] = new /\ new - y \in (-1)..1
    BY <1>6, <1>7
  <2>2. step[y] # Undefined
    BY <2>1, <1>7
  <2>3. 2 * y + b > d /\ step[y] = (y * y + c) \div (2 * y + b - d)
    BY <1>2, <2>2
  <2> QED
    BY <2>1, <2>3
<1> QED
  BY <1>1, <1>2, <1>6, <1>7 DEF new, c, b

(* What calculate_stableswap_y returns is an amount, if anything.           *)
LEMMA StableYNat ==
  ASSUME NEW offer_pool \in Nat, NEW ask_pool \in Nat, NEW pool_sum \in Nat,
         NEW amp \in Nat \ {0}, NEW scale \in Nat \ {0}
  PROVE  StableY(offer_pool, ask_pool, pool_sum, amp, scale) \in Nat \cup {Undefined}
<1> DEFINE d == StableD(offer_pool, ask_pool, amp, scale)
<1>1. SUFFICES ASSUME d # Undefined, pool_sum >= scale
               PROVE  StableRoot(d \div scale, pool_sum \div scale, amp * NCoins)
                        \in Nat \cup {Undefined}
  BY DEF StableY
<1>2. d \in Nat
  BY <1>1, StableDNat
<1> HIDE DEF d
<1>3. d \div scale \in Nat /\ pool_sum \div scale \in Nat
  BY <1>2, Quotient
<1>4. pool_sum \div scale # 0
  <2>1. scale * 1 <= pool_sum
    BY <1>1
  <2>2. 1 <= pool_sum \div scale
    BY <2>1, QuotientAtLeast
  <2> QED
    BY <1>3, <2>2
<1>5. amp * NCoins \in Nat \ {0}
  BY DEF NCoins
<1> QED
  BY <1>3, <1>4, <1>5, StableRootStep

Fees == [protocol : Nat, swap : Nat, burn : Nat]
TypesOfPairs == [amp : Nat, offer_scale : Nat \ {0}, ask_scale : Nat \ {0}]

(* The cuts of an amount are natural, and no more than all fees together    *)
(* would take of it at once.                                                *)
LEMMA FeesTogether ==
  ASSUME NEW gross \in Nat, NEW fees \in Fees, TotalOf(fees) <= Unit
  PROVE  LET cut == FeesOn(gross, fees) IN
         /\ cut.protocol \in Nat /\ cut.swap \in Nat /\ cut.burn \in Nat
         /\ TotalOf(fees) \in Nat
         /\ TotalOf(cut) <= (gross * TotalOf(fees)) \div Unit
         /\ (gross * TotalOf(fees)) \div Unit \in 0..gross
<1> DEFINE cut == FeesOn(gross, fees)
<1>1. PICK p \in Nat, s \in Nat, b \in Nat :
        p = fees.protocol /\ s = fees.swap /\ b = fees.burn
  BY DEF Fees
<1>2. PICK u \in Nat \ {0} : u = Unit
  BY CurveAssumption
<1>3. gross * p \in Nat /\ gross * s \in Nat /\ gross * b \in Nat
  BY ProductNat
<1>4. PICK cp \in Nat, cs \in Nat, cb \in Nat :
        /\ cp = (gross * p) \div u /\ u * cp <= gross * p
        /\ cs = (gross * s) \div u /\ u * cs <= gross * s
        /\ cb = (gross * b) \div u /\ u * cb <= gross * b
  BY <1>3, Quotient
<1>5. cut.protocol = cp /\ cut.swap = cs /\ cut.burn = cb
  BY <1>1, <1>2, <1>4 DEF FeesOn, FeeKinds
<1>6. PICK t \in Nat : t = p + s + b
  OBVIOUS
<1>7. TotalOf(fees) = t /\ TotalOf(cut) = cp + cs + cb
  BY <1>1, <1>5, <1>6 DEF TotalOf
<1> HIDE DEF cut
<1>8. gross * t = gross * p + gross * s + gross * b
  BY <1>6
<1>9. u * (cp + cs + cb) = u * cp + u * cs + u * cb
  OBVIOUS
<1>10. (cp + cs + cb) * u <= gross * t
  <2>1. u * cp \in Nat /\ u * cs \in Nat /\ u * cb \in Nat
    BY ProductNat
  <2>2. (cp + cs + cb) * u = u * (cp + cs + cb)
    OBVIOUS
  <2> HIDE <1>6
  <2> QED
    BY <1>3, <1>4, <1>8, <1>9, <2>1, <2>2
<1>11. gross * t \in Nat
  BY ProductNat
<1>12. cp + cs + cb <= (gross * t) \div u
  BY <1>10, <1>11, QuotientAtLeast
<1>13. (gross * t) \div u \in Nat /\ (gross * t) \div u <= gross
  <2>1. t <= u
    BY <1>2, <1>7
  <2>2. t * gross <= u * gross
    BY <2>1, ProductMono
  <2>3. gross * t <= u * gross
    BY <2>2
  <2> QED
    BY <1>11, <2>3, Quotient, QuotientBound
<1> QED
  BY <1>2, <1>5, <1>7, <1>12, <1>13 DEF cut

(* What a pool gives is not more than it has. *)
LEMMA GrossReturnNat ==
  ASSUME NEW offer_pool \in Nat, NEW ask_pool \in Nat, NEW offer \in Nat,
         NEW type \in TypesOfPairs
  PROVE  LET gross == GrossReturn(offer_pool, ask_pool, offer, type) IN
         gross # Undefined => gross \in 0..ask_pool
<1> DEFINE gross == GrossReturn(offer_pool, ask_pool, offer, type)
<1>1. SUFFICES ASSUME gross # Undefined PROVE gross \in 0..ask_pool
  OBVIOUS
<1>2. CASE type.amp = 0
  <2>1. offer_pool # 0 /\ gross = (ask_pool * offer) \div (offer_pool + offer)
    BY <1>1, <1>2 DEF GrossReturn
  <2>2. PICK n \in Nat \ {0} : n = offer_pool + offer
    BY <2>1
  <2>3. offer * ask_pool <= n * ask_pool
    BY <2>2, ProductMono
  <2>4. PICK top \in Nat : top = ask_pool * offer
    BY ProductNat
  <2>5. top <= n * ask_pool
    BY <2>3, <2>4
  <2>6. top \div n \in Nat /\ top \div n <= ask_pool
    BY <2>5, Quotient, QuotientBound
  <2>7. gross = top \div n
    BY <2>1, <2>2, <2>4
  <2> HIDE DEF gross
  <2> QED
    BY <2>6, <2>7
<1>3. CASE type.amp # 0
  <2> DEFINE new_pool == StableY(offer_pool * type.offer_scale, ask_pool * type.ask_scale,
                            (offer_pool + offer) * type.offer_scale,
                            type.amp, type.ask_scale)
  <2>1. new_pool # Undefined /\ ~(new_pool > ask_pool) /\ gross = ask_pool - new_pool
    BY <1>1, <1>3 DEF GrossReturn
  <2>2. PICK s \in Nat \ {0}, t \in Nat \ {0}, a \in Nat \ {0} :
          s = type.offer_scale /\ t = type.ask_scale /\ a = type.amp
    BY <1>3 DEF TypesOfPairs
  <2>3. offer_pool * s \in Nat /\ ask_pool * t \in Nat /\ (offer_pool + offer) * s \in Nat
    BY ProductNat
  <2>4. new_pool \in Nat
    BY <2>1, <2>2, <2>3, StableYNat
  <2> HIDE DEF gross, new_pool
  <2> QED
    BY <2>1, <2>4
<1> QED
  BY <1>2, <1>3

(* A swap pays the receiver and the fees out of what the pool has.          *)
LEMMA ComputeSwapNat ==
  ASSUME NEW offer_pool \in Nat, NEW ask_pool \in Nat, NEW offer \in Nat,
         NEW fees \in Fees, TotalOf(fees) < Unit, NEW type \in TypesOfPairs,
         ComputeSwap(offer_pool, ask_pool, offer, fees, type) # Undefined
  PROVE  LET swap == ComputeSwap(offer_pool, ask_pool, offer, fees, type) IN
         /\ swap.return \in Nat
         /\ swap.fees.protocol \in Nat /\ swap.fees.swap \in Nat /\ swap.fees.burn \in Nat
         /\ swap.return + swap.fees.protocol + swap.fees.burn <= ask_pool
<1> DEFINE gross == GrossReturn(offer_pool, ask_pool, offer, type)
           cut == FeesOn(gross, fees)
           swap == ComputeSwap(offer_pool, ask_pool, offer, fees, type)
<1>1. gross # Undefined /\ swap = [return |-> gross - TotalOf(cut), fees |-> cut]
  BY DEF ComputeSwap
<1>2. gross \in Nat /\ gross <= ask_pool
  BY <1>1, GrossReturnNat
<1> HIDE DEF gross, swap
<1>3. /\ cut.protocol \in Nat /\ cut.swap \in Nat /\ cut.burn \in Nat
      /\ TotalOf(cut) <= (gross * TotalOf(fees)) \div Unit
      /\ (gross * TotalOf(fees)) \div Unit \in 0..gross
  <2>1. TotalOf(fees) <= Unit
    BY CurveAssumption DEF TotalOf, Fees
  <2> QED
    BY <1>2, <2>1, FeesTogether
<1>4. TotalOf(cut) = cut.protocol + cut.swap + cut.burn
  BY DEF TotalOf
<1> HIDE DEF cut
<1>5. swap.return = gross - TotalOf(cut) /\ swap.fees = cut
  BY <1>1
<1>6. TotalOf(cut) <= gross
  BY <1>2, <1>3, <1>4
<1> QED
  BY <1>2, <1>3, <1>4, <1>5, <1>6 DEF swap

-----------------------------------------------------------------------------
(* Sequences of messages *)

(* What is left of a sequence is what followed its first element.           *)
LEMMA Rest ==
  ASSUME NEW S, NEW s \in Seq(S), s # <<>>
  PROVE  /\ Len(s) \in Nat \ {0} /\ Head(s) = s[1]
         /\ Tail(s) \in Seq(S) /\ Len(Tail(s)) = Len(s) - 1
         /\ \A i \in 1..(Len(s) - 1) : Tail(s)[i] = s[i + 1]
         /\ Tail(s) = <<>> <=> Len(s) = 1
<1>1. Len(s) \in Nat \ {0}
  BY EmptySeq
<1>2. Head(s) = s[1]
  OBVIOUS
<1>3. Tail(s) \in Seq(S) /\ Len(Tail(s)) = Len(s) - 1
  BY <1>1
<1>4. \A i \in 1..(Len(s) - 1) : Tail(s)[i] = s[i + 1]
  BY <1>1
<1>5. Tail(s) = <<>> <=> Len(s) = 1
  <2>1. PICK t \in Seq(S) : t = Tail(s)
    BY <1>3
  <2>2. t = <<>> <=> Len(t) = 0
    OBVIOUS
  <2> QED
    BY <1>1, <1>3, <2>1, <2>2
<1> QED
  BY <1>1, <1>2, <1>3, <1>4, <1>5

(* An operation is of two assets.                                           *)
LEMMA PairSet ==
  ASSUME NEW op \in Assets \X Assets
  PROVE  ToSet(op) = {op[1], op[2]} /\ op[1] \in Assets /\ op[2] \in Assets
<1>1. PICK a \in Assets, b \in Assets : op = <<a, b>>
  OBVIOUS
<1>2. DOMAIN op = {1, 2}
  BY <1>1
<1>3. ToSet(op) = {op[i] : i \in DOMAIN op}
  BY DEF ToSet
<1> QED
  BY <1>1, <1>2, <1>3

-----------------------------------------------------------------------------
(* Balances *)

(* Pairs have at least what they keep for the protocol.                     *)
GoodState(s) ==
  /\ s.balance \in [Holders -> [Assets -> Nat]]
  /\ s.collected \in [Pools -> [Assets -> Nat]]
  /\ \A p \in Pools, a \in Assets : s.collected[p][a] <= s.balance[p][a]

(* Nobody has two parts.                                                    *)
LEMMA Parties ==
  /\ Router \in Holders /\ Router \notin Users /\ Router \notin Pools
  /\ Users \subseteq Holders /\ Pools \subseteq Holders
  /\ \A p \in Pools : p \notin Users
BY RouterAssumption DEF Holders

(* What moving coins that are there does, and what it leaves alone.         *)
LEMMA MovedBalances ==
  ASSUME NEW b \in [Holders -> [Assets -> Nat]], NEW from \in Holders, NEW to \in Holders,
         from # to, NEW a \in Assets, NEW amount \in Nat, amount <= b[from][a]
  PROVE  LET m == Moved(b, from, to, a, amount) IN
         /\ m \in [Holders -> [Assets -> Nat]]
         /\ \A h \in Holders, x \in Assets : x # a => m[h][x] = b[h][x]
         /\ \A h \in Holders : h # from /\ h # to => m[h] = b[h]
         /\ m[from][a] = b[from][a] - amount
         /\ m[to][a] = b[to][a] + amount
<1> DEFINE m == Moved(b, from, to, a, amount)
<1>1. ASSUME NEW h \in Holders
      PROVE  /\ b[h] \in [Assets -> Nat]
             /\ m[h] = [b[h] EXCEPT ![a] = b[h][a] - (IF h = from THEN amount ELSE 0)
                                                   + (IF h = to THEN amount ELSE 0)]
  BY DEF Moved
<1>2. m = [h \in Holders |-> m[h]]
  BY DEF Moved
<1> HIDE DEF m
<1>3. ASSUME NEW h \in Holders
      PROVE  /\ b[h][a] - (IF h = from THEN amount ELSE 0) + (IF h = to THEN amount ELSE 0) \in Nat
             /\ m[h] \in [Assets -> Nat]
             /\ h # from /\ h # to => m[h] = b[h]
             /\ h = from => m[h][a] = b[h][a] - amount
             /\ h = to => m[h][a] = b[h][a] + amount
  <2>1. PICK n \in Nat : n = b[h][a]
    BY <1>1
  <2>2. b[h] \in [Assets -> Nat]
    BY <1>1
  <2>3. CASE h = from
    <3>1. n - amount \in Nat /\ n - (IF h = from THEN amount ELSE 0) + (IF h = to THEN amount ELSE 0) = n - amount
      BY <2>1, <2>3
    <3>2. m[h] = [b[h] EXCEPT ![a] = n - amount]
      BY <1>1, <2>1, <3>1
    <3> QED
      BY <2>1, <2>2, <2>3, <3>1, <3>2
  <2>4. CASE h = to
    <3>1. n + amount \in Nat /\ n - (IF h = from THEN amount ELSE 0) + (IF h = to THEN amount ELSE 0) = n + amount
      BY <2>4
    <3>2. m[h] = [b[h] EXCEPT ![a] = n + amount]
      BY <1>1, <2>1, <3>1
    <3> QED
      BY <2>1, <2>2, <2>4, <3>1, <3>2
  <2>5. CASE h # from /\ h # to
    <3>1. n - (IF h = from THEN amount ELSE 0) + (IF h = to THEN amount ELSE 0) = n
      BY <2>5
    <3>2. m[h] = [b[h] EXCEPT ![a] = n]
      BY <1>1, <2>1, <3>1
    <3> QED
      BY <2>1, <2>2, <2>5, <3>1, <3>2
  <2> QED
    BY <2>3, <2>4, <2>5
<1>4. m \in [Holders -> [Assets -> Nat]]
  <2>1. \A h \in Holders : m[h] \in [Assets -> Nat]
    BY <1>1, <1>3
  <2> QED
    BY <1>2, <2>1
<1>5. \A h \in Holders, x \in Assets : x # a => m[h][x] = b[h][x]
  BY <1>1
<1> QED
  BY <1>3, <1>4, <1>5 DEF m

(* The pair that answers for an operation. *)
LEMMA PairAnswers ==
  ASSUME listed \in SUBSET Pools, NEW op \in Assets \X Assets, PairOf(op) # {}
  PROVE  /\ ThePair(op) \in listed /\ ThePair(op) \in Pools
         /\ ToSet(AssetsOf[ThePair(op)]) = {op[1], op[2]}
         /\ op[1] \in Assets /\ op[2] \in Assets /\ op[1] # op[2]
<1>1. ThePair(op) \in PairOf(op)
  BY DEF ThePair
<1> QED
  BY <1>1 DEF PairOf

(* What a pair trades with is an amount, and its type is one of pairs.      *)
LEMMA AvailableNat ==
  ASSUME NEW s, GoodState(s), NEW p \in Pools, NEW a \in Assets
  PROVE  Available(s, p, a) \in Nat
<1>1. p \in Holders
  BY Parties
<1>2. s.balance[p][a] \in Nat /\ s.collected[p][a] \in Nat /\ s.collected[p][a] <= s.balance[p][a]
  BY <1>1 DEF GoodState
<1> QED
  BY <1>2 DEF Available

LEMMA TypeOfPairType ==
  ASSUME NEW p \in Pools, NEW op \in Assets \X Assets
  PROVE  TypeOfPair(p, op) \in TypesOfPairs
<1>1. op[1] \in Assets /\ op[2] \in Assets
  OBVIOUS
<1> QED
  BY <1>1, RouterAssumption DEF TypeOfPair, TypesOfPairs

(* A simulation that answers pays and keeps what the pair has.              *)
LEMMA SimulationPays ==
  ASSUME listed \in SUBSET Pools, NEW s, GoodState(s), NEW op \in Assets \X Assets,
         NEW offer \in Nat, Simulation(s, op, offer) # Undefined
  PROVE  LET sim == Simulation(s, op, offer) IN
         /\ sim.return \in Nat
         /\ sim.fees.protocol \in Nat /\ sim.fees.burn \in Nat
         /\ sim.return + sim.fees.protocol + sim.fees.burn
              <= Available(s, ThePair(op), op[2])
<1> DEFINE p == ThePair(op)
<1>1. p \in Pools /\ op[1] \in Assets /\ op[2] \in Assets
  BY PairAnswers DEF Simulation
<1> HIDE DEF p
<1>2. Available(s, p, op[1]) \in Nat /\ Available(s, p, op[2]) \in Nat
  BY <1>1, AvailableNat
<1>3. FeesOf[p] \in Fees /\ TotalOf(FeesOf[p]) < Unit
  BY <1>1, RouterAssumption DEF Fees
<1>4. TypeOfPair(p, op) \in TypesOfPairs
  BY <1>1, TypeOfPairType
<1>5. Simulation(s, op, offer) =
        ComputeSwap(Available(s, p, op[1]), Available(s, p, op[2]), offer, FeesOf[p],
                    TypeOfPair(p, op))
  BY DEF Simulation, p
<1> QED
  BY <1>2, <1>3, <1>4, <1>5, ComputeSwapNat DEF p

(* A swap takes from the router all it has of the offer, and gives the      *)
(* receiver the return; the others keep what they have.                     *)
LEMMA SwapMoves ==
  ASSUME listed \in SUBSET Pools, GoodState(State), NEW op \in Assets \X Assets, CanSwap(op),
         NEW to \in Users \cup {Router}, ExecuteSwapOperation,
         Head(tasks).op = op, Head(tasks).to = to
  PROVE  LET p == ThePair(op)
             return == SwapOf(op, OfferOf(op)).return IN
         /\ GoodState([balance |-> balance', collected |-> collected'])
         /\ OfferOf(op) \in Nat /\ return \in Nat
         /\ balance'[Router][op[1]] = 0
         /\ balance'[to][op[2]] = balance[to][op[2]] + return
         /\ \A a \in Assets : a # op[1] /\ a # op[2] => balance'[Router][a] = balance[Router][a]
         /\ to # Router => balance'[Router][op[2]] = balance[Router][op[2]]
         /\ \A h \in Holders : h # Router /\ h # p /\ h # to => balance'[h] = balance[h]
         /\ \A q \in Pools : q # p => collected'[q] = collected[q]
<1> DEFINE p == ThePair(op)
           offer == OfferOf(op)
           swap == SwapOf(op, offer)
           in == Moved(balance, Router, p, op[1], offer)
           out == Moved(in, p, to, op[2], swap.return)
<1>1. /\ balance \in [Holders -> [Assets -> Nat]] /\ collected \in [Pools -> [Assets -> Nat]]
      /\ \A q \in Pools, a \in Assets : collected[q][a] <= balance[q][a]
  BY DEF GoodState, State
<1>2. PairOf(op) # {} /\ offer > 0 /\ swap # Undefined
  BY DEF CanSwap, SwapOf, Simulation
<1>3. /\ balance' = [out EXCEPT ![p][op[2]] = out[p][op[2]] - swap.fees.burn]
      /\ collected' = [collected EXCEPT ![p][op[2]] = collected[p][op[2]] + swap.fees.protocol]
  BY DEF ExecuteSwapOperation
<1>4. p \in Pools /\ op[1] \in Assets /\ op[2] \in Assets /\ op[1] # op[2]
  BY <1>2, PairAnswers
<1>5. p \in Holders /\ Router \in Holders /\ to \in Holders /\ p # Router /\ p # to
  BY <1>4, Parties
<1>6. offer \in Nat /\ offer = balance[Router][op[1]]
  BY <1>1, <1>4, <1>5 DEF OfferOf
<1>7. PICK r \in Nat, f \in Nat, b \in Nat :
        /\ r = swap.return /\ f = swap.fees.protocol /\ b = swap.fees.burn
        /\ r + f + b <= Available(State, p, op[2])
  <2>1. Simulation(State, op, offer) # Undefined
    BY <1>2 DEF SwapOf
  <2> HIDE DEF offer
  <2> QED
    BY <1>2, <1>6, <2>1, SimulationPays DEF SwapOf
<1> HIDE DEF swap, p, offer
<1>8. r + f + b + collected[p][op[2]] <= balance[p][op[2]]
  <2>1. balance[p][op[2]] \in Nat /\ collected[p][op[2]] \in Nat
    BY <1>1, <1>4, <1>5
  <2>2. Available(State, p, op[2]) = balance[p][op[2]] - collected[p][op[2]]
    BY DEF Available, State
  <2> QED
    BY <1>7, <2>1, <2>2
<1>9. /\ in \in [Holders -> [Assets -> Nat]]
      /\ \A h \in Holders, x \in Assets : x # op[1] => in[h][x] = balance[h][x]
      /\ \A h \in Holders : h # Router /\ h # p => in[h] = balance[h]
      /\ in[Router][op[1]] = balance[Router][op[1]] - offer
      /\ in[p][op[1]] = balance[p][op[1]] + offer
  <2>1. offer <= balance[Router][op[1]]
    BY <1>6
  <2> QED
    BY <1>1, <1>4, <1>5, <1>6, <2>1, MovedBalances
<1> HIDE DEF in
<1>10. in[p][op[2]] = balance[p][op[2]] /\ balance[p][op[2]] \in Nat /\ collected[p][op[2]] \in Nat
  BY <1>1, <1>4, <1>5, <1>9
<1>11. out = Moved(in, p, to, op[2], r)
  BY <1>7
<1>12. /\ out \in [Holders -> [Assets -> Nat]]
       /\ \A h \in Holders, x \in Assets : x # op[2] => out[h][x] = in[h][x]
       /\ \A h \in Holders : h # p /\ h # to => out[h] = in[h]
       /\ out[p][op[2]] = in[p][op[2]] - r
       /\ out[to][op[2]] = in[to][op[2]] + r
  <2>1. r <= in[p][op[2]]
    BY <1>8, <1>10
  <2>2. PICK o : o = op[2]
    OBVIOUS
  <2>3. o \in Assets /\ p # to /\ p \in Holders /\ to \in Holders /\ r <= in[p][o]
    BY <1>4, <1>5, <2>1, <2>2
  <2> DEFINE m == Moved(in, p, to, o, r)
  <2>4. /\ m \in [Holders -> [Assets -> Nat]]
        /\ \A h \in Holders, x \in Assets : x # o => m[h][x] = in[h][x]
        /\ \A h \in Holders : h # p /\ h # to => m[h] = in[h]
        /\ m[p][o] = in[p][o] - r
        /\ m[to][o] = in[to][o] + r
    BY <1>9, <2>3, MovedBalances
  <2>5. m = out
    BY <1>11, <2>2
  <2> HIDE DEF m, out
  <2> QED
    BY <2>2, <2>4, <2>5
<1> HIDE DEF out
<1>13. balance' = [out EXCEPT ![p] = [out[p] EXCEPT ![op[2]] = out[p][op[2]] - b]]
  BY <1>3, <1>7
<1>14. collected' = [collected EXCEPT ![p] = [collected[p] EXCEPT ![op[2]] = collected[p][op[2]] + f]]
  BY <1>3, <1>7
<1>15. /\ balance' \in [Holders -> [Assets -> Nat]]
       /\ \A h \in Holders : h # p => balance'[h] = out[h]
       /\ balance'[p][op[2]] = balance[p][op[2]] - r - b
       /\ \A x \in Assets : x # op[2] => balance'[p][x] = in[p][x]
  <2>1. out[p][op[2]] - b \in Nat /\ out[p][op[2]] = balance[p][op[2]] - r
    BY <1>8, <1>10, <1>12
  <2>2. out[p] \in [Assets -> Nat]
    BY <1>5, <1>12
  <2>3. [out[p] EXCEPT ![op[2]] = out[p][op[2]] - b] \in [Assets -> Nat]
    BY <2>1, <2>2
  <2>4. balance' \in [Holders -> [Assets -> Nat]]
    BY <1>12, <1>13, <2>3
  <2>5. \A h \in Holders : h # p => balance'[h] = out[h]
    BY <1>12, <1>13
  <2>6. balance'[p] = [out[p] EXCEPT ![op[2]] = out[p][op[2]] - b]
    BY <1>5, <1>12, <1>13
  <2>7. balance'[p][op[2]] = balance[p][op[2]] - r - b
    BY <1>4, <2>1, <2>2, <2>6
  <2>8. \A x \in Assets : x # op[2] => balance'[p][x] = out[p][x]
    BY <2>2, <2>6
  <2> QED
    BY <1>5, <1>12, <2>4, <2>5, <2>7, <2>8
<1>16. /\ collected' \in [Pools -> [Assets -> Nat]]
       /\ \A q \in Pools : q # p => collected'[q] = collected[q]
       /\ collected'[p][op[2]] = collected[p][op[2]] + f
       /\ \A x \in Assets : x # op[2] => collected'[p][x] = collected[p][x]
  <2>1. collected[p] \in [Assets -> Nat] /\ collected[p][op[2]] + f \in Nat
    BY <1>1, <1>4, <1>10
  <2> QED
    BY <1>1, <1>4, <1>14, <2>1
<1>17. ASSUME NEW q \in Pools, NEW a \in Assets
       PROVE  collected'[q][a] <= balance'[q][a]
  <2>1. q \in Holders /\ q # Router /\ q # to
    BY Parties
  <2>2. collected[q][a] <= balance[q][a] /\ collected[q][a] \in Nat /\ balance[q][a] \in Nat
    BY <1>1, <2>1
  <2>3. CASE q # p
    BY <1>9, <1>12, <1>15, <1>16, <2>1, <2>2, <2>3
  <2>4. CASE q = p /\ a = op[2]
    BY <1>8, <1>10, <1>15, <1>16, <2>4
  <2>5. CASE q = p /\ a # op[2]
    <3>1. collected'[q][a] = collected[q][a] /\ balance'[q][a] = in[q][a]
      BY <1>15, <1>16, <2>5
    <3>2. in[q][a] >= balance[q][a]
      BY <1>6, <1>9, <2>1, <2>2, <2>5
    <3>3. in[q][a] \in Nat
      BY <1>9, <2>1
    <3> QED
      BY <2>2, <3>1, <3>2, <3>3
  <2> QED
    BY <2>3, <2>4, <2>5
<1>18. GoodState([balance |-> balance', collected |-> collected'])
  BY <1>15, <1>16, <1>17 DEF GoodState
<1>19. balance'[Router][op[1]] = 0
  <2>1. balance'[Router] = out[Router]
    BY <1>5, <1>15
  <2>2. out[Router][op[1]] = in[Router][op[1]]
    BY <1>4, <1>5, <1>12
  <2> QED
    BY <1>6, <1>9, <2>1, <2>2
<1>20. balance'[to][op[2]] = balance[to][op[2]] + r
  BY <1>4, <1>5, <1>9, <1>12, <1>15
<1>21. \A a \in Assets : a # op[1] /\ a # op[2] => balance'[Router][a] = balance[Router][a]
  BY <1>5, <1>9, <1>12, <1>15
<1>22. to # Router => balance'[Router][op[2]] = balance[Router][op[2]]
  BY <1>4, <1>5, <1>9, <1>12, <1>15
<1>23. \A h \in Holders : h # Router /\ h # p /\ h # to => balance'[h] = balance[h]
  BY <1>9, <1>12, <1>15
<1>24. swap.return = r
  BY <1>7
<1> QED
  BY <1>6, <1>16, <1>18, <1>19, <1>20, <1>21, <1>22, <1>23, <1>24 DEF p, offer, swap

-----------------------------------------------------------------------------
(* The invariant *)

(* The messages of a call, the last of them the check of the minimum.       *)
Messages(c) == Len(c.ops) + (IF c.minimum = NoMinimum THEN 0 ELSE 1)
Ask(c) == c.ops[Len(c.ops)][2]
Paid(c) == Moved(c.before.balance, c.sender, Router, c.asset, c.amount)
TaskOf(c, i) ==
  IF i <= Len(c.ops)
  THEN [msg |-> "swap", op |-> c.ops[i], to |-> Receiver(i, Len(c.ops), c.to)]
  ELSE [msg |-> "assert", asset |-> Ask(c), receiver |-> c.to, minimum |-> c.minimum,
        prev_balance |-> PrevBalance(Paid(c), c.to, Ask(c))]
Done == Messages(call) - Len(tasks)

CallOK(c) ==
  /\ c.sender \in Users /\ c.to \in Users \cup {Router}
  /\ c.ops \in Seq(Assets \X Assets) /\ c.ops # <<>>
  /\ c.minimum \in Nat \cup {NoMinimum}
  /\ c.asset \in Assets /\ c.amount \in Nat
  /\ GoodState(c.before) /\ c.amount <= c.before.balance[c.sender][c.asset]
TasksLeft ==
  /\ CallOK(call)
  /\ tasks \in Seq({TaskOf(call, i) : i \in 1..Messages(call)})
  /\ Len(tasks) <= Messages(call)
  /\ \A i \in 1..Len(tasks) : tasks[i] = TaskOf(call, Done + i)

(* Pairs own what they owe the protocol; what is left of a transaction is   *)
(* an end of what its first message sent.                                   *)
RouterTypeOK ==
  /\ listed \in SUBSET Pools
  /\ GoodState(State)
  /\ \A ops \in Range(swap_routes) : ops \in Seq(Assets \X Assets)
  /\ tasks # <<>> => TasksLeft

(* After k operations of a call c, with balances b: the router has the      *)
(* offer of the next, nothing else of what was offered, and the other       *)
(* assets as before.                                                        *)
OfferedBy(c, k) == {a \in Assets : \E i \in 1..k : a = c.ops[i][1]}
HoldsAfter(c, k, b) ==
  Linked(c) /\ c.to # Router =>
    \A a \in Assets :
      \/ k < Len(c.ops) /\ a = c.ops[k + 1][1]
      \/ b[Router][a] = IF a \in OfferedBy(c, k) THEN 0 ELSE c.before.balance[Router][a]
RouterHolds == tasks # <<>> => HoldsAfter(call, Done, balance)

(* After k operations of a call c, in a state s: they have returned what a  *)
(* simulation said, and the pairs of the others are as they were.           *)
Quoted(c, i) == Amounts(c.before, c.amount, c.ops)[i]
QuoteAfter(c, k, s) ==
  Quotable(c) =>
    /\ Quoted(c, k) \in Nat
    /\ k < Len(c.ops) => s.balance[Router][c.ops[k + 1][1]] = Quoted(c, k)
    /\ \A i \in (k + 1)..Len(c.ops), p \in Pools :
         ToSet(AssetsOf[p]) = ToSet(c.ops[i]) =>
           s.balance[p] = c.before.balance[p] /\ s.collected[p] = c.before.collected[p]
    /\ s.balance[c.to][Ask(c)] =
         Paid(c)[c.to][Ask(c)] + (IF k = Len(c.ops) THEN Quoted(c, k) ELSE 0)
QuoteKept == tasks # <<>> => QuoteAfter(call, Done, State)

(* What every step keeps: see QuoteAfter and HoldsAfter.                    *)
RouterInv == RouterTypeOK /\ RouterHolds /\ QuoteKept

-----------------------------------------------------------------------------
(* Messages *)

(* The messages of a call are its operations, and the check if there is a   *)
(* minimum.                                                                 *)
LEMMA CallLength ==
  ASSUME NEW c, CallOK(c)
  PROVE  /\ Len(c.ops) \in Nat \ {0} /\ Messages(c) \in Nat
         /\ Messages(c) = Len(c.ops) \/ Messages(c) = Len(c.ops) + 1
         /\ c.minimum = NoMinimum <=> Messages(c) = Len(c.ops)
         /\ \A i \in 1..Len(c.ops) : /\ c.ops[i] \in Assets \X Assets
                                     /\ c.ops[i][1] \in Assets /\ c.ops[i][2] \in Assets
         /\ Ask(c) \in Assets
<1>1. c.ops \in Seq(Assets \X Assets) /\ c.ops # <<>>
  BY DEF CallOK
<1>2. Len(c.ops) \in Nat \ {0}
  BY <1>1, EmptySeq
<1>3. \A i \in 1..Len(c.ops) : c.ops[i] \in Assets \X Assets
  BY <1>1, <1>2
<1>4. \A op \in Assets \X Assets : op[1] \in Assets /\ op[2] \in Assets
  OBVIOUS
<1>5. Len(c.ops) \in 1..Len(c.ops)
  BY <1>2
<1>6. Ask(c) \in Assets
  BY <1>3, <1>4, <1>5 DEF Ask
<1>7. /\ Messages(c) \in Nat
      /\ Messages(c) = Len(c.ops) \/ Messages(c) = Len(c.ops) + 1
      /\ c.minimum = NoMinimum <=> Messages(c) = Len(c.ops)
  <2>1. PICK n \in Nat : n = Len(c.ops)
    BY <1>2
  <2>2. CASE c.minimum = NoMinimum
    <3>1. Messages(c) = n + 0
      BY <2>1, <2>2 DEF Messages
    <3> QED
      BY <2>1, <2>2, <3>1
  <2>3. CASE c.minimum # NoMinimum
    <3>1. Messages(c) = n + 1
      BY <2>1, <2>3 DEF Messages
    <3> QED
      BY <2>1, <2>3, <3>1
  <2> QED
    BY <2>2, <2>3
<1> QED
  BY <1>2, <1>3, <1>4, <1>6, <1>7

(* The message at the head says how far the call is. *)
LEMMA NextMessage ==
  ASSUME TasksLeft, tasks # <<>>
  PROVE  /\ CallOK(call) /\ Done \in 0..Len(call.ops)
         /\ Head(tasks) = TaskOf(call, Done + 1)
         /\ Len(tasks) = Messages(call) - Done
         /\ Message("swap") <=> Done < Len(call.ops)
         /\ Message("assert") <=> Done = Len(call.ops)
         /\ Done < Len(call.ops) => /\ Head(tasks).op = call.ops[Done + 1]
                                    /\ Head(tasks).to = Receiver(Done + 1, Len(call.ops), call.to)
         /\ Done = Len(call.ops) =>
              /\ call.minimum # NoMinimum
              /\ Head(tasks).asset = Ask(call) /\ Head(tasks).receiver = call.to
              /\ Head(tasks).minimum = call.minimum
              /\ Head(tasks).prev_balance = PrevBalance(Paid(call), call.to, Ask(call))
<1> DEFINE n == Len(call.ops)
           m == Messages(call)
           t == Len(tasks)
<1>1. CallOK(call)
  BY DEF TasksLeft
<1>2. /\ n \in Nat \ {0} /\ m \in Nat /\ (m = n \/ m = n + 1)
      /\ call.minimum = NoMinimum <=> m = n
  BY <1>1, CallLength
<1>3. t \in Nat \ {0} /\ Head(tasks) = tasks[1] /\ t <= m
  BY Rest DEF TasksLeft
<1>4. Done = m - t
  BY DEF Done
<1> HIDE DEF n, m, t
<1>5. Done \in 0..n /\ t = m - Done /\ (Done < n \/ Done = n)
  <2>1. PICK i \in Nat, j \in Nat, k \in Nat : i = n /\ j = m /\ k = t
    BY <1>2, <1>3
  <2>2. (j = i \/ j = i + 1) /\ k # 0 /\ k <= j
    BY <1>2, <1>3, <2>1
  <2>3. Done = j - k
    BY <1>4, <2>1
  <2>4. j - k \in 0..i /\ k = j - (j - k) /\ (j - k < i \/ j - k = i)
    BY <2>2
  <2> QED
    BY <2>1, <2>3, <2>4
<1>6. Head(tasks) = TaskOf(call, Done + 1)
  <2>1. 1 \in 1..t
    BY <1>3
  <2> QED
    BY <1>3, <2>1 DEF TasksLeft, t
<1>7. CASE Done < n
  <2>1. Done + 1 <= Len(call.ops)
    BY <1>2, <1>5, <1>7 DEF n
  <2>2. Head(tasks) = [msg |-> "swap", op |-> call.ops[Done + 1],
                       to |-> Receiver(Done + 1, Len(call.ops), call.to)]
    BY <1>6, <2>1 DEF TaskOf
  <2>3. Done # n
    BY <1>2, <1>5, <1>7
  <2> QED
    BY <1>1, <1>5, <1>6, <1>7, <2>2, <2>3 DEF Message, n, m, t
<1>8. CASE Done = n
  <2>1. ~(Done + 1 <= Len(call.ops)) /\ ~(Done < n)
    BY <1>2, <1>8 DEF n
  <2>2. Head(tasks) = [msg |-> "assert", asset |-> Ask(call), receiver |-> call.to,
                       minimum |-> call.minimum,
                       prev_balance |-> PrevBalance(Paid(call), call.to, Ask(call))]
    BY <1>6, <2>1 DEF TaskOf
  <2>3. call.minimum # NoMinimum
    <3>1. m # n
      BY <1>2, <1>3, <1>4, <1>8
    <3> QED
      BY <1>2, <3>1
  <2> QED
    BY <1>1, <1>5, <1>6, <1>8, <2>1, <2>2, <2>3 DEF Message, n, m, t
<1> QED
  BY <1>5, <1>7, <1>8

(* A message that is done leaves the others. *)
LEMMA MessageDone ==
  ASSUME TasksLeft, tasks # <<>>, Continue
  PROVE  /\ tasks' = <<>> <=> Done + 1 = Messages(call)
         /\ tasks' # <<>> => call' = call /\ Done' = Done + 1 /\ TasksLeft'
<1> DEFINE S == {TaskOf(call, i) : i \in 1..Messages(call)}
<1>1. /\ CallOK(call) /\ tasks \in Seq(S) /\ Len(tasks) <= Messages(call)
      /\ \A i \in 1..Len(tasks) : tasks[i] = TaskOf(call, Done + i)
  BY DEF TasksLeft
<1>2. tasks' = Tail(tasks) /\ (tasks' # <<>> => call' = call)
  BY DEF Continue
<1>3. /\ Len(tasks) \in Nat \ {0} /\ tasks' \in Seq(S) /\ Len(tasks') = Len(tasks) - 1
      /\ \A i \in 1..(Len(tasks) - 1) : tasks'[i] = tasks[i + 1]
      /\ tasks' = <<>> <=> Len(tasks) = 1
  <2> HIDE DEF S
  <2> QED
    BY <1>1, <1>2, Rest
<1>4. Messages(call) \in Nat /\ Done = Messages(call) - Len(tasks)
  BY <1>1, CallLength DEF Done
<1>5. Len(tasks) = 1 <=> Done + 1 = Messages(call)
  BY <1>3, <1>4
<1>6. ASSUME tasks' # <<>>
      PROVE  call' = call /\ Done' = Done + 1 /\ TasksLeft'
  <2>1. call' = call
    BY <1>2, <1>6
  <2>2. Messages(call)' = Messages(call) /\ CallOK(call)'
    BY <2>1, <1>1
  <2>3. Done' = Messages(call) - Len(tasks')
    BY <2>1 DEF Done
  <2>4. Done' = Done + 1 /\ Done \in Int
    BY <1>3, <1>4, <2>3
  <2>5. ASSUME NEW i \in 1..Len(tasks')
        PROVE  tasks'[i] = TaskOf(call, Done' + i)
    <3>1. i \in 1..(Len(tasks) - 1) /\ i + 1 \in 1..Len(tasks)
      BY <1>3
    <3>2. tasks'[i] = TaskOf(call, Done + (i + 1))
      BY <1>1, <1>3, <3>1
    <3>3. Done + (i + 1) = Done' + i
      BY <2>4, <3>1
    <3> QED
      BY <3>2, <3>3
  <2>6. Len(tasks') <= Messages(call)
    BY <1>1, <1>3, <1>4
  <2>7. TasksLeft'
    BY <2>1, <2>2, <2>5, <2>6, <1>3 DEF TasksLeft
  <2> QED
    BY <2>1, <2>4, <2>7
<1> QED
  BY <1>3, <1>5, <1>6

(* The amounts of a simulation follow from each other. *)
LEMMA AmountsFollow ==
  ASSUME listed \in SUBSET Pools, NEW s, GoodState(s), NEW offer \in Nat,
         NEW ops \in Seq(Assets \X Assets)
  PROVE  LET amount == Amounts(s, offer, ops) IN
         /\ amount[0] = offer
         /\ \A i \in 1..Len(ops) : amount[i] = Returned(s, ops[i], amount[i - 1])
<1> DEFINE n == Len(ops)
           A == Nat \cup {Undefined}
           F == [x \in (1..n) \X A |-> Returned(s, ops[x[1]], x[2])]
           amount == Amounts(s, offer, ops)
<1>1. n \in Nat
  OBVIOUS
<1>2. offer \in A
  OBVIOUS
<1>3. ASSUME NEW i \in 1..n, NEW x \in A
      PROVE  Returned(s, ops[i], x) \in A
  <2>1. ops[i] \in Assets \X Assets
    OBVIOUS
  <2>2. CASE x # Undefined /\ Simulation(s, ops[i], x) # Undefined
    BY <2>1, <2>2, SimulationPays DEF Returned
  <2>3. CASE ~(x # Undefined /\ Simulation(s, ops[i], x) # Undefined)
    BY <2>3 DEF Returned
  <2> QED
    BY <2>2, <2>3
<1> HIDE DEF A, n
<1>4. F \in [(1..n) \X A -> A]
  BY <1>3
<1>5. PICK g \in [0..n -> A] : Follows(g, n, offer, F)
  <2> HIDE DEF F
  <2> QED
    BY <1>1, <1>2, <1>4, Recursion
<1>6. \A i \in 0..n : i # 0 => i \in 1..n /\ i - 1 \in 0..n
  BY <1>1
<1>7. ASSUME NEW i \in 1..n
      PROVE  g[i] = Returned(s, ops[i], g[i - 1])
  <2>1. g[i - 1] \in A
    <3>1. i \in 0..n /\ i # 0
      BY <1>1
    <3> QED
      BY <1>6, <3>1
  <2>2. g[i] = F[<<i, g[i - 1]>>]
    BY <1>5 DEF Follows
  <2> QED
    BY <2>1, <2>2
<1>8. g[0] = offer
  BY <1>5 DEF Follows
<1>9. g = [i \in 0..n |-> IF i = 0 THEN offer ELSE Returned(s, ops[i], g[i - 1])]
  BY <1>6, <1>7, <1>8
<1>10. amount = [i \in 0..n |-> IF i = 0 THEN offer ELSE Returned(s, ops[i], amount[i - 1])]
  BY <1>9 DEF Amounts, n
<1> HIDE DEF amount
<1>11. \A i \in 1..n : i \in 0..n /\ i # 0
  BY <1>1
<1>12. 0 \in 0..n
  BY <1>1
<1> QED
  BY <1>10, <1>11, <1>12 DEF amount, n

(* One more operation offers one more asset.                                *)
LEMMA OfferedNext ==
  ASSUME NEW c, CallOK(c), NEW k \in Nat, k < Len(c.ops)
  PROVE  /\ c.ops[k + 1][1] \in OfferedBy(c, k + 1)
         /\ \A a \in Assets : a # c.ops[k + 1][1] =>
              (a \in OfferedBy(c, k + 1) <=> a \in OfferedBy(c, k))
<1>1. Len(c.ops) \in Nat /\ k + 1 \in 1..Len(c.ops) /\ k + 1 \in 1..(k + 1)
  BY CallLength
<1>2. c.ops[k + 1][1] \in Assets
  BY <1>1, CallLength
<1>3. \A i \in 1..(k + 1) : i = k + 1 \/ i \in 1..k
  OBVIOUS
<1>4. \A i \in 1..k : i \in 1..(k + 1)
  OBVIOUS
<1> QED
  BY <1>1, <1>2, <1>3, <1>4 DEF OfferedBy

(* What one more operation of a call does. *)
LEMMA OperationDone ==
  ASSUME RouterInv, ExecuteSwapOperation
  PROVE  /\ tasks # <<>> /\ CallOK(call) /\ Done \in 0..(Len(call.ops) - 1)
         /\ GoodState(State)'
         /\ HoldsAfter(call, Done + 1, balance')
         /\ QuoteAfter(call, Done + 1, [balance |-> balance', collected |-> collected'])
<1>1. tasks # <<>> /\ Message("swap")
  BY DEF ExecuteSwapOperation, Message
<1>2. TasksLeft /\ listed \in SUBSET Pools /\ GoodState(State)
  BY <1>1 DEF RouterInv, RouterTypeOK
<1>3. /\ HoldsAfter(call, Done, balance) /\ QuoteAfter(call, Done, State)
  BY <1>1 DEF RouterInv, RouterHolds, QuoteKept
<1>4. /\ CallOK(call) /\ Done \in 0..Len(call.ops) /\ Done < Len(call.ops)
      /\ Head(tasks).op = call.ops[Done + 1]
      /\ Head(tasks).to = Receiver(Done + 1, Len(call.ops), call.to)
  BY <1>1, <1>2, NextMessage
<1>5. PICK n \in Nat \ {0}, k \in Nat : n = Len(call.ops) /\ k = Done /\ k < n
  BY <1>4, CallLength
<1> DEFINE op == call.ops[k + 1]
           to == Receiver(k + 1, n, call.to)
           p == ThePair(op)
           return == SwapOf(op, OfferOf(op)).return
           after == [balance |-> balance', collected |-> collected']
<1>6. /\ k + 1 \in 1..n /\ k + 1 \in Nat
      /\ \A i \in 1..n : /\ call.ops[i] \in Assets \X Assets
                         /\ call.ops[i][1] \in Assets /\ call.ops[i][2] \in Assets
  BY <1>4, <1>5, CallLength
<1>7. op \in Assets \X Assets /\ op[1] \in Assets /\ op[2] \in Assets
  BY <1>6
<1>8. /\ to \in Users \cup {Router}
      /\ (k + 1 = n => to = call.to) /\ (k + 1 # n => to = Router)
      /\ call.to \in Users \cup {Router}
  BY <1>4 DEF Receiver, CallOK
<1>9. Head(tasks).op = op /\ Head(tasks).to = to /\ CanSwap(op)
  BY <1>4, <1>5 DEF ExecuteSwapOperation
<1> HIDE DEF op, to
<1>10. /\ GoodState(after)
       /\ OfferOf(op) \in Nat /\ return \in Nat
       /\ balance'[Router][op[1]] = 0
       /\ balance'[to][op[2]] = balance[to][op[2]] + return
       /\ \A a \in Assets : a # op[1] /\ a # op[2] => balance'[Router][a] = balance[Router][a]
       /\ to # Router => balance'[Router][op[2]] = balance[Router][op[2]]
       /\ \A h \in Holders : h # Router /\ h # p /\ h # to => balance'[h] = balance[h]
       /\ \A q \in Pools : q # p => collected'[q] = collected[q]
  BY <1>2, <1>7, <1>8, <1>9, SwapMoves
<1>11. PairOf(op) # {}
  BY <1>9 DEF CanSwap, SwapOf, Simulation
<1>12. /\ p \in Pools /\ ToSet(AssetsOf[p]) = {op[1], op[2]} /\ op[1] # op[2]
  BY <1>2, <1>7, <1>11, PairAnswers
<1> HIDE DEF p, return
<1>13. ASSUME Linked(call), k + 1 < n
       PROVE  call.ops[(k + 1) + 1][1] = op[2]
  <2>1. k + 1 \in 1..(Len(call.ops) - 1)
    BY <1>5, <1>13
  <2> QED
    BY <1>13, <2>1 DEF Linked, op
<1>14. ASSUME Linked(call), call.to # Router, NEW a \in Assets
       PROVE  \/ k + 1 < n /\ a = call.ops[(k + 1) + 1][1]
              \/ balance'[Router][a] = IF a \in OfferedBy(call, k + 1) THEN 0
                                       ELSE call.before.balance[Router][a]
  <2>1. op[1] \in OfferedBy(call, k + 1)
    BY <1>4, <1>5, OfferedNext DEF op
  <2>2. a # op[1] => (a \in OfferedBy(call, k + 1) <=> a \in OfferedBy(call, k))
    BY <1>4, <1>5, <1>14, OfferedNext DEF op
  <2>3. a # op[1] => balance[Router][a] = IF a \in OfferedBy(call, k) THEN 0
                                          ELSE call.before.balance[Router][a]
    BY <1>3, <1>5, <1>14 DEF HoldsAfter, op
  <2>4. CASE a = op[1]
    BY <2>1, <2>4, <1>10
  <2>5. CASE a # op[1] /\ a # op[2]
    BY <2>2, <2>3, <2>5, <1>10
  <2>6. CASE a = op[2] /\ k + 1 < n
    BY <2>6, <1>13, <1>14
  <2>7. CASE a = op[2] /\ a # op[1] /\ k + 1 = n
    BY <2>2, <2>3, <2>7, <1>8, <1>10, <1>14
  <2>8. k + 1 < n \/ k + 1 = n
    BY <1>5
  <2> QED
    BY <1>12, <2>4, <2>5, <2>6, <2>7, <2>8
<1>15. HoldsAfter(call, k + 1, balance')
  BY <1>5, <1>14 DEF HoldsAfter
<1>16. ASSUME Quotable(call)
       PROVE  /\ Quoted(call, k + 1) \in Nat
              /\ k + 1 < n => balance'[Router][call.ops[(k + 1) + 1][1]] = Quoted(call, k + 1)
              /\ \A i \in ((k + 1) + 1)..n, q \in Pools :
                   ToSet(AssetsOf[q]) = ToSet(call.ops[i]) =>
                     /\ balance'[q] = call.before.balance[q]
                     /\ collected'[q] = call.before.collected[q]
              /\ balance'[call.to][Ask(call)] =
                   Paid(call)[call.to][Ask(call)]
                     + (IF k + 1 = n THEN Quoted(call, k + 1) ELSE 0)
  <2>1. /\ Linked(call) /\ call.to # Router
        /\ \A a \in Assets : call.before.balance[Router][a] = 0
    BY <1>16 DEF Quotable
  <2>2. /\ Quoted(call, k) \in Nat
        /\ balance[Router][op[1]] = Quoted(call, k)
        /\ \A i \in (k + 1)..n, q \in Pools :
             ToSet(AssetsOf[q]) = ToSet(call.ops[i]) =>
               balance[q] = call.before.balance[q] /\ collected[q] = call.before.collected[q]
        /\ balance[call.to][Ask(call)] = Paid(call)[call.to][Ask(call)] + 0
    <3>1. k # n
      BY <1>5
    <3> QED
      BY <1>3, <1>5, <1>16, <3>1 DEF QuoteAfter, State, op
  <2>3. \A a \in Assets : a # op[1] => balance[Router][a] = 0
    BY <1>3, <1>5, <2>1 DEF HoldsAfter, op
  <2>4. ToSet(op) = {op[1], op[2]}
    BY <1>7, PairSet
  <2>5. balance[p] = call.before.balance[p] /\ collected[p] = call.before.collected[p]
    <3>1. k + 1 \in (k + 1)..n /\ p \in Pools
      BY <1>5, <1>12
    <3>2. ToSet(AssetsOf[p]) = ToSet(call.ops[k + 1])
      BY <1>12, <2>4 DEF op
    <3> QED
      BY <2>2, <3>1, <3>2
  <2>6. Simulation(State, op, Quoted(call, k)) = Simulation(call.before, op, Quoted(call, k))
    BY <2>5 DEF Simulation, Available, State, p
  <2>7. OfferOf(op) = Quoted(call, k)
    BY <2>2 DEF OfferOf
  <2>8. /\ Simulation(call.before, op, Quoted(call, k)) # Undefined
        /\ Simulation(call.before, op, Quoted(call, k)).return = return
    BY <1>9, <2>6, <2>7 DEF CanSwap, SwapOf, return
  <2>9. Quoted(call, k + 1) = Returned(call.before, op, Quoted(call, k))
    <3>1. /\ GoodState(call.before) /\ call.amount \in Nat /\ call.ops \in Seq(Assets \X Assets)
      BY <1>4 DEF CallOK
    <3>2. \A i \in 1..n : Quoted(call, i) = Returned(call.before, call.ops[i], Quoted(call, i - 1))
      BY <1>2, <1>5, <3>1, AmountsFollow DEF Quoted
    <3>3. (k + 1) - 1 = k
      OBVIOUS
    <3> QED
      BY <1>6, <3>2, <3>3 DEF op
  <2>10. Quoted(call, k) # Undefined
    BY <2>2, CurveAssumption
  <2>11. Quoted(call, k + 1) = return
    BY <2>8, <2>9, <2>10 DEF Returned
  <2>12. ASSUME k + 1 < n
         PROVE  balance'[Router][call.ops[(k + 1) + 1][1]] = Quoted(call, k + 1)
    <3>1. to = Router
      BY <1>8, <2>12
    <3>2. balance[Router][op[2]] = 0
      BY <1>7, <1>12, <2>3
    <3>3. balance'[Router][op[2]] = return
      BY <1>10, <3>1, <3>2
    <3> QED
      BY <1>13, <2>1, <2>11, <2>12, <3>3
  <2>13. ASSUME NEW i \in ((k + 1) + 1)..n, NEW q \in Pools,
                ToSet(AssetsOf[q]) = ToSet(call.ops[i])
         PROVE  /\ balance'[q] = call.before.balance[q]
                /\ collected'[q] = call.before.collected[q]
    <3>1. i \in (k + 1)..n /\ i \in 1..n /\ i # k + 1
      BY <1>5
    <3>2. ToSet(call.ops[i]) # ToSet(op)
      <4>1. IsInjective([j \in DOMAIN call.ops |-> ToSet(call.ops[j])])
        BY <1>16 DEF Quotable
      <4>2. DOMAIN call.ops = 1..n
        BY <1>4, <1>5 DEF CallOK
      <4> QED
        BY <1>6, <3>1, <4>1, <4>2 DEF IsInjective, op
    <3>3. q # p
      BY <1>12, <2>4, <2>13, <3>2
    <3>4. q \in Holders /\ q # Router /\ q # to
      BY <1>8, Parties
    <3>5. balance'[q] = balance[q] /\ collected'[q] = collected[q]
      BY <1>10, <3>3, <3>4
    <3> QED
      BY <2>2, <2>13, <3>1, <3>5
  <2>14. balance'[call.to][Ask(call)] =
           Paid(call)[call.to][Ask(call)] + (IF k + 1 = n THEN Quoted(call, k + 1) ELSE 0)
    <3>1. CASE k + 1 = n
      <4>1. to = call.to /\ Ask(call) = op[2]
        BY <1>5, <1>8, <3>1 DEF Ask, op
      <4>2. balance'[call.to][Ask(call)] = balance[call.to][Ask(call)] + return
        BY <1>10, <4>1
      <4>3. call.to \in Holders /\ Ask(call) \in Assets
        BY <1>7, <1>8, <4>1, Parties
      <4>4. balance[call.to][Ask(call)] \in Nat
        BY <1>2, <4>3 DEF GoodState, State
      <4>5. GoodState(call.before) /\ call.sender \in Users /\ call.asset \in Assets /\ call.amount \in Nat
            /\ call.amount <= call.before.balance[call.sender][call.asset]
        BY <1>4 DEF CallOK
      <4>6. Paid(call) \in [Holders -> [Assets -> Nat]]
        <5>1. call.sender \in Holders /\ Router \in Holders /\ call.sender # Router
          BY <4>5, Parties
        <5>2. call.before.balance \in [Holders -> [Assets -> Nat]]
          BY <4>5 DEF GoodState
        <5> QED
          BY <4>5, <5>1, <5>2, MovedBalances DEF Paid
      <4>7. Paid(call)[call.to][Ask(call)] \in Nat
        BY <4>3, <4>6
      <4>8. balance[call.to][Ask(call)] = Paid(call)[call.to][Ask(call)]
        BY <2>2, <4>7
      <4> QED
        BY <2>11, <3>1, <4>2, <4>8
    <3>2. CASE k + 1 # n
      <4>1. to = Router /\ call.to \in Holders /\ call.to # Router /\ call.to # p
        BY <1>8, <1>12, <2>1, <3>2, Parties
      <4>2. balance'[call.to] = balance[call.to]
        BY <1>10, <4>1
      <4> QED
        BY <2>2, <3>2, <4>2
    <3> QED
      BY <3>1, <3>2
  <2> QED
    BY <1>10, <2>11, <2>12, <2>13, <2>14
<1>17. QuoteAfter(call, k + 1, after)
  BY <1>5, <1>16 DEF QuoteAfter
<1>18. GoodState(State)'
  BY <1>10 DEF GoodState, State
<1> QED
  BY <1>1, <1>4, <1>5, <1>15, <1>17, <1>18

(* Before the first call there is nothing to keep.                          *)
LEMMA RouterInit == Init => RouterInv
<1> SUFFICES ASSUME Init PROVE RouterInv
  OBVIOUS
<1>1. tasks = <<>> /\ listed = Pools /\ swap_routes = <<>>
  BY DEF Init
<1>2. GoodState(State)
  <2>1. ASSUME NEW h \in Holders
        PROVE  balance[h] \in [Assets -> Nat]
    <3>1. Reserves \in [Pools -> [Assets -> Nat]] /\ Funds \in [Users -> [Assets -> Nat]]
      BY RouterAssumption
    <3>2. balance[h] = IF h \in Pools THEN Reserves[h] ELSE IF h \in Users THEN Funds[h]
                       ELSE [a \in Assets |-> 0]
      BY DEF Init
    <3> QED
      BY <3>1, <3>2
  <2>2. balance \in [Holders -> [Assets -> Nat]]
    BY <2>1 DEF Init
  <2>3. collected = [p \in Pools |-> [a \in Assets |-> 0]]
    BY DEF Init
  <2>4. ASSUME NEW p \in Pools, NEW a \in Assets
        PROVE  collected[p][a] <= balance[p][a]
    <3>1. balance[p][a] \in Nat
      BY <2>1, Parties
    <3> QED
      BY <2>3, <3>1
  <2> QED
    BY <2>2, <2>3, <2>4 DEF GoodState, State
<1>3. \A ops \in Range(swap_routes) : ops \in Seq(Assets \X Assets)
  <2>1. DOMAIN swap_routes = {}
    BY <1>1
  <2> QED
    BY <2>1 DEF Range
<1> QED
  BY <1>1, <1>2, <1>3 DEF RouterInv, RouterTypeOK, RouterHolds, QuoteKept

(* The first message of a transaction. *)
LEMMA CallKeepsInv ==
  ASSUME RouterInv, NEW u \in Users, NEW to \in Users \cup {Router}, NEW a \in Assets,
         NEW amount \in Offers, NEW minimum \in Minimums \cup {NoMinimum},
         NEW ops \in Operations \cup Range(swap_routes),
         ExecuteSwapOperations(u, to, ops, a, amount, minimum)
  PROVE  RouterInv'
<1>1. /\ listed \in SUBSET Pools /\ GoodState(State)
      /\ \A r \in Range(swap_routes) : r \in Seq(Assets \X Assets)
  BY DEF RouterInv, RouterTypeOK
<1>2. ops \in Seq(Assets \X Assets) /\ ops # <<>>
  BY <1>1, RouterAssumption DEF ExecuteSwapOperations, AssertOperations
<1>3. amount \in Nat /\ amount <= balance[u][a] /\ minimum \in Nat \cup {NoMinimum}
  <2>1. amount <= balance[u][a]
    BY DEF ExecuteSwapOperations
  <2>2. amount \in Nat /\ minimum \in Nat \cup {NoMinimum}
    BY RouterAssumption
  <2> QED
    BY <2>1, <2>2
<1> DEFINE n == Len(ops)
           paid == Moved(balance, u, Router, a, amount)
           swaps == [i \in 1..n |-> [msg |-> "swap", op |-> ops[i], to |-> Receiver(i, n, to)]]
           check == [msg |-> "assert", asset |-> ops[n][2], receiver |-> to,
                     minimum |-> minimum, prev_balance |-> PrevBalance(paid, to, ops[n][2])]
           c == [sender |-> u, to |-> to, ops |-> ops, minimum |-> minimum,
                 asset |-> a, amount |-> amount, before |-> State]
<1>4. /\ balance' = paid
      /\ tasks' = IF minimum = NoMinimum THEN swaps ELSE Append(swaps, check)
      /\ call' = c
      /\ listed' = listed /\ collected' = collected /\ swap_routes' = swap_routes
  BY DEF ExecuteSwapOperations
<1>5. balance \in [Holders -> [Assets -> Nat]] /\ collected \in [Pools -> [Assets -> Nat]]
  BY <1>1 DEF GoodState, State
<1>6. u \in Holders /\ Router \in Holders /\ u # Router
  BY Parties
<1>7. /\ paid \in [Holders -> [Assets -> Nat]]
      /\ \A h \in Holders, x \in Assets : x # a => paid[h][x] = balance[h][x]
      /\ \A h \in Holders : h # u /\ h # Router => paid[h] = balance[h]
      /\ paid[Router][a] = balance[Router][a] + amount
  BY <1>3, <1>5, <1>6, MovedBalances
<1>8. /\ c.sender = u /\ c.to = to /\ c.ops = ops /\ c.minimum = minimum /\ c.asset = a
      /\ c.amount = amount /\ c.before = State
      /\ c.before.balance = balance /\ c.before.collected = collected
  BY DEF State
<1> HIDE DEF paid, c, swaps, check
<1>9. CallOK(c)
  <2>1. GoodState(c.before)
    BY <1>1, <1>8
  <2> QED
    BY <1>2, <1>3, <1>8, <2>1 DEF CallOK
<1>10. /\ n \in Nat \ {0} /\ Messages(c) \in Nat
       /\ minimum = NoMinimum => Messages(c) = n
       /\ minimum # NoMinimum => Messages(c) = n + 1
       /\ \A i \in 1..n : ops[i] \in Assets \X Assets /\ ops[i][1] \in Assets
       /\ Ask(c) = ops[n][2] /\ Ask(c) \in Assets
  <2>1. Ask(c) = ops[n][2]
    BY <1>8 DEF Ask
  <2> QED
    BY <1>8, <1>9, <2>1, CallLength
<1>11. Paid(c) = paid
  BY <1>8 DEF Paid, paid
<1> HIDE DEF n
<1>12. /\ \A i \in 1..n : swaps[i] = TaskOf(c, i)
       /\ check = TaskOf(c, n + 1)
  <2>1. \A i \in 1..n : i <= Len(c.ops)
    BY <1>8, <1>10 DEF n
  <2>2. ~(n + 1 <= Len(c.ops))
    BY <1>8, <1>10 DEF n
  <2>3. \A i \in 1..n : swaps[i] = TaskOf(c, i)
    BY <1>8, <2>1 DEF swaps, TaskOf, n
  <2>4. check = TaskOf(c, n + 1)
    BY <1>8, <1>10, <1>11, <2>2 DEF check, TaskOf
  <2> QED
    BY <2>3, <2>4
<1>13. /\ tasks' \in Seq({TaskOf(c, i) : i \in 1..Messages(c)})
       /\ Len(tasks') = Messages(c)
       /\ \A i \in 1..Messages(c) : tasks'[i] = TaskOf(c, i)
  <2> DEFINE S == {TaskOf(c, i) : i \in 1..Messages(c)}
  <2>1. \A i \in 1..n : i \in 1..Messages(c)
    BY <1>10
  <2>2. \A i \in 1..n : swaps[i] \in S
    BY <1>12, <2>1
  <2>3. DOMAIN swaps = 1..n /\ swaps = [i \in 1..n |-> swaps[i]]
    BY DEF swaps
  <2>4. swaps \in Seq(S) /\ Len(swaps) = n
    <3> HIDE DEF S
    <3>1. swaps \in [1..n -> S]
      BY <2>2, <2>3
    <3> QED
      BY <1>10, <3>1
  <2>5. CASE minimum = NoMinimum
    BY <1>4, <1>10, <1>12, <2>4, <2>5
  <2>6. CASE minimum # NoMinimum
    <3>1. tasks' = Append(swaps, check) /\ Messages(c) = n + 1
      BY <1>4, <1>10, <2>6
    <3>2. n + 1 \in 1..Messages(c)
      BY <1>10, <3>1
    <3>3. check \in S
      BY <1>12, <3>2
    <3> HIDE DEF S
    <3>4. /\ tasks' \in Seq(S) /\ Len(tasks') = n + 1
          /\ \A i \in 1..n : tasks'[i] = swaps[i]
          /\ tasks'[n + 1] = check
      BY <1>10, <2>4, <3>1, <3>3
    <3>5. \A i \in 1..(n + 1) : i \in 1..n \/ i = n + 1
      BY <1>10
    <3> QED
      BY <1>12, <3>1, <3>4, <3>5 DEF S
  <2> QED
    BY <2>5, <2>6
<1>14. Messages(call)' = Messages(c) /\ CallOK(call)' /\ call' = c
  BY <1>4, <1>9
<1>15. Done' = 0
  BY <1>10, <1>13, <1>14 DEF Done
<1>16. TasksLeft'
  <2>1. Len(tasks') <= Messages(c)
    BY <1>10, <1>13
  <2>2. \A i \in 1..Len(tasks') : tasks'[i] = TaskOf(c, Done' + i)
    BY <1>10, <1>13, <1>15
  <2> QED
    BY <1>13, <1>14, <2>1, <2>2 DEF TasksLeft
<1>17. GoodState(State)'
  <2>1. ASSUME NEW p \in Pools, NEW x \in Assets
        PROVE  collected[p][x] <= paid[p][x]
    <3>1. p \in Holders /\ p # u /\ p # Router
      BY Parties
    <3>2. collected[p][x] <= balance[p][x]
      BY <1>1 DEF GoodState, State
    <3> QED
      BY <1>7, <3>1, <3>2
  <2> QED
    BY <1>4, <1>5, <1>7, <2>1 DEF GoodState, State
<1>18. RouterTypeOK'
  BY <1>1, <1>4, <1>16, <1>17 DEF RouterTypeOK
<1>19. HoldsAfter(c, 0, paid)
  <2>1. ASSUME Linked(c), NEW x \in Assets
        PROVE  \/ 0 < n /\ x = ops[0 + 1][1]
               \/ paid[Router][x] = IF x \in OfferedBy(c, 0) THEN 0 ELSE balance[Router][x]
    <3>1. x \notin OfferedBy(c, 0)
      BY DEF OfferedBy
    <3>2. ops[1][1] = a
      BY <1>8, <2>1 DEF Linked
    <3> QED
      BY <1>6, <1>7, <1>10, <3>1, <3>2
  <2> QED
    BY <1>8, <2>1 DEF HoldsAfter, n
<1>20. ASSUME Quotable(c)
       PROVE  /\ Quoted(c, 0) \in Nat
              /\ paid[Router][ops[0 + 1][1]] = Quoted(c, 0)
              /\ \A p \in Pools : paid[p] = balance[p]
              /\ 0 # n /\ paid[to][Ask(c)] = Paid(c)[to][Ask(c)] + 0
  <2>1. Linked(c) /\ c.to # Router /\ balance[Router][a] = 0
    BY <1>8, <1>20 DEF Quotable
  <2>2. Quoted(c, 0) = amount
    BY <1>1, <1>2, <1>3, <1>8, AmountsFollow DEF Quoted
  <2>3. ops[1][1] = a
    BY <1>8, <2>1 DEF Linked
  <2>4. paid[Router][a] = amount
    BY <1>3, <1>7, <2>1
  <2>5. paid[to][Ask(c)] \in Nat
    BY <1>7, <1>10, Parties
  <2>6. \A p \in Pools : paid[p] = balance[p]
    BY <1>7, Parties
  <2> QED
    BY <1>3, <1>10, <1>11, <2>2, <2>3, <2>4, <2>5, <2>6
<1>21. QuoteAfter(c, 0, [balance |-> paid, collected |-> collected])
  BY <1>8, <1>20 DEF QuoteAfter, n
<1>22. RouterHolds'
  BY <1>4, <1>14, <1>15, <1>19 DEF RouterHolds
<1>23. QuoteKept'
  <2>1. PICK d, st : d = c /\ st = [balance |-> paid, collected |-> collected]
    OBVIOUS
  <2>2. State' = st /\ call' = d /\ Done' = 0
    BY <1>4, <1>14, <1>15, <2>1 DEF State
  <2>3. QuoteAfter(d, 0, st)
    BY <1>21, <2>1
  <2>4. Quoted(call, Done)' = Quoted(d, 0)
    BY <1>4, <2>2 DEF Quoted, Amounts, Returned, Simulation, ThePair, PairOf
  <2>5. QuoteAfter(call, Done, State)'
    BY <2>2, <2>3, <2>4 DEF QuoteAfter
  <2> QED
    BY <2>5 DEF QuoteKept
<1> QED
  BY <1>18, <1>22, <1>23 DEF RouterInv

(* Between transactions only the first part of the invariant says anything. *)
LEMMA RestKeepsInv ==
  ASSUME tasks' = <<>>, listed' \in SUBSET Pools, GoodState(State)',
         \A ops \in Range(swap_routes') : ops \in Seq(Assets \X Assets)
  PROVE  RouterInv'
BY DEF RouterInv, RouterTypeOK, RouterHolds, QuoteKept

(* A swap keeps the invariant, whether or not it is the last of its call.   *)
LEMMA SwapKeepsInv ==
  ASSUME RouterInv, ExecuteSwapOperation
  PROVE  RouterInv'
<1>1. /\ tasks # <<>> /\ CallOK(call) /\ Done \in 0..(Len(call.ops) - 1)
      /\ GoodState(State)'
      /\ HoldsAfter(call, Done + 1, balance')
      /\ QuoteAfter(call, Done + 1, [balance |-> balance', collected |-> collected'])
  BY OperationDone
<1>2. /\ TasksLeft /\ listed \in SUBSET Pools
      /\ \A ops \in Range(swap_routes) : ops \in Seq(Assets \X Assets)
  BY <1>1 DEF RouterInv, RouterTypeOK
<1>3. Continue /\ listed' = listed /\ swap_routes' = swap_routes
  BY DEF ExecuteSwapOperation
<1>4. CASE tasks' = <<>>
  BY <1>1, <1>2, <1>3, <1>4, RestKeepsInv
<1>5. CASE tasks' # <<>>
  <2>1. call' = call /\ Done' = Done + 1 /\ TasksLeft'
    BY <1>1, <1>2, <1>3, <1>5, MessageDone
  <2>2. RouterTypeOK'
    BY <1>1, <1>2, <1>3, <2>1 DEF RouterTypeOK
  <2>3. PICK c, k, b, s : /\ c = call /\ k = Done + 1 /\ b = balance'
                          /\ s = [balance |-> balance', collected |-> collected']
    OBVIOUS
  <2>4. /\ call' = c /\ Done' = k /\ State' = s /\ balance' = b
        /\ HoldsAfter(c, k, b) /\ QuoteAfter(c, k, s)
    BY <1>1, <2>1, <2>3 DEF State
  <2>5. RouterHolds'
    BY <2>4 DEF RouterHolds
  <2>6. Quoted(call, Done)' = Quoted(c, k)
    BY <1>3, <2>4 DEF Quoted, Amounts, Returned, Simulation, ThePair, PairOf
  <2>7. QuoteAfter(call, Done, State)'
    BY <2>4, <2>6 DEF QuoteAfter
  <2> QED
    BY <2>2, <2>5, <2>7 DEF RouterInv, QuoteKept
<1> QED
  BY <1>4, <1>5

(* Every step keeps the invariant.                                          *)
LEMMA RouterStep == RouterInv /\ [Next]_vars => RouterInv'
<1> SUFFICES ASSUME RouterInv, [Next]_vars
             PROVE  RouterInv'
  OBVIOUS
<1> USE DEF RouterInv, RouterTypeOK
<1>1. ASSUME NEW u \in Users, NEW to \in Users \cup {Router}, NEW a \in Assets,
             NEW amount \in Offers, NEW minimum \in Minimums \cup {NoMinimum},
             NEW ops \in Operations \cup Range(swap_routes),
             ExecuteSwapOperations(u, to, ops, a, amount, minimum)
      PROVE  RouterInv'
  BY ONLY RouterInv, <1>1, CallKeepsInv
<1>2. ASSUME NEW sender \in Users \cup {RouterAdmin}, NEW route \in RouteOptions,
             AddSwapRoute(sender, route)
      PROVE  RouterInv'
  <2>1. /\ tasks' = <<>> /\ listed' = listed /\ GoodState(State)'
    <3>1. tasks' = <<>> /\ UNCHANGED <<listed, balance, collected>>
      BY <1>2 DEF AddSwapRoute, Called
    <3>2. State' = State
      BY <3>1 DEF State
    <3> QED
      BY <3>1, <3>2 DEF GoodState
  <2>2. route.ops \in Seq(Assets \X Assets)
    BY RouterAssumption
  <2>3. ASSUME NEW ops \in Range(swap_routes')
        PROVE  ops = route.ops \/ ops \in Range(swap_routes)
    <3>1. PICK key : swap_routes' = [k \in DOMAIN swap_routes \cup {key} |->
                                      IF k = key THEN route.ops ELSE swap_routes[k]]
      BY <1>2 DEF AddSwapRoute
    <3>2. PICK k \in DOMAIN swap_routes' : ops = swap_routes'[k]
      BY DEF Range
    <3> QED
      BY <3>1, <3>2 DEF Range
  <2>4. \A ops \in Range(swap_routes') : ops \in Seq(Assets \X Assets)
    BY <2>2, <2>3
  <2> QED
    BY <2>1, <2>4, RestKeepsInv
<1>3. ASSUME NEW p \in Pools, PairRemoved(p)
      PROVE  RouterInv'
  <2>1. tasks' = <<>> /\ listed' \in SUBSET Pools /\ GoodState(State)' /\ swap_routes' = swap_routes
    BY <1>3 DEF PairRemoved, Called, GoodState, State
  <2> QED
    BY <2>1, RestKeepsInv
<1>4. ASSUME NEW u \in Users, NEW a \in Assets, NEW amount \in Offers, Transfer(u, a, amount)
      PROVE  RouterInv'
  <2>1. /\ tasks' = <<>> /\ listed' = listed /\ swap_routes' = swap_routes
        /\ collected' = collected /\ amount <= balance[u][a] /\ amount \in Nat
        /\ balance' = Moved(balance, u, Router, a, amount)
    <3>1. amount \in Nat
      BY RouterAssumption
    <3> QED
      BY <1>4, <3>1 DEF Transfer, Called
  <2>2. /\ balance \in [Holders -> [Assets -> Nat]] /\ collected \in [Pools -> [Assets -> Nat]]
        /\ \A p \in Pools, x \in Assets : collected[p][x] <= balance[p][x]
    BY DEF GoodState, State
  <2>3. u \in Holders /\ Router \in Holders /\ u # Router
    BY Parties
  <2>4. /\ balance' \in [Holders -> [Assets -> Nat]]
        /\ \A h \in Holders : h # u /\ h # Router => balance'[h] = balance[h]
    <3>1. balance \in [Holders -> [Assets -> Nat]]
      BY <2>2
    <3> HIDE DEF RouterInv, RouterTypeOK
    <3> DEFINE m == Moved(balance, u, Router, a, amount)
    <3>2. amount \in Nat /\ amount <= balance[u][a] /\ balance' = m
      BY <2>1
    <3>3. /\ m \in [Holders -> [Assets -> Nat]]
          /\ \A h \in Holders : h # u /\ h # Router => m[h] = balance[h]
      BY <2>3, <3>1, <3>2, MovedBalances
    <3> HIDE DEF m
    <3> QED
      BY <3>2, <3>3
  <2>5. \A p \in Pools : balance'[p] = balance[p]
    BY <2>4, Parties
  <2>6. GoodState(State)'
    BY <2>1, <2>2, <2>4, <2>5 DEF GoodState, State
  <2> QED
    BY <2>1, <2>6, RestKeepsInv
<1>5. ASSUME AssertMinimumReceive
      PROVE  RouterInv'
  <2>1. /\ tasks # <<>> /\ TasksLeft /\ Message("assert")
        /\ Continue /\ listed' = listed /\ swap_routes' = swap_routes
        /\ balance' = balance /\ collected' = collected
    BY <1>5 DEF AssertMinimumReceive, Message
  <2>2. CallOK(call) /\ Done = Len(call.ops) /\ call.minimum # NoMinimum
    BY <2>1, NextMessage
  <2>3. Done + 1 = Messages(call)
    BY <2>2, CallLength
  <2>4. tasks' = <<>>
    BY <2>1, <2>3, MessageDone
  <2>5. GoodState(State)'
    BY <2>1 DEF GoodState, State
  <2> QED
    BY <2>1, <2>4, <2>5, RestKeepsInv
<1>6. ASSUME Fail
      PROVE  RouterInv'
  <2>1. tasks # <<>>
    BY <1>6 DEF Fail, Failing, Message
  <2>2. GoodState(call.before)
    BY <2>1 DEF TasksLeft, CallOK
  <2>3. /\ tasks' = <<>> /\ listed' = listed /\ swap_routes' = swap_routes
        /\ GoodState(State)'
    BY <1>6, <2>2 DEF Fail, GoodState, State
  <2> QED
    BY <2>3, RestKeepsInv
<1>7. CASE UNCHANGED vars
  <2>1. /\ listed' = listed /\ balance' = balance /\ collected' = collected
        /\ swap_routes' = swap_routes /\ tasks' = tasks /\ call' = call
    BY <1>7 DEF vars
  <2>2. PICK c, k, s : c = call /\ k = Done /\ s = State
    OBVIOUS
  <2>3. call' = c /\ Done' = k /\ State' = s
    BY <2>1, <2>2 DEF Done, State
  <2>4. RouterTypeOK'
    BY <2>1 DEF TasksLeft, Done, GoodState, State
  <2>5. RouterHolds'
    BY <2>1, <2>2, <2>3 DEF RouterHolds
  <2>6. Quoted(call, Done)' = Quoted(c, k)
    BY <2>1, <2>3 DEF Quoted, Amounts, Returned, Simulation, ThePair, PairOf
  <2>7. tasks # <<>> => QuoteAfter(call, Done, State)'
    BY <2>2, <2>3, <2>6 DEF QuoteKept, QuoteAfter
  <2> QED
    BY <2>1, <2>4, <2>5, <2>7 DEF QuoteKept
<1> QED
  <2> USE DEF Next
  <2> HIDE DEF RouterInv
  <2>1. CASE Next
    BY <1>1, <1>2, <1>3, <1>4, <1>5, <1>6, <2>1, SwapKeepsInv
  <2> QED
    BY <1>7, <2>1

(* In every state of a call its coins are where the operations done so far  *)
(* have brought them, and pairs not yet used are as they were               *)
(* (execute_swap_operations and the messages it sends).                     *)
THEOREM RouterInvariant == Spec => []RouterInv
<1>1. Init => RouterInv
  BY RouterInit
<1>2. RouterInv /\ [Next]_vars => RouterInv'
  BY RouterStep
<1> QED
  BY <1>1, <1>2, PTL DEF Spec

(* In every state the messages of a transaction are those its first one     *)
(* sent, and pairs own what they keep for the protocol.                     *)
THEOREM RouterTypes == Spec => []RouterTypeOK
<1>1. RouterInv => RouterTypeOK
  BY DEF RouterInv
<1> QED
  BY <1>1, RouterInvariant, PTL

-----------------------------------------------------------------------------
(* What a call leaves, and what it pays *)

(* A transaction ends well by the last of its swaps or by the check.        *)
LEMMA Success ==
  ASSUME RouterInv, [Next]_vars, Succeeds
  PROVE  /\ CallOK(call) /\ Messages(call) = Done + 1 /\ TasksLeft
         /\ \/ ExecuteSwapOperation /\ call.minimum = NoMinimum /\ Done + 1 = Len(call.ops)
            \/ /\ AssertMinimumReceive /\ call.minimum # NoMinimum
               /\ Done = Len(call.ops) /\ balance' = balance
<1>1. tasks # <<>> /\ tasks' = <<>> /\ ~Failing
  BY DEF Succeeds
<1>2. TasksLeft
  BY <1>1 DEF RouterInv, RouterTypeOK
<1>3. ~Called
  BY <1>1 DEF Called
<1>4. ExecuteSwapOperation \/ AssertMinimumReceive
  <2>1. ~(UNCHANGED vars) /\ ~Fail
    BY <1>1 DEF vars, Fail
  <2>2. \A u, to, a, amount, minimum, ops :
          ExecuteSwapOperations(u, to, ops, a, amount, minimum) => Called
    BY DEF ExecuteSwapOperations
  <2>3. \A sender, route : AddSwapRoute(sender, route) => Called
    BY DEF AddSwapRoute
  <2>4. \A p : PairRemoved(p) => Called
    BY DEF PairRemoved
  <2>5. \A u, a, amount : Transfer(u, a, amount) => Called
    BY DEF Transfer
  <2> QED
    BY <1>3, <2>1, <2>2, <2>3, <2>4, <2>5 DEF Next
<1>5. Continue
  BY <1>4 DEF ExecuteSwapOperation, AssertMinimumReceive
<1>6. Messages(call) = Done + 1 /\ CallOK(call) /\ Done \in 0..Len(call.ops)
  BY <1>1, <1>2, <1>5, MessageDone, NextMessage
<1>7. /\ Len(call.ops) \in Nat
      /\ Messages(call) = Len(call.ops) \/ Messages(call) = Len(call.ops) + 1
      /\ call.minimum = NoMinimum <=> Messages(call) = Len(call.ops)
  BY <1>6, CallLength
<1>8. CASE ExecuteSwapOperation
  <2>1. Done < Len(call.ops)
    BY <1>1, <1>2, <1>8, NextMessage DEF ExecuteSwapOperation
  <2>2. Done + 1 = Len(call.ops)
    BY <1>6, <1>7, <2>1
  <2> QED
    BY <1>2, <1>6, <1>7, <1>8, <2>2
<1>9. CASE AssertMinimumReceive
  <2>1. Done = Len(call.ops) /\ balance' = balance
    BY <1>1, <1>2, <1>9, NextMessage DEF AssertMinimumReceive
  <2>2. Messages(call) # Len(call.ops)
    BY <1>6, <1>7, <2>1
  <2> QED
    BY <1>2, <1>6, <1>7, <1>9, <2>1, <2>2
<1> QED
  BY <1>4, <1>8, <1>9

(* What holds after all operations holds of the state a call ends in.       *)
LEMMA AllDone ==
  ASSUME RouterInv, [Next]_vars, Succeeds
  PROVE  /\ HoldsAfter(call, Len(call.ops), balance')
         /\ \E s : s.balance = balance' /\ QuoteAfter(call, Len(call.ops), s)
<1>1. CASE ExecuteSwapOperation /\ Done + 1 = Len(call.ops)
  <2> DEFINE s == [balance |-> balance', collected |-> collected']
  <2>1. HoldsAfter(call, Done + 1, balance') /\ QuoteAfter(call, Done + 1, s)
    BY <1>1, OperationDone
  <2>2. s.balance = balance'
    OBVIOUS
  <2> HIDE DEF s
  <2> QED
    BY <1>1, <2>1, <2>2
<1>2. CASE Done = Len(call.ops) /\ balance' = balance
  <2>1. HoldsAfter(call, Done, balance) /\ QuoteAfter(call, Done, State)
    BY DEF RouterInv, RouterHolds, QuoteKept, Succeeds
  <2>2. State.balance = balance'
    BY <1>2 DEF State
  <2> QED
    BY <1>2, <2>1, <2>2
<1> QED
  BY <1>1, <1>2, Success

(* A call whose operations follow each other leaves the router without any  *)
(* of the assets it offers, and with the others as they were.               *)
THEOREM RouterLeavesNothing == Spec => NothingLeftBehind
<1> DEFINE Leaves ==
      Succeeds /\ Linked(call) /\ call.to # Router =>
        LET offered == {op[1] : op \in ToSet(call.ops)} IN
        \A a \in Assets :
          IF a \in offered THEN balance'[Router][a] = 0
          ELSE balance'[Router][a] = call.before.balance[Router][a]
<1>1. ASSUME RouterInv, [Next]_vars
      PROVE  [Leaves]_vars
  <2> SUFFICES ASSUME Succeeds, Linked(call), call.to # Router, NEW a \in Assets
               PROVE  IF a \in {op[1] : op \in ToSet(call.ops)} THEN balance'[Router][a] = 0
                      ELSE balance'[Router][a] = call.before.balance[Router][a]
    OBVIOUS
  <2>1. CallOK(call)
    BY <1>1, Success
  <2>2. PICK n \in Nat : n = Len(call.ops)
    BY <2>1, CallLength
  <2>3. DOMAIN call.ops = 1..n
    BY <2>1, <2>2 DEF CallOK
  <2>4. a \in {op[1] : op \in ToSet(call.ops)} <=> a \in OfferedBy(call, n)
    BY <2>3 DEF OfferedBy, ToSet
  <2>5. HoldsAfter(call, n, balance')
    BY <1>1, <2>2, AllDone
  <2>6. balance'[Router][a] = IF a \in OfferedBy(call, n) THEN 0
                              ELSE call.before.balance[Router][a]
    BY <2>2, <2>5 DEF HoldsAfter
  <2> QED
    BY <2>4, <2>6
<1> QED
  BY <1>1, RouterInvariant, PTL DEF Spec, NothingLeftBehind

(* What the receiver sent along of what it is to get. *)
Sent(c) == IF c.sender = c.to /\ c.asset = Ask(c) THEN c.amount ELSE 0
(* What the receiver has of the ask once the coins of the call are gone.    *)
LEMMA PaidByReceiver ==
  ASSUME NEW c, CallOK(c), c.to # Router
  PROVE  /\ c.before.balance[c.to][Ask(c)] \in Nat /\ Sent(c) \in Nat
         /\ Paid(c)[c.to][Ask(c)] \in Nat
         /\ Paid(c)[c.to][Ask(c)] = c.before.balance[c.to][Ask(c)] - Sent(c)
<1>1. /\ c.sender \in Holders /\ Router \in Holders /\ c.sender # Router
      /\ c.to \in Holders /\ Ask(c) \in Assets
      /\ c.asset \in Assets /\ c.amount \in Nat
      /\ c.before.balance \in [Holders -> [Assets -> Nat]]
      /\ c.amount <= c.before.balance[c.sender][c.asset]
  BY Parties, CallLength DEF CallOK, GoodState
<1>2. /\ Paid(c) \in [Holders -> [Assets -> Nat]]
      /\ \A h \in Holders, x \in Assets : x # c.asset => Paid(c)[h][x] = c.before.balance[h][x]
      /\ \A h \in Holders : h # c.sender /\ h # Router => Paid(c)[h] = c.before.balance[h]
      /\ Paid(c)[c.sender][c.asset] = c.before.balance[c.sender][c.asset] - c.amount
  <2>1. PICK b \in [Holders -> [Assets -> Nat]], u \in Holders, a \in Assets, m \in Nat :
          b = c.before.balance /\ u = c.sender /\ a = c.asset /\ m = c.amount
    BY <1>1
  <2>2. Router \in Holders /\ u # Router /\ m <= b[u][a]
    BY <1>1, <2>1
  <2>3. Paid(c) = Moved(b, u, Router, a, m)
    BY <2>1 DEF Paid
  <2>4. LET p == Moved(b, u, Router, a, m) IN
        /\ p \in [Holders -> [Assets -> Nat]]
        /\ \A h \in Holders, x \in Assets : x # a => p[h][x] = b[h][x]
        /\ \A h \in Holders : h # u /\ h # Router => p[h] = b[h]
        /\ p[u][a] = b[u][a] - m
    BY <2>2, MovedBalances
  <2> QED
    BY <2>1, <2>3, <2>4
<1>3. PICK x \in Nat, y \in Nat : x = c.before.balance[c.to][Ask(c)] /\ y = Paid(c)[c.to][Ask(c)]
  BY <1>1, <1>2
<1>4. CASE c.sender = c.to /\ c.asset = Ask(c)
  BY <1>1, <1>2, <1>3, <1>4 DEF Sent
<1>5. CASE ~(c.sender = c.to /\ c.asset = Ask(c))
  <2>1. Sent(c) = 0
    BY <1>5 DEF Sent
  <2>2. y = x
    <3>1. CASE c.asset # Ask(c)
      BY <1>1, <1>2, <1>3, <3>1
    <3>2. CASE c.sender # c.to
      BY <1>1, <1>2, <1>3, <3>2
    <3> QED
      BY <1>5, <3>1, <3>2
  <2> QED
    BY <1>3, <2>1, <2>2
<1> QED
  BY <1>4, <1>5

(* What the last operation asks for.                                        *)
LEMMA LastAsk ==
  ASSUME NEW c, CallOK(c)
  PROVE  Last(c.ops)[2] = Ask(c)
BY DEF Last, Ask

(* A call with a minimum that succeeds has made the receiver richer by it.  *)
THEOREM RouterPaysMinimum == Spec => MinimumReceived
<1> DEFINE Pays ==
      Succeeds /\ call.minimum # NoMinimum /\ call.to # Router =>
        LET ask == Last(call.ops)[2]
            sent == IF call.sender = call.to /\ call.asset = ask THEN call.amount ELSE 0 IN
        balance'[call.to][ask]
          >= call.before.balance[call.to][ask] - sent + call.minimum
<1>1. ASSUME RouterInv, [Next]_vars
      PROVE  [Pays]_vars
  <2> SUFFICES ASSUME Succeeds, call.minimum # NoMinimum, call.to # Router
               PROVE  balance'[call.to][Ask(call)]
                        >= call.before.balance[call.to][Ask(call)] - Sent(call) + call.minimum
    <3>1. Succeeds => Last(call.ops)[2] = Ask(call)
      BY <1>1, Success, LastAsk
    <3> QED
      BY <3>1 DEF Sent
  <2>1. /\ CallOK(call) /\ TasksLeft /\ AssertMinimumReceive
        /\ Done = Len(call.ops) /\ balance' = balance /\ tasks # <<>>
    BY <1>1, Success DEF Succeeds
  <2>2. /\ Head(tasks).asset = Ask(call) /\ Head(tasks).receiver = call.to
        /\ Head(tasks).minimum = call.minimum
        /\ Head(tasks).prev_balance = Paid(call)[call.to][Ask(call)]
    BY <2>1, NextMessage DEF PrevBalance
  <2>3. balance[call.to][Ask(call)] - Paid(call)[call.to][Ask(call)] >= call.minimum
    BY <2>1, <2>2 DEF AssertMinimumReceive, Received
  <2>4. PICK x \in Nat, s \in Nat, y \in Nat :
          /\ x = call.before.balance[call.to][Ask(call)] /\ s = Sent(call)
          /\ y = Paid(call)[call.to][Ask(call)] /\ y = x - s
    BY <2>1, PaidByReceiver
  <2>5. call.minimum \in Nat /\ balance[call.to][Ask(call)] \in Nat
    <3>1. GoodState(State) /\ call.to \in Holders /\ Ask(call) \in Assets
      BY <1>1, <2>1, Parties, CallLength DEF RouterInv, RouterTypeOK, CallOK
    <3>2. call.minimum \in Nat
      BY <2>1 DEF CallOK
    <3> QED
      BY <3>1, <3>2 DEF GoodState, State
  <2>6. PICK m \in Nat, z \in Nat : m = call.minimum /\ z = balance[call.to][Ask(call)]
    BY <2>5
  <2>7. z - y >= m /\ y = x - s => z >= x - s + m
    BY <2>6
  <2> QED
    BY <2>1, <2>3, <2>4, <2>6, <2>7
<1> QED
  BY <1>1, RouterInvariant, PTL DEF Spec, MinimumReceived

(* What a simulation of the operations promised is what the receiver gets.  *)
THEOREM RouterKeepsQuotes == Spec => SimulationHolds
<1> DEFINE Keeps ==
      Succeeds /\ Quotable(call) =>
        LET ask == Last(call.ops)[2]
            sent == IF call.sender = call.to /\ call.asset = ask THEN call.amount ELSE 0 IN
        balance'[call.to][ask] - (call.before.balance[call.to][ask] - sent)
          = SimulateSwapOperations(call.before, call.amount, call.ops)
<1>1. ASSUME RouterInv, [Next]_vars
      PROVE  [Keeps]_vars
  <2> SUFFICES ASSUME Succeeds, Quotable(call)
               PROVE  balance'[call.to][Ask(call)]
                        - (call.before.balance[call.to][Ask(call)] - Sent(call))
                      = SimulateSwapOperations(call.before, call.amount, call.ops)
    <3>1. Succeeds => Last(call.ops)[2] = Ask(call)
      BY <1>1, Success, LastAsk
    <3> QED
      BY <3>1 DEF Sent
  <2>1. CallOK(call) /\ call.ops # <<>> /\ call.to # Router
    BY <1>1, Success DEF CallOK, Quotable
  <2>2. PICK s : s.balance = balance' /\ QuoteAfter(call, Len(call.ops), s)
    BY <1>1, AllDone
  <2>3. PICK q \in Nat : q = Quoted(call, Len(call.ops))
    BY <2>2 DEF QuoteAfter
  <2>4. balance'[call.to][Ask(call)] = Paid(call)[call.to][Ask(call)] + q
    BY <2>2, <2>3 DEF QuoteAfter
  <2>5. SimulateSwapOperations(call.before, call.amount, call.ops) = q
    BY <2>1, <2>3 DEF SimulateSwapOperations, Quoted
  <2>6. PICK x \in Nat, t \in Nat, y \in Nat :
          /\ x = call.before.balance[call.to][Ask(call)] /\ t = Sent(call)
          /\ y = Paid(call)[call.to][Ask(call)] /\ y = x - t
    BY <2>1, PaidByReceiver
  <2> QED
    BY <2>4, <2>5, <2>6
<1> QED
  BY <1>1, RouterInvariant, PTL DEF Spec, SimulationHolds

-----------------------------------------------------------------------------
(* What one coin more buys *)

(* The inverse of fees below the whole, rounded down twice, leaves enough   *)
(* when the amount is not more than the fees, or there are none.            *)
LEMMA InverseOfFees ==
  ASSUME NEW u \in Nat \ {0}, NEW fee \in Nat, fee < u, NEW ask \in Nat \ {0},
         fee = 0 \/ ask <= fee
  PROVE  LET before == (ask * ((u * u) \div (u - fee))) \div u IN
         /\ before \in Nat /\ (before * fee) \div u \in 0..before
         /\ ask <= before - (before * fee) \div u
<1>1. PICK v \in Nat \ {0} : v = u - fee /\ u = v + fee
  <2>1. u - fee \in Nat \ {0} /\ u = (u - fee) + fee
    OBVIOUS
  <2> QED
    BY <2>1
<1>2. u * u \in Nat
  BY ProductNat
<1>3. PICK inv \in Nat : inv = (u * u) \div v /\ u * u + 1 <= v * inv + v
  BY <1>2, Quotient, QuotientNext
<1>4. ask * inv \in Nat
  BY ProductNat
<1>5. PICK b \in Nat : b = (ask * inv) \div u /\ ask * inv + 1 <= u * b + u
  BY <1>4, Quotient, QuotientNext
<1>6. b * fee \in Nat /\ u * b \in Nat
  BY ProductNat
<1>7. PICK f \in Nat : f = (b * fee) \div u /\ u * f <= b * fee
  BY <1>6, Quotient
<1>8. f <= b
  <2>1. fee * b <= u * b
    BY ProductMono
  <2>2. b * fee <= u * b
    BY <2>1
  <2> QED
    BY <1>6, <1>7, <2>2, QuotientBound
<1>9. ask + f <= b
  <2>1. CASE fee = 0
    <3>1. v = u
      BY <1>1, <2>1
    <3>2. inv = u
      BY <1>2, <1>3, <3>1, QuotientExact
    <3>3. b = ask
      <4>1. ask * u = u * ask
        OBVIOUS
      <4>2. (u * ask) \div u = ask
        BY QuotientExact
      <4> QED
        BY <1>5, <3>2, <4>1, <4>2
    <3>4. u * f <= 0
      BY <1>7, <2>1
    <3>5. f = 0
      <4>1. SUFFICES ASSUME f # 0 PROVE FALSE
        OBVIOUS
      <4>2. u * f > 0
        BY <4>1
      <4> QED
        BY <3>4, <4>2
    <3> QED
      BY <3>3, <3>5
  <2>2. CASE ask <= fee
    <3>1. SUFFICES ASSUME b < ask + f PROVE FALSE
      OBVIOUS
    <3>2. PICK a \in Nat : ask = a + 1
      <4>1. ask - 1 \in Nat /\ ask = (ask - 1) + 1
        OBVIOUS
      <4> QED
        BY <4>1
    <3>3. b <= a + f
      BY <3>1, <3>2
    <3>4. u * b <= u * a + u * f
      <4>1. a + f \in Nat
        OBVIOUS
      <4>2. b * u <= (a + f) * u
        BY <3>3, <4>1, ProductMono
      <4> QED
        BY <4>2
    <3>5. u * b = v * b + b * fee
      BY <1>1
    <3>6. /\ v * b \in Nat /\ u * a \in Nat /\ u * f \in Nat
          /\ u * (v * b) \in Nat /\ u * (u * a) \in Nat /\ v * (ask * inv) \in Nat
          /\ u * v \in Nat /\ ask * v \in Nat /\ u * fee \in Nat /\ ask * (u * u) \in Nat
      BY <1>2, <1>4, ProductNat
    <3>7. v * b <= u * a
      BY <1>6, <1>7, <3>4, <3>5, <3>6
    <3>8. u * (v * b) <= u * (u * a)
      <4>1. (v * b) * u <= (u * a) * u
        BY <3>6, <3>7, ProductMono
      <4>2. (v * b) * u = u * (v * b) /\ (u * a) * u = u * (u * a)
        BY <3>6
      <4> QED
        BY <4>1, <4>2
    <3>9. v * (ask * inv) + v <= u * (v * b) + u * v
      <4>1. (ask * inv + 1) * v <= (u * b + u) * v
        BY <1>4, <1>5, <1>6, ProductMono
      <4>2. (ask * inv + 1) * v = v * (ask * inv) + v
        OBVIOUS
      <4>3. (u * b + u) * v = u * (v * b) + u * v
        OBVIOUS
      <4> QED
        BY <4>1, <4>2, <4>3
    <3>10. ask * (u * u) + ask <= v * (ask * inv) + ask * v
      <4>1. v * inv \in Nat
        BY ProductNat
      <4>2. (u * u + 1) * ask <= (v * inv + v) * ask
        BY <1>2, <1>3, <4>1, ProductMono
      <4>3. (u * u + 1) * ask = ask * (u * u) + ask
        OBVIOUS
      <4>4. (v * inv + v) * ask = v * (ask * inv) + ask * v
        OBVIOUS
      <4> QED
        BY <4>2, <4>3, <4>4
    <3>11. ask * (u * u) = u * (u * a) + u * u
      BY <3>2
    <3>12. u * u = u * v + u * fee
      BY <1>1
    <3>13. ask + v + u * fee <= ask * v
      BY <1>2, <3>6, <3>8, <3>9, <3>10, <3>11, <3>12
    <3>14. ask * v <= fee * u
      <4>1. v <= u
        BY <1>1
      <4> QED
        BY <2>2, <4>1, ProductMono2
    <3>15. fee * u = u * fee
      OBVIOUS
    <3> QED
      BY <3>6, <3>13, <3>14, <3>15
  <2> QED
    BY <2>1, <2>2
<1> QED
  BY <1>1, <1>3, <1>5, <1>7, <1>8, <1>9

(* What fees leave of more is not less. *)
LEMMA LeftMonotone ==
  ASSUME NEW u \in Nat \ {0}, NEW fee \in Nat, fee <= u, NEW b \in Nat, NEW g \in Nat, b <= g
  PROVE  b - (b * fee) \div u <= g - (g * fee) \div u
<1>1. PICK e \in Nat : g = b + e
  <2>1. g - b \in Nat /\ g = b + (g - b)
    OBVIOUS
  <2> QED
    BY <2>1
<1>2. b * fee \in Nat /\ g * fee \in Nat /\ e * fee \in Nat /\ u * e \in Nat
  BY ProductNat
<1>3. PICK f \in Nat : f = (b * fee) \div u /\ b * fee + 1 <= u * f + u
  BY <1>2, Quotient, QuotientNext
<1>4. PICK h \in Nat : h = (g * fee) \div u /\ u * h <= g * fee
  BY <1>2, Quotient
<1>5. g * fee = b * fee + e * fee
  BY <1>1
<1>6. e * fee <= u * e
  <2>1. fee * e <= u * e
    BY ProductMono
  <2> QED
    BY <2>1
<1>7. u * h + 1 <= u * e + u * f + u
  <2>1. u * h \in Nat /\ u * f \in Nat
    BY ProductNat
  <2> QED
    BY <1>2, <1>3, <1>4, <1>5, <1>6, <2>1
<1>8. h <= e + f
  <2>1. SUFFICES ASSUME e + f + 1 <= h PROVE FALSE
    OBVIOUS
  <2>2. (e + f + 1) * u <= h * u
    BY <2>1, ProductMono
  <2>3. (e + f + 1) * u = u * e + u * f + u /\ h * u = u * h
    OBVIOUS
  <2>4. u * h \in Nat /\ u * f \in Nat
    BY ProductNat
  <2> QED
    BY <1>2, <1>7, <2>2, <2>3, <2>4
<1>9. b - f <= g - h
  BY <1>1, <1>8
<1> QED
  BY <1>3, <1>4, <1>9

(* One more than what would exactly leave the rest buys the amount.         *)
LEMMA OneMoreBuys ==
  ASSUME NEW offer_pool \in Nat \ {0}, NEW ask_pool \in Nat, NEW before \in Nat,
         before < ask_pool
  PROVE  LET offer == (offer_pool * ask_pool) \div (ask_pool - before) - offer_pool IN
         /\ offer \in Nat
         /\ before <= (ask_pool * (offer + 1)) \div (offer_pool + (offer + 1))
<1>1. PICK r \in Nat \ {0} : r = ask_pool - before /\ ask_pool = r + before
  <2>1. ask_pool - before \in Nat \ {0} /\ ask_pool = (ask_pool - before) + before
    OBVIOUS
  <2> QED
    BY <2>1
<1>2. offer_pool * ask_pool \in Nat
  BY ProductNat
<1>3. PICK q \in Nat : q = (offer_pool * ask_pool) \div r
                       /\ offer_pool * ask_pool + 1 <= r * q + r
  BY <1>2, Quotient, QuotientNext
<1>4. offer_pool <= q
  <2>1. r <= ask_pool
    BY <1>1
  <2>2. r * offer_pool <= ask_pool * offer_pool
    BY <2>1, ProductMono
  <2>3. offer_pool * r <= offer_pool * ask_pool
    BY <2>2
  <2> QED
    BY <1>2, <1>3, <2>3, QuotientAtLeast
<1>5. PICK o \in Nat : o = q - offer_pool /\ q = offer_pool + o
  <2>1. q - offer_pool \in Nat /\ q = offer_pool + (q - offer_pool)
    BY <1>4
  <2> QED
    BY <2>1
<1>6. PICK n \in Nat \ {0} : n = offer_pool + (o + 1) /\ n = q + 1
  BY <1>5
<1>7. before * n <= ask_pool * (o + 1)
  <2>1. r * n = r * q + r
    BY <1>6
  <2>2. ask_pool * n = r * n + before * n
    BY <1>1
  <2>3. ask_pool * n = offer_pool * ask_pool + ask_pool * (o + 1)
    BY <1>6
  <2>4. before * n \in Nat /\ r * n \in Nat /\ ask_pool * (o + 1) \in Nat /\ r * q \in Nat
    BY ProductNat
  <2>5. PICK w \in Nat, x \in Nat, y \in Nat, z \in Nat :
          w = before * n /\ x = r * n /\ y = ask_pool * (o + 1) /\ z = offer_pool * ask_pool
    BY <1>2, <2>4
  <2>6. x + w = z + y /\ z + 1 <= x
    BY <1>3, <2>1, <2>2, <2>3, <2>5
  <2>7. w <= y
    BY <2>6
  <2> QED
    BY <2>5, <2>7
<1>8. ask_pool * (o + 1) \in Nat
  BY ProductNat
<1>9. before <= (ask_pool * (o + 1)) \div n
  BY <1>7, <1>8, QuotientAtLeast
<1> QED
  BY <1>1, <1>3, <1>5, <1>6, <1>9

(* Simulations of one operation. *)
LEMMA OneOperation ==
  ASSUME listed \in SUBSET Pools, NEW s, GoodState(s), NEW op \in Assets \X Assets
  PROVE  /\ \A offer \in Nat :
              SimulateSwapOperations(s, offer, <<op>>) = Returned(s, op, offer)
         /\ \A ask \in Nat :
              ReverseSimulateSwapOperations(s, ask, <<op>>) = ReverseSimulation(s, op, ask)
<1>1. PICK ops \in Seq(Assets \X Assets) : ops = <<op>>
  <2>1. <<op>> \in Seq(Assets \X Assets)
    OBVIOUS
  <2> QED
    BY <2>1
<1>2. Len(ops) = 1 /\ ops # <<>> /\ ops[1] = op
  BY <1>1
<1>3. ASSUME NEW offer \in Nat
      PROVE  SimulateSwapOperations(s, offer, ops) = Returned(s, op, offer)
  <2>1. 1 \in 1..Len(ops) /\ 1 - 1 = 0
    BY <1>2
  <2>2. /\ Amounts(s, offer, ops)[0] = offer
        /\ Amounts(s, offer, ops)[1] = Returned(s, ops[1], Amounts(s, offer, ops)[1 - 1])
    BY <2>1, AmountsFollow
  <2> QED
    BY <1>2, <2>1, <2>2 DEF SimulateSwapOperations
<1>4. ASSUME NEW ask \in Nat
      PROVE  ReverseSimulateSwapOperations(s, ask, ops) = ReverseSimulation(s, op, ask)
  <2> DEFINE Is(g) == g = [i \in 1..(Len(ops) + 1) |->
                             IF i = Len(ops) + 1 THEN ask ELSE Required(s, ops[i], g[i + 1])]
             amount == CHOOSE g : Is(g)
  <2>1. Is([i \in 1..2 |-> IF i = 2 THEN ask ELSE Required(s, op, ask)])
    <3>1. \A i \in 1..2 : i = 2 \/ (i = 1 /\ i + 1 = 2 /\ i # 2)
      OBVIOUS
    <3>2. Len(ops) + 1 = 2 /\ 2 \in 1..2
      BY <1>2
    <3> QED
      BY <1>2, <3>1, <3>2
  <2>2. Is(amount)
    <3>1. \E g : Is(g)
      BY <2>1
    <3> HIDE DEF Is
    <3> QED
      BY <3>1
  <2>3. ReverseSimulateSwapOperations(s, ask, ops) = amount[1]
    BY <1>2 DEF ReverseSimulateSwapOperations
  <2> HIDE DEF amount
  <2>4. 1 \in 1..(Len(ops) + 1) /\ 2 \in 1..(Len(ops) + 1) /\ Len(ops) + 1 = 2 /\ 1 + 1 = 2 /\ 1 # 2
    BY <1>2
  <2>5. amount[2] = ask /\ amount[1] = Required(s, op, amount[2])
    BY <1>2, <2>2, <2>4
  <2>6. ask # Undefined
    BY CurveAssumption
  <2> QED
    BY <2>3, <2>5, <2>6 DEF Required
<1> QED
  BY <1>1, <1>3, <1>4

(* On a constant product. *)
LEMMA OneMoreOfPool ==
  ASSUME NEW offer_pool \in Nat, NEW ask_pool \in Nat, NEW ask \in Nat \ {0},
         NEW fees \in Fees, TotalOf(fees) < Unit,
         TotalOf(fees) = 0 \/ ask <= TotalOf(fees), NEW type, type.amp = 0,
         OfferFor(offer_pool, ask_pool, ask, fees, type) # Undefined
  PROVE  LET offer == OfferFor(offer_pool, ask_pool, ask, fees, type)
             swap == ComputeSwap(offer_pool, ask_pool, offer + 1, fees, type) IN
         offer \in Nat /\ (swap # Undefined => swap.return >= ask)
<1> DEFINE offer == OfferFor(offer_pool, ask_pool, ask, fees, type)
           swap == ComputeSwap(offer_pool, ask_pool, offer + 1, fees, type)
<1>1. PICK fee \in Nat, u \in Nat \ {0} : fee = TotalOf(fees) /\ u = Unit /\ fee < u
  BY CurveAssumption DEF Fees, TotalOf
<1>2. PICK before \in Nat :
        /\ before = BeforeFees(ask, fees)
        /\ (before * fee) \div u \in 0..before
        /\ ask <= before - (before * fee) \div u
  <2>1. fee = 0 \/ ask <= fee
    BY <1>1
  <2>2. BeforeFees(ask, fees) = (ask * ((u * u) \div (u - fee))) \div u
    BY <1>1 DEF BeforeFees
  <2> QED
    BY <1>1, <2>1, <2>2, InverseOfFees
<1>3. /\ offer_pool # 0 /\ ~(ask_pool <= before)
      /\ offer = (offer_pool * ask_pool) \div (ask_pool - before) - offer_pool
  BY <1>2 DEF OfferFor
<1>4. before < ask_pool
  BY <1>3
<1>5. PICK o \in Nat :
        /\ o = offer
        /\ before <= (ask_pool * (o + 1)) \div (offer_pool + (o + 1))
  BY <1>3, <1>4, OneMoreBuys
<1> HIDE DEF offer
<1>6. ASSUME swap # Undefined
      PROVE  swap.return >= ask
  <2> DEFINE gross == GrossReturn(offer_pool, ask_pool, o + 1, type)
             cut == FeesOn(gross, fees)
  <2>1. gross # Undefined /\ swap = [return |-> gross - TotalOf(cut), fees |-> cut]
    BY <1>5, <1>6 DEF ComputeSwap
  <2>2. gross = (ask_pool * (o + 1)) \div (offer_pool + (o + 1))
    BY <2>1 DEF GrossReturn
  <2>3. PICK g \in Nat : g = gross
    <3>1. PICK n \in Nat \ {0} : n = offer_pool + (o + 1)
      OBVIOUS
    <3>2. ask_pool * (o + 1) \in Nat
      BY ProductNat
    <3>3. (ask_pool * (o + 1)) \div n \in Nat
      BY <3>2, Quotient
    <3> QED
      BY <2>2, <3>1, <3>3
  <2>4. before <= g
    BY <1>5, <2>2, <2>3
  <2>5. swap.return = g - TotalOf(FeesOn(g, fees))
    BY <2>1, <2>3
  <2> HIDE DEF gross, swap, cut
  <2>6. before - (before * fee) \div u <= g - (g * fee) \div u
    <3>1. fee <= u
      BY <1>1
    <3> QED
      BY <2>4, <3>1, LeftMonotone
  <2>7. /\ FeesOn(g, fees).protocol \in Nat /\ FeesOn(g, fees).swap \in Nat
        /\ FeesOn(g, fees).burn \in Nat
        /\ TotalOf(FeesOn(g, fees)) <= (g * fee) \div u /\ (g * fee) \div u \in 0..g
    <3>1. TotalOf(fees) <= Unit
      BY <1>1
    <3> QED
      BY <1>1, <3>1, FeesTogether
  <2>8. PICK x \in Nat, y \in Nat, z \in Nat :
          /\ x = (before * fee) \div u /\ y = (g * fee) \div u /\ z = TotalOf(FeesOn(g, fees))
    BY <1>2, <2>7 DEF TotalOf
  <2>9. ask <= before - x /\ before - x <= g - y /\ z <= y /\ swap.return = g - z
    BY <1>2, <2>5, <2>6, <2>7, <2>8
  <2>10. ask <= g - z
    BY <2>9
  <2> QED
    BY <2>9, <2>10
<1> QED
  BY <1>5, <1>6 DEF offer

(* One coin more than a reverse simulation answers buys what was asked for. *)
THEOREM OneMoreSuffices == Spec => []OneMoreIsEnough
<1>1. ASSUME RouterTypeOK
      PROVE  OneMoreIsEnough
  <2> SUFFICES ASSUME tasks = <<>>, NEW op \in Swaps, AmpOf[ThePair(op)] = 0,
                      NEW ask \in 1..Available(State, ThePair(op), op[2]),
                      ReverseSimulateSwapOperations(State, ask, <<op>>) # Undefined,
                      \/ TotalOf(FeesOf[ThePair(op)]) = 0
                      \/ ask <= TotalOf(FeesOf[ThePair(op)]),
                      SimulateSwapOperations(State,
                        ReverseSimulateSwapOperations(State, ask, <<op>>) + 1, <<op>>) # Undefined
               PROVE  SimulateSwapOperations(State,
                        ReverseSimulateSwapOperations(State, ask, <<op>>) + 1, <<op>>) >= ask
    BY DEF OneMoreIsEnough
  <2>1. listed \in SUBSET Pools /\ GoodState(State)
    BY <1>1 DEF RouterTypeOK
  <2>2. op \in Assets \X Assets /\ PairOf(op) # {}
    BY DEF Swaps
  <2>3. PICK p \in Pools : p = ThePair(op) /\ op[1] \in Assets /\ op[2] \in Assets
    BY <2>1, <2>2, PairAnswers
  <2>4. PICK x \in Nat, y \in Nat :
          x = Available(State, p, op[1]) /\ y = Available(State, p, op[2])
    BY <2>1, <2>3, AvailableNat
  <2> DEFINE type == TypeOfPair(p, op)
             fees == FeesOf[p]
             offer == OfferFor(x, y, ask, fees, type)
             swap == ComputeSwap(x, y, offer + 1, fees, type)
  <2>5. fees \in Fees /\ TotalOf(fees) < Unit /\ type.amp = 0
    BY <2>3, RouterAssumption DEF Fees, TypeOfPair
  <2>6. ask \in Nat \ {0}
    BY <2>3, <2>4
  <2>7. ReverseSimulateSwapOperations(State, ask, <<op>>) = offer
    BY <2>1, <2>2, <2>3, <2>4, <2>6, OneOperation DEF ReverseSimulation
  <2> HIDE DEF type, fees
  <2>8. offer \in Nat /\ (swap # Undefined => swap.return >= ask)
    <3>1. offer # Undefined /\ (TotalOf(fees) = 0 \/ ask <= TotalOf(fees))
      BY <2>3, <2>7 DEF fees
    <3> QED
      BY <2>4, <2>5, <2>6, <3>1, OneMoreOfPool
  <2>9. Simulation(State, op, offer + 1) = swap
    BY <2>2, <2>3, <2>4 DEF Simulation, type, fees
  <2>10. SimulateSwapOperations(State, offer + 1, <<op>>) = Returned(State, op, offer + 1)
    <3>1. offer + 1 \in Nat
      BY <2>8
    <3> HIDE DEF offer
    <3> QED
      BY <2>1, <2>2, <3>1, OneOperation
  <2> HIDE DEF offer, swap
  <2>11. Returned(State, op, offer + 1) # Undefined
    BY <2>7, <2>10
  <2>12. swap # Undefined /\ Returned(State, op, offer + 1) = swap.return
    BY <2>9, <2>11 DEF Returned
  <2> QED
    BY <2>7, <2>8, <2>10, <2>12
<1> QED
  BY <1>1, RouterTypes, PTL

-----------------------------------------------------------------------------
(* The stableswap curve *)

(* A number is a multiple of its quotient, and a remainder.                 *)
LEMMA Division ==
  ASSUME NEW a \in Nat, NEW b \in Nat \ {0}
  PROVE  \E r \in 0..(b - 1) : a = b * (a \div b) + r
<1>1. a = b * (a \div b) + (a % b) /\ a % b \in 0..(b - 1)
  OBVIOUS
<1> QED
  BY <1>1

(* The quadratic whose root the iteration looks for, the last step of the   *)
(* iteration, from y by the divisor m, and the quadratic around its end.    *)
QuadraticAt(t, d, sum, e, c) == t * t + (sum + e - d) * t - c
LastStep(y, new, d, sum, e, c, m) ==
  m = 2 * y + (sum + e - d) /\ new = (y * y + c) \div m /\ new - y \in -1..1
AroundEnd(y, new, d, sum, e, c, m) ==
  \E r \in 0..(m - 1) :
    /\ y * y + c = m * new + r
    /\ \A x \in Int : QuadraticAt(new + x, d, sum, e, c)
         = (new - y) * (new - y) - r + x * (2 * (new - y) + m) + x * x

(* What a division left over is all that the quadratic misses its root by.  *)
LEMMA QuadraticAround ==
  ASSUME NEW d \in Nat, NEW sum \in Nat, NEW e \in Nat, NEW c \in Nat,
         NEW y \in Nat, NEW new \in Nat, NEW m \in Nat \ {0},
         LastStep(y, new, d, sum, e, c, m)
  PROVE  AroundEnd(y, new, d, sum, e, c, m)
<1>1. PICK k \in Nat : k = y * y + c
  BY ProductNat
<1>2. PICK r \in 0..(m - 1) : k = m * new + r
  <2>1. PICK r \in 0..(m - 1) : k = m * (k \div m) + r
    BY Division
  <2>2. new = k \div m
    BY <1>1 DEF LastStep
  <2> QED
    BY <2>1, <2>2
<1>3. PICK h \in Int : h = sum + e - d
  OBVIOUS
<1>4. h = m - 2 * y
  BY <1>3 DEF LastStep
<1>5. ASSUME NEW x \in Int
      PROVE  QuadraticAt(new + x, d, sum, e, c)
               = (new - y) * (new - y) - r + x * (2 * (new - y) + m) + x * x
  <2>1. QuadraticAt(new + x, d, sum, e, c) = (new + x) * (new + x) + h * (new + x) - c
    BY <1>3 DEF QuadraticAt
  <2>2. (new + x) * (new + x) = new * new + 2 * (new * x) + x * x
    OBVIOUS
  <2>3. (m - 2 * y) * (new + x) = m * new + m * x - 2 * (y * new) - 2 * (y * x)
    OBVIOUS
  <2>4. (new - y) * (new - y) = new * new - 2 * (y * new) + y * y
    OBVIOUS
  <2>5. x * (2 * (new - y) + m) = 2 * (new * x) - 2 * (y * x) + m * x
    OBVIOUS
  <2>6. m * new = y * y + c - r
    BY <1>1, <1>2
  <2> QED
    BY <1>4, <2>1, <2>2, <2>3, <2>4, <2>5, <2>6
<1> QED
  BY <1>1, <1>2, <1>5 DEF AroundEnd

(* What the divisions of the iteration's coefficients leave. *)
Divided(d, sum, ann, e, r1, q, r2, c, r3) ==
  /\ d = ann * e + r1 /\ r1 \in 0..(ann - 1)
  /\ d * d = 2 * sum * q + r2 /\ r2 \in 0..(2 * sum - 1)
  /\ q * d = 2 * ann * c + r3 /\ r3 \in 0..(2 * ann - 1)

(* The curve is a quadratic, but for what they leave. *)
NearQuadratic(t, d, sum, ann, e, r1, r2, c, r3) ==
  CurveAt(t, d, sum, ann)
    = 4 * (sum * ann) * (t * t + (sum + e - d) * t - c)
        + 4 * sum * (r1 * t) - 2 * (sum * r3) - d * r2

(* It is, multiplied by both divisors. *)
LEMMA CurveResidue ==
  ASSUME NEW d \in Nat, NEW sum \in Nat \ {0}, NEW ann \in Nat \ {0},
         NEW e \in Nat, NEW r1 \in Nat, NEW q \in Nat, NEW r2 \in Nat, NEW c \in Nat,
         NEW r3 \in Nat,
         Divided(d, sum, ann, e, r1, q, r2, c, r3),
         NEW t \in Int
  PROVE  NearQuadratic(t, d, sum, ann, e, r1, r2, c, r3)
<1>0. /\ d = ann * e + r1
      /\ d * d = 2 * sum * q + r2
      /\ q * d = 2 * ann * c + r3
  BY DEF Divided
<1>1. PICK h \in Int : h = sum + e - d
  OBVIOUS
<1>2. ann * sum + d - ann * d = ann * h + r1
  <2>1. ann * (sum + e - d) = ann * sum + ann * e - ann * d
    OBVIOUS
  <2> QED
    BY <1>0, <1>1, <2>1
<1>3. d * d * d = 4 * (sum * ann) * c + 2 * (sum * r3) + d * r2
  <2>1. d * (2 * sum * q + r2) = 2 * sum * (q * d) + d * r2
    OBVIOUS
  <2>2. 2 * sum * (2 * ann * c + r3) = 4 * (sum * ann) * c + 2 * (sum * r3)
    OBVIOUS
  <2>3. d * d * d = d * (d * d)
    OBVIOUS
  <2> QED
    BY <1>0, <2>1, <2>2, <2>3
<1>4. 4 * sum * (ann * h + r1) * t = 4 * (sum * ann) * (h * t) + 4 * sum * (r1 * t)
  OBVIOUS
<1>5. 4 * sum * ann * t * t = 4 * (sum * ann) * (t * t)
  OBVIOUS
<1>6. 4 * (sum * ann) * (t * t + h * t - c)
        = 4 * (sum * ann) * (t * t) + 4 * (sum * ann) * (h * t) - 4 * (sum * ann) * c
  OBVIOUS
<1>7. CurveAt(t, d, sum, ann) =
        4 * sum * ann * t * t + 4 * sum * (ann * sum + d - ann * d) * t - d * d * d
  BY DEF CurveAt
<1>8. PICK w \in Int : w = ann * sum + d - ann * d
  OBVIOUS
<1>9. 4 * sum * w * t = 4 * (sum * ann) * (h * t) + 4 * sum * (r1 * t)
  BY <1>0, <1>1, <1>2, <1>4, <1>8
<1>10. CurveAt(t, d, sum, ann) = 4 * (sum * ann) * (t * t) + 4 * sum * w * t - d * d * d
  BY <1>5, <1>7, <1>8
<1>11. PICK f \in Int : f = 4 * (sum * ann) * (t * t) + 4 * sum * w * t - d * d * d
  OBVIOUS
<1>12. f = 4 * (sum * ann) * (t * t + h * t - c)
             + 4 * sum * (r1 * t) - 2 * (sum * r3) - d * r2
  BY <1>0, <1>3, <1>6, <1>9, <1>11
<1> QED
  BY <1>1, <1>10, <1>11, <1>12 DEF NearQuadratic

(* Of two numbers the smaller has the smaller square.                       *)
LEMMA SquareMono ==
  ASSUME NEW a \in Nat, NEW b \in Nat, a < b
  PROVE  a * a < b * b
<1>1. PICK k \in Nat : b = a + 1 + k
  <2>1. b - a - 1 \in Nat /\ b = a + 1 + (b - a - 1)
    OBVIOUS
  <2> QED
    BY <2>1
<1>2. b * b = a * a + 2 * (a * (1 + k)) + (1 + k) * (1 + k)
  BY <1>1
<1>3. a * (1 + k) \in Nat /\ (1 + k) * (1 + k) \in Nat /\ k * k \in Nat /\ a * a \in Nat
  BY ProductNat
<1>4. (1 + k) * (1 + k) = 1 + 2 * k + k * k
  OBVIOUS
<1> QED
  BY <1>2, <1>3, <1>4

(* Where the iteration ends, a step of s from y, its divisor is not below   *)
(* the value the step would have come from, one step earlier.               *)
LEMMA DivisorAtEnd ==
  ASSUME NEW y \in Nat, NEW s \in -1..1, y + s \in Nat, NEW c \in Nat, NEW m \in Nat \ {0},
         NEW r \in 0..(m - 1), y * y + c = m * (y + s) + r, y > 0
  PROVE  m >= y - s
<1>1. SUFFICES ASSUME m + 1 + s <= y PROVE FALSE
  OBVIOUS
<1>2. PICK k \in Nat : y = m + 1 + s + k
  <2>1. y - (m + 1 + s) \in Nat /\ y = m + 1 + s + (y - (m + 1 + s))
    BY <1>1
  <2> QED
    BY <2>1
<1>3. y * y < m * (y + s + 1)
  <2>1. m * (y + s + 1) = m * (y + s) + m
    OBVIOUS
  <2> QED
    BY <2>1
<1>4. CASE s = -1
  <2>1. y * y = m * y + k * y
    BY <1>2, <1>4
  <2>2. k * y \in Nat
    BY ProductNat
  <2> QED
    BY <1>3, <1>4, <2>1, <2>2
<1>5. CASE s = 0
  <2>1. y * y = m * y + (1 + k) * y
    BY <1>2, <1>5
  <2>2. (1 + k) * y = y + k * y /\ k * y \in Nat
    BY ProductNat
  <2>3. m * (y + 1) = m * y + m
    OBVIOUS
  <2> QED
    BY <1>2, <1>3, <1>5, <2>1, <2>2, <2>3
<1>6. CASE s = 1
  <2>1. y * y = m * y + (2 + k) * y
    BY <1>2, <1>6
  <2>2. (2 + k) * y = 2 * y + k * y /\ k * y \in Nat
    BY ProductNat
  <2>3. m * (y + 2) = m * y + 2 * m
    OBVIOUS
  <2> QED
    BY <1>2, <1>3, <1>6, <2>1, <2>2, <2>3
<1> QED
  BY <1>4, <1>5, <1>6

(* Two below the end of the iteration the quadratic is below zero, even     *)
(* with what the first division left added.                                 *)
LEMMA QuadraticBelow ==
  ASSUME NEW y \in Nat, NEW s \in -1..1, NEW c \in Nat, NEW m \in Nat \ {0},
         NEW r \in 0..(m - 1), y * y + c = m * (y + s) + r, y + s >= 3
  PROVE  s * s - r - 2 * (2 * s + m) + 4 + (y + s - 2) <= 0
<1>1. y > 0 /\ y + s \in Nat
  OBVIOUS
<1>2. m >= y - s
  BY <1>1, DivisorAtEnd
<1>3. CASE s = -1
  BY <1>2, <1>3
<1>4. CASE s = 0
  BY <1>2, <1>4
<1>5. CASE s = 1
  BY <1>2, <1>5
<1> QED
  BY <1>3, <1>4, <1>5

(* A product with a number that is not above zero.                          *)
LEMMA ProductBelow ==
  ASSUME NEW a \in Nat, NEW g \in Int, NEW t \in Int, g + t <= 0
  PROVE  a * g + a * t <= 0
<1>1. PICK k \in Nat : g = -t - k
  <2>1. -(g + t) \in Nat /\ g = -t - (-(g + t))
    OBVIOUS
  <2> QED
    BY <2>1
<1>2. a * k \in Nat
  BY ProductNat
<1>3. a * g + a * t = -(a * k)
  BY <1>1
<1> QED
  BY <1>2, <1>3

(* The curve is not above zero where the quadratic is below it by as much   *)
(* as the first division may have left.                                     *)
LEMMA CurveBelow ==
  ASSUME NEW d \in Nat, NEW sum \in Nat \ {0}, NEW ann \in Nat \ {0},
         NEW e \in Nat, NEW r1 \in Nat, NEW q \in Nat, NEW r2 \in Nat, NEW c \in Nat,
         NEW r3 \in Nat,
         Divided(d, sum, ann, e, r1, q, r2, c, r3),
         NEW t \in Nat
  PROVE  (t > 0 => t * t + (sum + e - d) * t - c + t <= 0) => CurveAt(t, d, sum, ann) <= 0
<1>0. NearQuadratic(t, d, sum, ann, e, r1, r2, c, r3)
  <2>1. t \in Int
    OBVIOUS
  <2> QED
    BY <2>1, CurveResidue
<1> SUFFICES ASSUME t > 0 => t * t + (sum + e - d) * t - c + t <= 0
             PROVE  CurveAt(t, d, sum, ann) <= 0
  OBVIOUS
<1>1. CASE t = 0
  <2>1. d * d \in Nat
    BY ProductNat
  <2>2. d * d * d \in Nat
    BY <2>1, ProductNat
  <2>3. PICK w \in Int : w = ann * sum + d - ann * d
    OBVIOUS
  <2>4. CurveAt(t, d, sum, ann) = 4 * sum * ann * t * t + 4 * sum * w * t - d * d * d
    BY <2>3 DEF CurveAt
  <2>5. 4 * sum * ann * t * t = 0 /\ 4 * sum * w * t = 0
    BY <1>1
  <2> QED
    BY <2>2, <2>4, <2>5
<1>2. CASE t > 0
  <2>1. PICK g \in Int : g = t * t + (sum + e - d) * t - c
    OBVIOUS
  <2>2. g + t <= 0
    BY <1>2, <2>1
  <2>4. CurveAt(t, d, sum, ann)
          = 4 * (sum * ann) * g + 4 * sum * (r1 * t) - 2 * (sum * r3) - d * r2
    BY <1>0, <2>1 DEF NearQuadratic
  <2>5. sum * r3 \in Nat /\ d * r2 \in Nat
    BY ProductNat
  <2>6. sum * (r1 * t) <= (sum * ann) * t
    <3>1. r1 <= ann
      BY DEF Divided
    <3>2. r1 * t <= ann * t /\ r1 * t \in Nat /\ ann * t \in Nat
      BY <3>1, ProductMono, ProductNat
    <3>3. (r1 * t) * sum <= (ann * t) * sum
      BY <3>2, ProductMono
    <3>4. (ann * t) * sum = (sum * ann) * t /\ (r1 * t) * sum = sum * (r1 * t)
      OBVIOUS
    <3> QED
      BY <3>3, <3>4
  <2>7. (sum * ann) * g + (sum * ann) * t <= 0
    <3>1. sum * ann \in Nat
      BY ProductNat
    <3> QED
      BY <2>2, <3>1, ProductBelow
  <2>8. 4 * (sum * ann) * g = 4 * ((sum * ann) * g) /\ 4 * sum * (r1 * t) = 4 * (sum * (r1 * t))
    OBVIOUS
  <2>9. CurveAt(t, d, sum, ann)
          = 4 * ((sum * ann) * g) + 4 * (sum * (r1 * t)) - 2 * (sum * r3) - d * r2
    BY <2>4, <2>8
  <2> QED
    BY <2>5, <2>6, <2>7, <2>9
<1> QED
  BY <1>1, <1>2

(* The curve is not below zero where the quadratic is above zero by as much *)
(* as all divisions may have left.                                          *)
LEMMA CurveAbove ==
  ASSUME NEW d \in Nat, NEW sum \in Nat \ {0}, NEW ann \in Nat \ {0},
         NEW e \in Nat, NEW r1 \in Nat, NEW q \in Nat, NEW r2 \in Nat, NEW c \in Nat,
         NEW r3 \in Nat,
         Divided(d, sum, ann, e, r1, q, r2, c, r3),
         NEW t \in Nat, NEW g \in Int
  PROVE  g = t * t + (sum + e - d) * t - c /\ 2 * (ann * (g - 1)) >= d
           => CurveAt(t, d, sum, ann) >= 0
<1>0. NearQuadratic(t, d, sum, ann, e, r1, r2, c, r3)
  <2>1. t \in Int
    OBVIOUS
  <2> QED
    BY <2>1, CurveResidue
<1>1. r2 <= 2 * sum /\ r3 <= 2 * ann
  BY DEF Divided
<1>2. r2 * d <= (2 * sum) * d
  BY <1>1, ProductMono
<1>3. r3 * sum <= (2 * ann) * sum
  BY <1>1, ProductMono
<1>4. sum * (r1 * t) \in Nat
  <2>1. r1 * t \in Nat
    BY ProductNat
  <2> QED
    BY <2>1, ProductNat
<1> SUFFICES ASSUME g = t * t + (sum + e - d) * t - c, 2 * (ann * (g - 1)) >= d
             PROVE  CurveAt(t, d, sum, ann) >= 0
  OBVIOUS
<1>5. CurveAt(t, d, sum, ann)
        = 4 * (sum * ann) * g + 4 * sum * (r1 * t) - 2 * (sum * r3) - d * r2
  BY <1>0 DEF NearQuadratic
<1>6. sum * d <= 2 * (sum * (ann * (g - 1)))
  <2>1. PICK k \in Nat : 2 * (ann * (g - 1)) = d + k
    <3>1. 2 * (ann * (g - 1)) - d \in Nat
      OBVIOUS
    <3>2. 2 * (ann * (g - 1)) = d + (2 * (ann * (g - 1)) - d)
      OBVIOUS
    <3> QED
      BY <3>1, <3>2
  <2>2. sum * (2 * (ann * (g - 1))) = sum * d + sum * k
    BY <2>1
  <2>3. sum * k \in Nat
    BY ProductNat
  <2>4. sum * (2 * (ann * (g - 1))) = 2 * (sum * (ann * (g - 1)))
    OBVIOUS
  <2> QED
    BY <2>2, <2>3, <2>4
<1>7. sum * (ann * (g - 1)) = (sum * ann) * g - ann * sum
  OBVIOUS
<1>8. 4 * (sum * ann) * g = 4 * ((sum * ann) * g) /\ 4 * sum * (r1 * t) = 4 * (sum * (r1 * t))
  OBVIOUS
<1>9. r2 * d = d * r2 /\ (2 * sum) * d = 2 * (sum * d)
  OBVIOUS
<1>10. r3 * sum = sum * r3 /\ (2 * ann) * sum = 2 * (ann * sum)
  OBVIOUS
<1>11. CurveAt(t, d, sum, ann)
         = 4 * ((sum * ann) * g) + 4 * (sum * (r1 * t)) - 2 * (sum * r3) - d * r2
  BY <1>5, <1>8
<1> QED
  BY <1>2, <1>3, <1>4, <1>6, <1>7, <1>9, <1>10, <1>11

(* The slope of the quadratic where it is above zero cannot be small: its   *)
(* square is above its discriminant.  First where the pool is larger than   *)
(* the sum of both.                                                         *)
LEMMA SlopeLargePool ==
  ASSUME NEW d \in Nat, NEW sum \in Nat \ {0}, NEW ann \in Nat \ {0},
         NEW e \in Nat, NEW r1 \in 0..(ann - 1), d = ann * e + r1,
         NEW slope \in Nat, slope * slope > (sum + e - d) * (sum + e - d), sum > d
  PROVE  ann * slope > d
<1>1. PICK k \in Nat : sum + e - d = e + 1 + k
  <2>1. sum - d - 1 \in Nat /\ sum + e - d = e + 1 + (sum - d - 1)
    OBVIOUS
  <2> QED
    BY <2>1
<1>2. slope > e
  <2>1. SUFFICES ASSUME slope <= e PROVE FALSE
    OBVIOUS
  <2>2. slope < e + 1 + k /\ e + 1 + k \in Nat
    BY <2>1
  <2>3. slope * slope < (e + 1 + k) * (e + 1 + k)
    BY <2>2, SquareMono
  <2>4. slope * slope > (e + 1 + k) * (e + 1 + k)
    BY <1>1
  <2>5. slope * slope \in Nat /\ (e + 1 + k) * (e + 1 + k) \in Nat
    BY <2>2, ProductNat
  <2> QED
    BY <2>3, <2>4, <2>5
<1>3. (e + 1) * ann <= slope * ann
  BY <1>2, ProductMono
<1>4. (e + 1) * ann = ann * e + ann /\ slope * ann = ann * slope
  OBVIOUS
<1> QED
  BY <1>3, <1>4

(* And where it is not. *)
LEMMA SlopeSmallPool ==
  ASSUME NEW d \in Nat, NEW sum \in Nat \ {0}, NEW ann \in Nat \ {0},
         NEW q \in Nat, NEW r2 \in 0..(2 * sum - 1), d * d = 2 * sum * q + r2,
         NEW c \in Nat, NEW r3 \in 0..(2 * ann - 1), q * d = 2 * ann * c + r3,
         NEW slope \in Nat, slope * slope >= 4 * (c + 1), sum <= d, d > 4
  PROVE  2 * (ann * slope) >= d
<1>1. SUFFICES ASSUME 2 * (ann * slope) < d PROVE FALSE
  OBVIOUS
<1>2. PICK a2 \in Nat : a2 = ann * ann
  BY ProductNat
<1>3. 4 * (a2 * (slope * slope)) < d * d
  <2>1. 2 * (ann * slope) \in Nat
    BY ProductNat
  <2>2. (2 * (ann * slope)) * (2 * (ann * slope)) < d * d
    BY <1>1, <2>1, SquareMono
  <2>3. (2 * (ann * slope)) * (2 * (ann * slope)) = 4 * ((ann * ann) * (slope * slope))
    OBVIOUS
  <2> QED
    BY <1>2, <2>2, <2>3
<1>4. 4 * (a2 * (c + 1)) <= a2 * (slope * slope)
  <2>1. 4 * (c + 1) \in Nat /\ slope * slope \in Nat
    BY ProductNat
  <2>2. (4 * (c + 1)) * a2 <= (slope * slope) * a2
    BY <2>1, ProductMono
  <2>3. (4 * (c + 1)) * a2 = 4 * (a2 * (c + 1)) /\ (slope * slope) * a2 = a2 * (slope * slope)
    OBVIOUS
  <2> QED
    BY <2>2, <2>3
<1>5. 8 * (ann * (q * d + 1)) <= 16 * (a2 * (c + 1))
  <2>1. q * d + 1 <= 2 * (ann * (c + 1))
    <3>1. 2 * (ann * (c + 1)) = 2 * ann * c + 2 * ann
      OBVIOUS
    <3> QED
      BY <3>1
  <2>2. q * d + 1 \in Nat /\ 2 * (ann * (c + 1)) \in Nat
    BY ProductNat
  <2>3. (q * d + 1) * ann <= (2 * (ann * (c + 1))) * ann
    BY <2>1, <2>2, ProductMono
  <2>4. (2 * (ann * (c + 1))) * ann = 2 * ((ann * ann) * (c + 1))
    OBVIOUS
  <2>5. (q * d + 1) * ann = ann * (q * d + 1)
    OBVIOUS
  <2>6. (2 * (ann * (c + 1))) * ann = 2 * (a2 * (c + 1))
    BY <1>2, <2>4
  <2> QED
    BY <2>3, <2>5, <2>6
<1>6. 8 * (ann * (q * d)) + 8 * ann < d * d
  <2>1. 8 * (ann * (q * d + 1)) = 8 * (ann * (q * d)) + 8 * ann
    OBVIOUS
  <2>2. 8 * (ann * (q * d + 1)) < d * d
    BY <1>3, <1>4, <1>5
  <2> QED
    BY <2>1, <2>2
<1>7. 8 * q < d
  <2>1. q * d \in Nat
    BY ProductNat
  <2>2. 1 * (q * d) <= ann * (q * d)
    BY <2>1, ProductMono
  <2>3. 8 * (q * d) < d * d
    BY <1>6, <2>1, <2>2
  <2>4. SUFFICES ASSUME d <= 8 * q PROVE FALSE
    OBVIOUS
  <2>5. d * d <= (8 * q) * d
    BY <2>4, ProductMono
  <2>6. (8 * q) * d = 8 * (q * d)
    OBVIOUS
  <2> QED
    BY <2>3, <2>5, <2>6
<1>8. d <= 2 * q + 2
  <2>1. sum * q <= d * q
    BY ProductMono
  <2>2. d * d <= 2 * (d * q) + 2 * d
    <3>1. 2 * sum * q = 2 * (sum * q)
      OBVIOUS
    <3> QED
      BY <2>1, <3>1
  <2>3. SUFFICES ASSUME 2 * q + 3 <= d PROVE FALSE
    OBVIOUS
  <2>4. (2 * q + 3) * d <= d * d
    BY <2>3, ProductMono
  <2>5. (2 * q + 3) * d = 2 * (d * q) + 3 * d
    OBVIOUS
  <2> QED
    BY <2>2, <2>4, <2>5
<1> QED
  BY <1>7, <1>8

(* The curve is not above zero two below the end, *)
LEMMA CurveBelowEnd ==
  ASSUME NEW d \in Nat, NEW sum \in Nat \ {0}, NEW ann \in Nat \ {0},
         NEW e \in Nat, NEW r1 \in Nat, NEW q \in Nat, NEW r2 \in Nat, NEW c \in Nat,
         NEW r3 \in Nat,
         Divided(d, sum, ann, e, r1, q, r2, c, r3),
         NEW y \in Nat, NEW new \in Nat, NEW m \in Nat \ {0},
         LastStep(y, new, d, sum, e, c, m), new >= 2
  PROVE  CurveAt(new - 2, d, sum, ann) <= 0
<1>1. PICK t \in Nat : t = new - 2
  OBVIOUS
<1>2. (t > 0 => t * t + (sum + e - d) * t - c + t <= 0) => CurveAt(t, d, sum, ann) <= 0
  BY CurveBelow
<1>3. PICK r \in 0..(m - 1) :
        /\ y * y + c = m * new + r
        /\ \A x \in Int : QuadraticAt(new + x, d, sum, e, c)
             = (new - y) * (new - y) - r + x * (2 * (new - y) + m) + x * x
  <2>1. AroundEnd(y, new, d, sum, e, c, m)
    BY QuadraticAround
  <2> QED
    BY <2>1 DEF AroundEnd
<1>4. PICK s \in -1..1 : new = y + s
  <2>1. new = y + (new - y) /\ new - y \in -1..1
    BY DEF LastStep
  <2> QED
    BY <2>1
<1>5. QuadraticAt(t, d, sum, e, c) = s * s - r - 2 * (2 * s + m) + 4
  <2>1. QuadraticAt(new + (-2), d, sum, e, c)
          = (new - y) * (new - y) - r + (-2) * (2 * (new - y) + m) + (-2) * (-2)
    BY <1>3
  <2>2. new + (-2) = t /\ new - y = s
    BY <1>1, <1>4
  <2>3. QuadraticAt(t, d, sum, e, c) = s * s - r + (-2) * (2 * s + m) + (-2) * (-2)
    BY <2>1, <2>2
  <2> QED
    BY <2>3
<1>6. t > 0 => QuadraticAt(t, d, sum, e, c) + t <= 0
  <2> SUFFICES ASSUME t > 0 PROVE QuadraticAt(t, d, sum, e, c) + t <= 0
    OBVIOUS
  <2>1. y * y + c = m * (y + s) + r /\ y + s >= 3
    BY <1>1, <1>3, <1>4
  <2>2. s * s - r - 2 * (2 * s + m) + 4 + (y + s - 2) <= 0
    BY <2>1, QuadraticBelow
  <2>3. t = y + s - 2
    BY <1>1, <1>4
  <2> QED
    BY <1>5, <2>2, <2>3
<1> QED
  BY <1>1, <1>2, <1>6 DEF QuadraticAt

(* and not below zero two above it. *)
LEMMA CurveAboveEnd ==
  ASSUME NEW d \in Nat, NEW sum \in Nat \ {0}, NEW ann \in Nat \ {0},
         NEW e \in Nat, NEW r1 \in Nat, NEW q \in Nat, NEW r2 \in Nat, NEW c \in Nat,
         NEW r3 \in Nat,
         Divided(d, sum, ann, e, r1, q, r2, c, r3),
         NEW y \in Nat, NEW new \in Nat, NEW m \in Nat \ {0},
         LastStep(y, new, d, sum, e, c, m)
  PROVE  CurveAt(new + 2, d, sum, ann) >= 0
<1>1. PICK r \in 0..(m - 1) :
        /\ y * y + c = m * new + r
        /\ \A x \in Int : QuadraticAt(new + x, d, sum, e, c)
             = (new - y) * (new - y) - r + x * (2 * (new - y) + m) + x * x
  <2>1. AroundEnd(y, new, d, sum, e, c, m)
    BY QuadraticAround
  <2> QED
    BY <2>1 DEF AroundEnd
<1>2. PICK s \in -1..1 : new = y + s
  <2>1. new = y + (new - y) /\ new - y \in -1..1
    BY DEF LastStep
  <2> QED
    BY <2>1
<1>3. PICK g \in Int : g = QuadraticAt(new + 2, d, sum, e, c)
  BY DEF QuadraticAt
<1>4. g >= (s + 2) * (s + 2) + m + 1
  <2>1. g = (new - y) * (new - y) - r + 2 * (2 * (new - y) + m) + 2 * 2
    BY <1>1, <1>3
  <2>2. new - y = s
    BY <1>2
  <2>3. g = s * s - r + 2 * (2 * s + m) + 4
    BY <2>1, <2>2
  <2>4. (s + 2) * (s + 2) = s * s + 4 * s + 4
    OBVIOUS
  <2> QED
    BY <2>3, <2>4
<1>5. PICK near \in Nat : near = (s + 2) * (s + 2) + m
  <2>1. (s + 2) * (s + 2) \in Nat
    BY ProductNat
  <2> QED
    BY <2>1
<1>6. 2 * (ann * near) <= 2 * (ann * (g - 1))
  <2>1. g - 1 \in Nat /\ near <= g - 1
    BY <1>4, <1>5
  <2>2. near * ann <= (g - 1) * ann
    BY <2>1, ProductMono
  <2>3. near * ann = ann * near /\ (g - 1) * ann = ann * (g - 1)
    OBVIOUS
  <2>4. ann * near \in Nat /\ ann * (g - 1) \in Nat
    BY <2>1, ProductNat
  <2> QED
    BY <2>2, <2>3, <2>4
<1>7. 2 * (ann * near) >= d
  <2> SUFFICES ASSUME 2 * (ann * near) < d PROVE FALSE
    BY ProductNat
  <2>1. PICK slope \in Nat : slope = m + 2 * (s + 1)
    OBVIOUS
  <2>2. slope <= near
    <3>1. s * s \in Nat
      <4>1. s * s = 0 \/ s * s = 1
        OBVIOUS
      <4> QED
        BY <4>1
    <3>2. (s + 2) * (s + 2) = s * s + 4 * s + 4
      OBVIOUS
    <3> QED
      BY <1>5, <2>1, <3>1, <3>2
  <2>3. 2 * (ann * slope) < d
    <3>1. slope * ann <= near * ann
      BY <2>2, ProductMono
    <3>2. slope * ann = ann * slope /\ near * ann = ann * near
      OBVIOUS
    <3>3. ann * slope \in Nat /\ ann * near \in Nat
      BY ProductNat
    <3> QED
      BY <3>1, <3>2, <3>3
  <2>4. d > 4
    <3>1. near >= 2
      <4>1. (s + 2) * (s + 2) >= 1
        <5>1. s = -1 \/ s = 0 \/ s = 1
          OBVIOUS
        <5> QED
          BY <5>1
      <4> QED
        BY <1>5, <4>1
    <3>2. 1 * near <= ann * near
      BY ProductMono
    <3> QED
      BY <3>1, <3>2
  <2>5. PICK h \in Int : h = sum + e - d /\ m = 2 * y + h
    BY DEF LastStep
  <2>6. slope * slope >= h * h + 4 * (c + 1)
    <3>1. PICK w \in Nat : w = new + 1
      OBVIOUS
    <3>2. QuadraticAt(w, d, sum, e, c) >= 1
      <4>1. QuadraticAt(new + 1, d, sum, e, c)
              = (new - y) * (new - y) - r + 1 * (2 * (new - y) + m) + 1 * 1
        BY <1>1
      <4>2. new - y = s
        BY <1>2
      <4>3. QuadraticAt(w, d, sum, e, c) = s * s - r + 2 * s + m + 1
        BY <3>1, <4>1, <4>2
      <4>4. s * s + 2 * s + 1 >= 0
        <5>1. s = -1 \/ s = 0 \/ s = 1
          OBVIOUS
        <5> QED
          BY <5>1
      <4> QED
        BY <4>3, <4>4
    <3>3. w * w + h * w - c >= 1
      BY <2>5, <3>2 DEF QuadraticAt
    <3>4. slope = 2 * w + h
      BY <1>2, <2>1, <2>5, <3>1
    <3>5. (2 * w + h) * (2 * w + h) = 4 * (w * w + h * w) + h * h
      OBVIOUS
    <3> QED
      BY <3>3, <3>4, <3>5
  <2>7. /\ d = ann * e + r1 /\ r1 \in 0..(ann - 1)
        /\ d * d = 2 * sum * q + r2 /\ r2 \in 0..(2 * sum - 1)
        /\ q * d = 2 * ann * c + r3 /\ r3 \in 0..(2 * ann - 1)
    BY DEF Divided
  <2>8. CASE sum > d
    <3>1. slope * slope > (sum + e - d) * (sum + e - d)
      <4>1. slope * slope > h * h
        <5>1. PICK hh \in Int : hh = h * h
          OBVIOUS
        <5> QED
          BY <2>6, <5>1
      <4> QED
        BY <2>5, <4>1
    <3>2. ann * slope > d
      BY <2>7, <2>8, <3>1, SlopeLargePool
    <3>3. ann * slope \in Nat
      BY ProductNat
    <3> QED
      BY <2>3, <3>2, <3>3
  <2>9. CASE sum <= d
    <3>1. slope * slope >= 4 * (c + 1)
      <4>1. h * h >= 0
        OBVIOUS
      <4>2. PICK hh \in Int : hh = h * h
        OBVIOUS
      <4> QED
        BY <2>6, <4>1, <4>2
    <3>2. 2 * (ann * slope) >= d
      BY <2>4, <2>7, <2>9, <3>1, SlopeSmallPool
    <3>3. ann * slope \in Nat
      BY ProductNat
    <3> QED
      BY <2>3, <3>2, <3>3
  <2> QED
    BY <2>8, <2>9
<1>8. PICK t \in Nat : t = new + 2
  OBVIOUS
<1>9. g = t * t + (sum + e - d) * t - c /\ 2 * (ann * (g - 1)) >= d
        => CurveAt(t, d, sum, ann) >= 0
  BY CurveAbove
<1>10. g = t * t + (sum + e - d) * t - c
  BY <1>3, <1>8 DEF QuadraticAt
<1>11. 2 * (ann * (g - 1)) >= d
  <2>1. PICK k \in Int : k = 2 * (ann * (g - 1))
    OBVIOUS
  <2>2. PICK l \in Nat : l = 2 * (ann * near)
    BY ProductNat
  <2> QED
    BY <1>6, <1>7, <2>1, <2>2
<1> QED
  BY <1>8, <1>9, <1>10, <1>11

(* What a number is divided into, and is a multiple of. *)
LEMMA RootDivided ==
  ASSUME NEW d \in Nat, NEW sum \in Nat \ {0}, NEW ann \in Nat \ {0}
  PROVE  LET q == (d * d) \div (sum * NCoins)
             c == (q * d) \div (ann * NCoins) IN
         /\ q \in Nat /\ c \in Nat
         /\ \E r1 \in Nat, r2 \in Nat, r3 \in Nat :
              Divided(d, sum, ann, d \div ann, r1, q, r2, c, r3)
<1> DEFINE q == (d * d) \div (sum * NCoins)
           c == (q * d) \div (ann * NCoins)
<1>1. PICK r1 \in 0..(ann - 1) : d = ann * (d \div ann) + r1
  BY Division
<1>2. PICK s2 \in Nat \ {0} : s2 = sum * NCoins /\ s2 = 2 * sum
  BY DEF NCoins
<1>3. PICK a2 \in Nat \ {0} : a2 = ann * NCoins /\ a2 = 2 * ann
  BY DEF NCoins
<1>4. PICK d2 \in Nat : d2 = d * d
  BY ProductNat
<1>5. PICK r2 \in 0..(s2 - 1) : d2 = s2 * (d2 \div s2) + r2
  BY Division
<1>6. q = d2 \div s2 /\ q \in Nat
  BY <1>2, <1>4, Quotient
<1> HIDE DEF q
<1>7. PICK qd \in Nat : qd = q * d
  BY <1>6, ProductNat
<1>8. PICK r3 \in 0..(a2 - 1) : qd = a2 * (qd \div a2) + r3
  BY Division
<1>9. c = qd \div a2 /\ c \in Nat
  BY <1>3, <1>7, Quotient
<1> HIDE DEF c
<1>10. /\ r1 \in 0..(ann - 1) /\ d = ann * (d \div ann) + r1
       /\ r2 \in 0..(2 * sum - 1) /\ d * d = 2 * sum * q + r2
       /\ r3 \in 0..(2 * ann - 1) /\ q * d = 2 * ann * c + r3
  <2>1. d * d = 2 * sum * q + r2
    BY <1>2, <1>4, <1>5, <1>6
  <2>2. q * d = 2 * ann * c + r3
    BY <1>3, <1>7, <1>8, <1>9
  <2> QED
    BY <1>1, <1>2, <1>3, <1>5, <1>8, <2>1, <2>2
<1>11. Divided(d, sum, ann, d \div ann, r1, q, r2, c, r3)
  BY <1>10 DEF Divided
<1>12. r1 \in Nat /\ r2 \in Nat /\ r3 \in Nat
  OBVIOUS
<1> QED
  BY <1>6, <1>9, <1>11, <1>12 DEF q, c

(* The iteration, if it ends, ends within two of the curve's root.          *)
LEMMA RootKept ==
  ASSUME NEW d \in Nat, NEW sum \in Nat \ {0}, NEW ann \in Nat \ {0},
         NEW new, new = StableRoot(d, sum, ann), new # Undefined
  PROVE  /\ new \in Nat
         /\ new >= 2 => CurveAt(new - 2, d, sum, ann) <= 0
         /\ CurveAt(new + 2, d, sum, ann) >= 0
<1> DEFINE q == (d * d) \div (sum * NCoins)
           c == (q * d) \div (ann * NCoins)
           e == d \div ann
<1>1. e \in Nat
  BY Quotient
<1>2. /\ new \in Nat
      /\ \E y \in Nat : /\ 2 * y + (sum + e) > d
                        /\ new = (y * y + c) \div (2 * y + (sum + e) - d)
                        /\ new - y \in (-1)..1
  BY StableRootStep
<1>3. /\ q \in Nat /\ c \in Nat
      /\ \E r1 \in Nat, r2 \in Nat, r3 \in Nat : Divided(d, sum, ann, e, r1, q, r2, c, r3)
  BY RootDivided
<1> HIDE DEF q, c, e
<1>4. PICK r1 \in Nat, r2 \in Nat, r3 \in Nat : Divided(d, sum, ann, e, r1, q, r2, c, r3)
  BY <1>3
<1>5. PICK y \in Nat : /\ 2 * y + (sum + e) > d
                       /\ new = (y * y + c) \div (2 * y + (sum + e) - d)
                       /\ new - y \in (-1)..1
  BY <1>2
<1>6. PICK m \in Nat \ {0} : m = 2 * y + (sum + e) - d
  BY <1>1, <1>5
<1>7. LastStep(y, new, d, sum, e, c, m)
  <2>1. m = 2 * y + (sum + e - d)
    BY <1>1, <1>6
  <2>2. new = (y * y + c) \div m
    BY <1>5, <1>6
  <2> QED
    BY <1>5, <2>1, <2>2 DEF LastStep
<1>8. new >= 2 => CurveAt(new - 2, d, sum, ann) <= 0
  BY <1>1, <1>2, <1>3, <1>4, <1>7, CurveBelowEnd
<1>9. CurveAt(new + 2, d, sum, ann) >= 0
  BY <1>1, <1>2, <1>3, <1>4, <1>7, CurveAboveEnd
<1> QED
  BY <1>2, <1>8, <1>9

(* The iterations for the offers of StableCurveKept end within the number   *)
(* of steps that the code allows them.                                      *)
IterationsEnd == tasks = <<>> =>
  \A op \in Swaps, offer \in Offers \ {0} :
    LET p == ThePair(op)
        scale == ScaleOf[op[2]]
        x == Available(State, p, op[1]) * ScaleOf[op[1]]
        y == Available(State, p, op[2]) * scale
        sum == (x + offer * ScaleOf[op[1]]) \div scale IN
    AmpOf[p] > 0 /\ x > 0 /\ y > 0 /\ sum > 0 =>
      StableY(x, y, sum * scale, AmpOf[p], scale) # Undefined

(* What a stableswap pair keeps is within two units of the exact solution   *)
(* of its curve, whenever the iterations end at all.                        *)
THEOREM StableCurve == Spec => [](IterationsEnd => StableCurveKept)
<1>1. ASSUME RouterTypeOK, IterationsEnd
      PROVE  StableCurveKept
  <2> SUFFICES ASSUME tasks = <<>>, NEW op \in Swaps, NEW offer \in Offers \ {0}
               PROVE  LET p == ThePair(op)
                          scale == ScaleOf[op[2]]
                          x == Available(State, p, op[1]) * ScaleOf[op[1]]
                          y == Available(State, p, op[2]) * scale
                          sum == (x + offer * ScaleOf[op[1]]) \div scale
                          d == StableD(x, y, AmpOf[p], scale) \div scale
                          new == StableY(x, y, sum * scale, AmpOf[p], scale) IN
                      AmpOf[p] > 0 /\ x > 0 /\ y > 0 /\ sum > 0 =>
                        /\ new # Undefined
                        /\ new >= 2 => CurveAt(new - 2, d, sum, 2 * AmpOf[p]) <= 0
                        /\ CurveAt(new + 2, d, sum, 2 * AmpOf[p]) >= 0
    BY DEF StableCurveKept
  <2> DEFINE p == ThePair(op)
             scale == ScaleOf[op[2]]
             x == Available(State, p, op[1]) * ScaleOf[op[1]]
             y == Available(State, p, op[2]) * scale
             sum == (x + offer * ScaleOf[op[1]]) \div scale
             D == StableD(x, y, AmpOf[p], scale)
             d == D \div scale
             new == StableY(x, y, sum * scale, AmpOf[p], scale)
  <2> SUFFICES ASSUME AmpOf[p] > 0, x > 0, y > 0, sum > 0
               PROVE  /\ new # Undefined
                      /\ new >= 2 => CurveAt(new - 2, d, sum, 2 * AmpOf[p]) <= 0
                      /\ CurveAt(new + 2, d, sum, 2 * AmpOf[p]) >= 0
    OBVIOUS
  <2>1. new # Undefined
    BY <1>1 DEF IterationsEnd
  <2>2. listed \in SUBSET Pools /\ GoodState(State)
    BY <1>1 DEF RouterTypeOK
  <2>3. op \in Assets \X Assets /\ PairOf(op) # {}
    BY DEF Swaps
  <2>4. p \in Pools /\ op[1] \in Assets /\ op[2] \in Assets
    BY <2>2, <2>3, PairAnswers
  <2>5. /\ Available(State, p, op[1]) \in Nat /\ Available(State, p, op[2]) \in Nat
        /\ ScaleOf[op[1]] \in Nat \ {0} /\ scale \in Nat \ {0}
        /\ offer \in Nat /\ AmpOf[p] \in Nat \ {0}
    <3>1. Available(State, p, op[1]) \in Nat /\ Available(State, p, op[2]) \in Nat
      BY <2>2, <2>4, AvailableNat
    <3>2. ScaleOf[op[1]] \in Nat \ {0} /\ scale \in Nat \ {0}
      BY <2>4, RouterAssumption
    <3>3. AmpOf[p] \in Nat
      BY <2>4, RouterAssumption
    <3>4. offer \in Nat
      BY RouterAssumption
    <3> HIDE DEF p, scale
    <3> QED
      BY <3>1, <3>2, <3>3, <3>4
  <2>6. PICK amp \in Nat \ {0}, sc \in Nat \ {0} : amp = AmpOf[p] /\ sc = scale
    BY <2>5
  <2>7. x \in Nat /\ y \in Nat /\ sum \in Nat \ {0}
    <3>1. x \in Nat /\ y \in Nat /\ offer * ScaleOf[op[1]] \in Nat
      <4> HIDE DEF p, scale
      <4> QED
        BY <2>5, ProductNat
    <3>2. x + offer * ScaleOf[op[1]] \in Nat
      <4> HIDE DEF x
      <4> QED
        BY <3>1
    <3>3. sum \in Nat
      <4> HIDE DEF x, scale, p
      <4> QED
        BY <2>5, <3>2, Quotient
    <3> HIDE DEF sum
    <3> QED
      BY <3>1, <3>3
  <2> HIDE DEF p, scale, x, y, sum
  <2>8. new = StableY(x, y, sum * sc, amp, sc) /\ D = StableD(x, y, amp, sc)
    BY <2>6
  <2> HIDE DEF new, D
  <2>9. D # Undefined /\ new = StableRoot(D \div sc, (sum * sc) \div sc, amp * NCoins)
    BY <2>1, <2>8 DEF StableY
  <2>10. D \in Nat
    BY <2>7, <2>8, <2>9, StableDNat
  <2>11. (sum * sc) \div sc = sum
    BY <2>7, QuotientExact
  <2>12. D \div sc \in Nat
    BY <2>10, Quotient
  <2>13. PICK ann \in Nat \ {0} : ann = amp * NCoins /\ ann = 2 * AmpOf[p]
    BY <2>6 DEF NCoins
  <2>14. new = StableRoot(d, sum, ann) /\ d \in Nat
    BY <2>6, <2>9, <2>11, <2>12, <2>13
  <2> HIDE DEF d
  <2>15. /\ new >= 2 => CurveAt(new - 2, d, sum, ann) <= 0
         /\ CurveAt(new + 2, d, sum, ann) >= 0
    BY <2>1, <2>7, <2>14, RootKept
  <2> QED
    BY <2>1, <2>13, <2>15
<1> QED
  BY <1>1, RouterTypes, PTL
=============================================================================

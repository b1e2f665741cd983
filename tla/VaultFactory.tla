----------------------------- MODULE VaultFactory -----------------------------
(***************************************************************************)
(* The registry of vaults                                                   *)
(* (contracts/liquidity_hub/vault-network/vault_factory): its owner creates *)
(* one vault per asset, removes them from the list, configures and migrates *)
(* them; routers and collectors look them up.  The vaults themselves appear *)
(* with what the factory and the migrations read and write of them.         *)
(*                                                                          *)
(* CreateVault is one transaction: the message, the vault it instantiates   *)
(* with its liquidity token, and the replies.                               *)
(***************************************************************************)
EXTENDS PageWalk

CONSTANTS
  VaultFactoryAddr,  \* the address of the factory, the owner of new vaults
  Denoms,        \* assets; the bytes of a name are its key, here a number
  NoAsset,       \* the asset info that entries of old factories lack
  OldVersions,   \* versions of vaults in use before the factory is migrated
  VaultFees,     \* fees of vaults in all, in units of 1/VaultFeeUnit
  VaultFeeUnit,
  MaxVaults      \* bound on the vaults ever created

ASSUME VaultFactoryAssumption ==
  /\ Denoms \subseteq Nat \ {0} /\ IsFiniteSet(Denoms)
  /\ OldVersions \subseteq 1..120
  /\ VaultFees \subseteq Nat /\ VaultFeeUnit \in Nat \ {0}
  /\ MaxVaults \in Nat

VARIABLES
  vault_factory,     \* CONFIG, and the stored version of the factory
  vaults,            \* VAULTS: key to the vault and its asset info
  tmp_vault_asset,   \* TMP_VAULT_ASSET
  vault_contracts    \* the vaults in the order of their creation

vault_factory_vars == <<vault_factory, vaults, tmp_vault_asset, vault_contracts>>

-----------------------------------------------------------------------------
(* Versions are numbers: 113 is 1.1.3.  Up to 1.1.3 the configuration of a  *)
(* vault has no burn fee, and there is no record of burned fees.            *)
VaultVersion == 121
LayoutOfVault(version) == IF version <= 113 THEN "no_burn_fee" ELSE "burn_fee"

Readable(c) == c.layout = LayoutOfVault(c.version)

(* instantiate of the vault, with the reply of its liquidity token. *)
NewVault(denom, fees) ==
  [asset_info |-> denom, owner |-> VaultFactoryAddr, fees |-> fees,
   fee_collector |-> vault_factory.fee_collector, version |-> VaultVersion,
   layout |-> LayoutOfVault(VaultVersion)]

(* A vault of an earlier version, as the factory of that time left it. *)
OldVault(denom, version, collector) ==
  [asset_info |-> denom, owner |-> VaultFactoryAddr, fees |-> 0,
   fee_collector |-> collector, version |-> version,
   layout |-> LayoutOfVault(version)]

(* A factory just instantiated, or one of version 1.0.9 with vaults.        *)
Fresh(owner, collector) ==
  /\ vault_factory = [owner |-> owner, fee_collector |-> collector, version |-> 111]
  /\ vaults = <<>> /\ vault_contracts = <<>>

Deployed(owner, collector, denoms) ==
  /\ vault_factory = [owner |-> owner, fee_collector |-> collector, version |-> 109]
  /\ vaults = [k \in denoms |->
                 [vault |-> Place(k, denoms), asset_info |-> NoAsset]]
  /\ \E versions \in [denoms -> OldVersions] :
       vault_contracts =
         [i \in 1..Cardinality(denoms) |->
            OldVault(KeyAt(i, denoms), versions[KeyAt(i, denoms)], collector)]

VaultFactoryInit ==
  /\ \E owner \in Admins, collector \in Collectors :
       \/ Fresh(owner, collector)
       \/ \E denoms \in SUBSET Denoms :
            Cardinality(denoms) <= MaxVaults /\ Deployed(owner, collector, denoms)
  /\ tmp_vault_asset = NoAsset

-----------------------------------------------------------------------------
(* Every message is the owner's; factories of old run another program.      *)
VaultFactoryOwner(sender) ==
  vault_factory.version = 111 /\ sender = vault_factory.owner

(* TMP_VAULT_ASSET, written before the vault is instantiated. *)
TmpVaultAssetKept(denom) ==                                      \* mutant
  IF tmp_vault_asset = NoAsset THEN denom ELSE tmp_vault_asset
TmpVaultAsset(denom) == denom

(* VaultFee::is_valid, checked where the vault is instantiated or updated.  *)
ValidVaultFeesEach(fees) == fees <= VaultFeeUnit                 \* mutant
ValidVaultFees(fees) == fees < VaultFeeUnit

(* What the reply records of the vault that answers: the asset is taken     *)
(* from TMP_VAULT_ASSET.                                                    *)
VaultEntry(i, tmp) == [vault |-> i, asset_info |-> tmp]

(* create_vault, instantiate of the vault and the reply vault_instantiate.  *)
CreateVault(sender, denom, fees) ==
  /\ VaultFactoryOwner(sender)
  /\ Len(vault_contracts) < MaxVaults                           \* bound
  /\ denom \notin DOMAIN vaults                                 \* ExistingVault
  /\ ValidVaultFees(fees)
  /\ tmp_vault_asset' = TmpVaultAsset(denom)
  /\ vault_contracts' = Append(vault_contracts, NewVault(denom, fees))
  /\ vaults' = Put(vaults, tmp_vault_asset',
                    VaultEntry(Len(vault_contracts'), tmp_vault_asset'))
  /\ UNCHANGED <<vault_factory, walk>>

(* remove_vault: off the list; the vault goes on. *)
RemoveVault(sender, denom) ==
  /\ VaultFactoryOwner(sender)
  /\ denom \in DOMAIN vaults                                    \* NonExistentVault
  /\ vaults' = Drop(vaults, {denom})
  /\ Unlisted(denom)
  /\ UNCHANGED <<vault_factory, tmp_vault_asset, vault_contracts>>

(* update_vault_config, on any vault that the factory still owns. *)
UpdateVaultConfig(sender, i, owner, collector, fees) ==
  /\ VaultFactoryOwner(sender)
  /\ Readable(vault_contracts[i])
  /\ vault_contracts[i].owner = VaultFactoryAddr
  /\ ValidVaultFees(fees)
  /\ vault_contracts' =
       [vault_contracts EXCEPT ![i] =
          [@ EXCEPT !.owner = owner, !.fee_collector = collector, !.fees = fees]]
  /\ UNCHANGED <<vault_factory, vaults, tmp_vault_asset, walk>>

(* UpdateConfig: vaults that exist keep the fee collector they have.        *)
UpdateVaultFactory(sender, owner, collector) ==
  /\ VaultFactoryOwner(sender)
  /\ vault_factory' = [vault_factory EXCEPT !.owner = owner, !.fee_collector = collector]
  /\ UNCHANGED <<vaults, tmp_vault_asset, vault_contracts, walk>>

-----------------------------------------------------------------------------
(* migrate of a vault: refused unless it is older; migrate_to_v120 adds the *)
(* burn fee to configurations that have none, and fails on others.          *)
NeedsBurnFee(version) == version <= 113
CanMigrateVault(c) ==
  /\ c.version < VaultVersion
  /\ NeedsBurnFee(c.version) => c.layout = "no_burn_fee"
MigratedVault(c) ==
  [c EXCEPT !.version = VaultVersion,
            !.layout = IF NeedsBurnFee(c.version) THEN "burn_fee" ELSE @]

(* migrate_vaults with an address: any vault, listed or not. *)
MigrateVault(sender, i) ==
  /\ VaultFactoryOwner(sender)
  /\ CanMigrateVault(vault_contracts[i])
  /\ vault_contracts' = [vault_contracts EXCEPT ![i] = MigratedVault(@)]
  /\ UNCHANGED <<vault_factory, vaults, tmp_vault_asset, walk>>

(* migrate_vaults without one: the vaults of the first page, all or none.   *)
MigrateVaults(sender) ==
  LET chosen == {vaults[k].vault : k \in Taken(DOMAIN vaults, 30)} IN
  /\ VaultFactoryOwner(sender)
  /\ \A i \in chosen : CanMigrateVault(vault_contracts[i])
  /\ vault_contracts' =
       [i \in DOMAIN vault_contracts |->
          IF i \in chosen THEN MigratedVault(vault_contracts[i])
          ELSE vault_contracts[i]]
  /\ UNCHANGED <<vault_factory, vaults, tmp_vault_asset, walk>>

(* migrate of the factory: migrate_to_v110 gives entries their asset info,  *)
(* the first ten of them.                                                   *)
MigrateVaultFactory ==
  /\ vault_factory.version < 111
  /\ vault_factory' = [vault_factory EXCEPT !.version = 111]
  /\ vaults' = [k \in DOMAIN vaults |->
                  IF k \in Taken(DOMAIN vaults, 10)
                  THEN [vaults[k] EXCEPT !.asset_info = k] ELSE vaults[k]]
  /\ tmp_vault_asset' = NoAsset
  /\ UNCHANGED <<vault_contracts, walk>>

ReadVaults ==
  /\ vault_factory.version = 111
  /\ StartWalk(DOMAIN vaults) \/ \E limit \in Limits : NextPage(DOMAIN vaults, limit)
  /\ UNCHANGED vault_factory_vars

VaultFactoryNext ==
  \/ \E sender \in Admins :
       \/ \E denom \in Denoms :
            RemoveVault(sender, denom)
              \/ \E fees \in VaultFees : CreateVault(sender, denom, fees)
       \/ \E i \in DOMAIN vault_contracts :
            \/ MigrateVault(sender, i)
            \/ \E owner \in Admins \cup {VaultFactoryAddr}, collector \in Collectors,
                  fees \in VaultFees : UpdateVaultConfig(sender, i, owner, collector, fees)
       \/ \E owner \in Admins, collector \in Collectors :
            UpdateVaultFactory(sender, owner, collector)
       \/ MigrateVaults(sender)
  \/ MigrateVaultFactory
  \/ ReadVaults

-----------------------------------------------------------------------------
(* Properties *)

VaultContract ==
  [asset_info : Denoms, owner : Admins \cup {VaultFactoryAddr},
   fees : 0..(VaultFeeUnit - 1), fee_collector : Collectors,
   version : OldVersions \cup {VaultVersion}, layout : {"no_burn_fee", "burn_fee"}]

(* The shape of the state; the fees of every vault stay below the whole,    *)
(* though create_vault itself does not look at their sum.                   *)
VaultFactoryTypeOK ==
  /\ vault_factory \in [owner : Admins, fee_collector : Collectors, version : {109, 111}]
  /\ vault_contracts \in Seq(VaultContract)
  /\ DOMAIN vaults \subseteq Denoms
  /\ vaults \in [DOMAIN vaults -> [vault : 1..Len(vault_contracts),
                                  asset_info : Denoms \cup {NoAsset}]]
  /\ tmp_vault_asset \in Denoms \cup {NoAsset}

(* The vault found for an asset is a vault of that asset, and its entry     *)
(* says so, once the factory has been migrated: creation is checked by one  *)
(* message and recorded by a reply, removals and migrations come between.   *)
VaultsMatchAssets ==
  \A k \in DOMAIN vaults :
    /\ vault_contracts[vaults[k].vault].asset_info = k
    /\ vaults[k].asset_info = IF vault_factory.version = 111 THEN k ELSE NoAsset

(* Every vault can read its own configuration: whatever version it comes    *)
(* from, alone or with the others, its migration brings it into the layout  *)
(* that the program of its new version reads.                               *)
VaultsReadable == \A i \in DOMAIN vault_contracts : Readable(vault_contracts[i])
=============================================================================

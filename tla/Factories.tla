------------------------------- MODULE Factories -------------------------------
(***************************************************************************)
(* The two registries.  They keep no state in common and never call each    *)
(* other; what they share is the form of their lists, which anybody may     *)
(* read page by page.  One of them is at work in a behaviour, the other has *)
(* just been instantiated.                                                  *)
(***************************************************************************)
EXTENDS VaultFactory, PoolFactory

VARIABLE at_work    \* "vaults" or "pools"

factories_vars == <<vault_factory_vars, pool_factory_vars, walk, at_work>>

FactoriesInit ==
  /\ walk = NoWalk
  /\ \/ /\ at_work = "vaults"
        /\ VaultFactoryInit
        /\ PoolFactoryInit /\ pairs = <<>> /\ pool_factory.version = PoolFactoryVersion
     \/ /\ at_work = "pools"
        /\ PoolFactoryInit
        /\ VaultFactoryInit /\ vaults = <<>> /\ vault_factory.version = 111

FactoriesNext ==
  \/ at_work = "vaults" /\ VaultFactoryNext /\ UNCHANGED <<pool_factory_vars, at_work>>
  \/ at_work = "pools" /\ PoolFactoryNext /\ UNCHANGED <<vault_factory_vars, at_work>>

FactoriesSpec == FactoriesInit /\ [][FactoriesNext]_factories_vars

-----------------------------------------------------------------------------
(* Properties *)

(* The shape of both registries: fees of vaults below the whole, and no     *)
(* pair that burns a token of a token factory.                              *)
FactoriesTypeOK == VaultFactoryTypeOK /\ PoolFactoryTypeOK

(* A vault of any version can read its storage once it is migrated, alone   *)
(* or with others; so can a pair, unless it comes from 1.0.4 or earlier and *)
(* the migration has left it behind.                                        *)
ContractsReadable == VaultsReadable /\ PairContractsReadable
=============================================================================

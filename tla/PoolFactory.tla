------------------------------ MODULE PoolFactory ------------------------------
(***************************************************************************)
(* The registry of pairs                                                    *)
(* (contracts/liquidity_hub/pool-network/terraswap_factory): its owner      *)
(* creates one pair per two assets, removes pairs from the list, configures *)
(* and migrates them; the router and the fee collector look them up.  The   *)
(* pairs appear with what the factory and the migrations read and write of  *)
(* them.                                                                    *)
(*                                                                          *)
(* CreatePair is one transaction: the message, the pair it instantiates     *)
(* with its liquidity token, and the replies.                               *)
(***************************************************************************)
EXTENDS PageWalk

CONSTANTS
  PoolFactoryAddr,  \* the address of the factory, the owner of new pairs
  Tokens,           \* assets; the bytes of a name, here a number below Base
  Base,             \* names are of one length: see PairKey
  FormOf,           \* the form of a token's name
  Decimals,         \* decimals that native tokens are listed with
  Cw20Decimals,     \* the decimals that every cw20 token answers
  Verified,         \* native tokens that the factory has a coin of
  PairTypes,        \* ConstantProduct and StableSwap
  OldPairVersions,  \* versions of pairs in use before the factory's migration
  MaxPairs          \* bound on the pairs ever created

ASSUME PoolFactoryAssumption ==
  /\ Base \in Nat /\ Tokens \subseteq 1..(Base - 1)
  /\ FormOf \in [Tokens -> {"cw20", "plain", "ibc", "factory", "short_factory", "path"}]
  /\ Decimals \subseteq Nat /\ Cw20Decimals \in Nat
  /\ Verified \subseteq {t \in Tokens : FormOf[t] # "cw20"}
  /\ "ConstantProduct" \in PairTypes
  /\ OldPairVersions \subseteq {104, 110, 120}
  /\ MaxPairs \in Nat

VARIABLES
  pool_factory,         \* CONFIG, and the stored version of the factory
  allow_native_tokens,  \* ALLOW_NATIVE_TOKENS: decimals of the native tokens
  pairs,                \* PAIRS: key to the pair and what is known of it
  tmp_pair_info,        \* TMP_PAIR_INFO
  pair_contracts        \* the pairs in the order of their creation

pool_factory_vars ==
  <<pool_factory, allow_native_tokens, pairs, tmp_pair_info, pair_contracts>>

NoPairInfo == [pair_key |-> 0]

-----------------------------------------------------------------------------
(* Names and keys *)

(* pair_key: both names one after the other, the smaller one first, with    *)
(* nothing between them.                                                    *)
PairKey(a, b) == IF a <= b THEN a * Base + b ELSE b * Base + a

Keys == {PairKey(p[1], p[2]) : p \in {q \in Tokens \X Tokens : q[1] # q[2]}}

(* is_factory_token takes every name of three parts for one, and every name *)
(* that begins with "factory"; only "factory", a creator and a subdenom can *)
(* be given a label (get_factory_token_label).                              *)
IsFactoryToken(t) == FormOf[t] \in {"factory", "short_factory", "path"}
HasLabel(t) == IsFactoryToken(t) => FormOf[t] = "factory"

(* query_decimals: of a native token only when it has been listed. *)
KnownDecimals(t) == FormOf[t] = "cw20" \/ t \in DOMAIN allow_native_tokens
DecimalsOf(t) == IF FormOf[t] = "cw20" THEN Cw20Decimals ELSE allow_native_tokens[t]

-----------------------------------------------------------------------------
(* Layouts of what pairs and the factory have stored, by version: 110 is    *)
(* 1.1.0.                                                                   *)
PairVersion == 130
PoolFactoryVersion == 120

InfoOf(version) ==
  IF version <= 104 THEN "pascal_case" ELSE IF version < 130 THEN "untyped_lp" ELSE "typed_lp"
PairConfigOf(version) == IF version < 120 THEN "no_burn_fee" ELSE "burn_fee"

PairReadable(c) == c.info = InfoOf(c.version) /\ c.config = PairConfigOf(c.version)
EntryReadable(key) == pairs[key].liquidity_token # "untyped"

(* instantiate of the pair, and the reply of its liquidity token. *)
NewPair(asset_infos, decimals, pair_type, lp, burns) ==
  [asset_infos |-> asset_infos, asset_decimals |-> decimals, pair_type |-> pair_type,
   liquidity_token |-> lp, burns |-> burns, owner |-> PoolFactoryAddr,
   fee_collector |-> pool_factory.fee_collector, version |-> PairVersion,
   info |-> InfoOf(PairVersion), config |-> PairConfigOf(PairVersion)]

(* A pair and its entry as earlier versions left them. *)
OldPair(key, version, collector) ==
  [asset_infos |-> <<key \div Base, key % Base>>,
   asset_decimals |-> <<Cw20Decimals, Cw20Decimals>>, pair_type |-> "ConstantProduct",
   liquidity_token |-> "cw20", burns |-> FALSE, owner |-> PoolFactoryAddr,
   fee_collector |-> collector, version |-> version,
   info |-> InfoOf(version), config |-> PairConfigOf(version)]
OldEntry(key, i) ==
  [contract |-> i, asset_infos |-> <<key \div Base, key % Base>>,
   asset_decimals |-> <<Cw20Decimals, Cw20Decimals>>, pair_type |-> "ConstantProduct",
   liquidity_token |-> "untyped"]

(* A factory just instantiated, or one of version 1.1.0 with pairs of cw20  *)
(* tokens.                                                                  *)
NewPoolFactory(owner, collector) ==
  /\ pool_factory = [owner |-> owner, fee_collector |-> collector,
                     version |-> PoolFactoryVersion]
  /\ pairs = <<>> /\ pair_contracts = <<>>

DeployedPools(owner, collector, keys) ==
  /\ pool_factory = [owner |-> owner, fee_collector |-> collector, version |-> 110]
  /\ pairs = [k \in keys |-> OldEntry(k, Place(k, keys))]
  /\ \E versions \in [keys -> OldPairVersions] :
       pair_contracts =
         [i \in 1..Cardinality(keys) |->
            OldPair(KeyAt(i, keys), versions[KeyAt(i, keys)], collector)]

PoolFactoryInit ==
  /\ \E owner \in Admins, collector \in Collectors :
       \/ NewPoolFactory(owner, collector)
       \/ \E keys \in SUBSET {PairKey(p[1], p[2]) : p \in
            {q \in Tokens \X Tokens :
               q[1] # q[2] /\ FormOf[q[1]] = "cw20" /\ FormOf[q[2]] = "cw20"}} :
            Cardinality(keys) <= MaxPairs /\ DeployedPools(owner, collector, keys)
  /\ allow_native_tokens = <<>>
  /\ tmp_pair_info = NoPairInfo

-----------------------------------------------------------------------------
(* Messages of the owner *)

(* Every message is the owner's; factories of old run another program.      *)
PoolFactoryOwner(sender) ==
  pool_factory.version = PoolFactoryVersion /\ sender = pool_factory.owner

(* TMP_PAIR_INFO, written before the pair is instantiated. *)
TmpPairInfoSorted(asset_infos, decimals, pair_type) ==           \* mutant
  [pair_key |-> PairKey(asset_infos[1], asset_infos[2]),
   asset_infos |-> SortSeq(asset_infos, <), asset_decimals |-> decimals,
   pair_type |-> pair_type]
TmpPairInfo(asset_infos, decimals, pair_type) ==
  [pair_key |-> PairKey(asset_infos[1], asset_infos[2]), asset_infos |-> asset_infos,
   asset_decimals |-> decimals, pair_type |-> pair_type]

(* Pairs with a token of a token factory burn nothing, from the beginning   *)
(* and when they are configured.                                            *)
MayBurn(asset_infos) == \A i \in 1..2 : ~IsFactoryToken(asset_infos[i])

(* What the reply records of the pair: TMP_PAIR_INFO, and the liquidity     *)
(* token that the pair answers with.                                        *)
PairEntry(i, c, tmp) ==
  [contract |-> i, asset_infos |-> tmp.asset_infos,
   asset_decimals |-> tmp.asset_decimals, pair_type |-> tmp.pair_type,
   liquidity_token |-> c.liquidity_token]

(* create_pair, instantiate of the pair, and both replies.  An entry that   *)
(* cannot be read counts as none.                                           *)
CreatePair(sender, asset_infos, pair_type, lp, burns) ==
  LET key == PairKey(asset_infos[1], asset_infos[2])
      decimals == [i \in 1..2 |-> DecimalsOf(asset_infos[i])]
      i == Len(pair_contracts) + 1 IN
  /\ PoolFactoryOwner(sender)
  /\ i <= MaxPairs                                              \* bound
  /\ asset_infos[1] # asset_infos[2]                            \* SameAsset
  /\ \A t \in ToSet(asset_infos) : KnownDecimals(t) /\ HasLabel(t)
  /\ ~(key \in DOMAIN pairs /\ EntryReadable(key))              \* ExistingPair
  /\ burns => MayBurn(asset_infos)
  /\ tmp_pair_info' = TmpPairInfo(asset_infos, decimals, pair_type)
  /\ pair_contracts' =
       Append(pair_contracts, NewPair(asset_infos, decimals, pair_type, lp, burns))
  /\ pairs' = Put(pairs, tmp_pair_info'.pair_key,
                   PairEntry(i, pair_contracts'[i], tmp_pair_info'))
  /\ UNCHANGED <<pool_factory, allow_native_tokens, walk>>

(* remove_pair: off the list; the pair goes on. *)
RemovePair(sender, a, b) ==
  LET key == PairKey(a, b) IN
  /\ PoolFactoryOwner(sender)
  /\ key \in DOMAIN pairs                                       \* UnExistingPair
  /\ EntryReadable(key)
  /\ pairs' = Drop(pairs, {key})
  /\ Unlisted(key)
  /\ UNCHANGED <<pool_factory, allow_native_tokens, tmp_pair_info, pair_contracts>>

(* add_native_token_decimals: pairs that exist keep the decimals they have. *)
AddNativeTokenDecimals(sender, t, decimals) ==
  /\ PoolFactoryOwner(sender)
  /\ t \in Verified                               \* InvalidVerificationBalance
  /\ allow_native_tokens' = Put(allow_native_tokens, t, decimals)
  /\ UNCHANGED <<pool_factory, pairs, tmp_pair_info, pair_contracts, walk>>

(* update_pair_config, on any pair that the factory still owns. *)
UpdatePairConfig(sender, i, owner, collector, burns) ==
  /\ PoolFactoryOwner(sender)
  /\ PairReadable(pair_contracts[i])
  /\ pair_contracts[i].owner = PoolFactoryAddr
  /\ burns => MayBurn(pair_contracts[i].asset_infos)
  /\ pair_contracts' =
       [pair_contracts EXCEPT ![i] =
          [@ EXCEPT !.owner = owner, !.fee_collector = collector, !.burns = burns]]
  /\ UNCHANGED <<pool_factory, allow_native_tokens, pairs, tmp_pair_info, walk>>

(* update_config: pairs that exist keep the fee collector they have.        *)
UpdatePoolFactory(sender, owner, collector) ==
  /\ PoolFactoryOwner(sender)
  /\ pool_factory' = [pool_factory EXCEPT !.owner = owner, !.fee_collector = collector]
  /\ UNCHANGED <<allow_native_tokens, pairs, tmp_pair_info, pair_contracts, walk>>

-----------------------------------------------------------------------------
(* Migrations *)

(* migrate of a pair, refused unless it is older.  Up to 1.0.4 only the     *)
(* names of fields change; from 1.1.0 the burn fee is added and then the    *)
(* pair info is loaded as the newest layout, which fails; from 1.2.0 the    *)
(* liquidity token gets its type.                                           *)
CanMigratePair(c) ==
  /\ c.version < PairVersion
  /\ c.version = 110 => c.info = InfoOf(PairVersion)
InfoUnchanged(c) == c.info                                       \* mutant
MigratedInfo(c) ==
  IF c.version <= 104 THEN "untyped_lp" ELSE IF c.version = 120 THEN "typed_lp" ELSE c.info
MigratedPair(c) ==
  [c EXCEPT !.version = PairVersion, !.info = MigratedInfo(c),
            !.config = IF c.version = 110 THEN "burn_fee" ELSE @]

(* execute_migrate_pair: any pair, listed or not. *)
MigratePair(sender, i) ==
  /\ PoolFactoryOwner(sender)
  /\ CanMigratePair(pair_contracts[i])
  /\ pair_contracts' = [pair_contracts EXCEPT ![i] = MigratedPair(@)]
  /\ UNCHANGED <<pool_factory, allow_native_tokens, pairs, tmp_pair_info, walk>>

(* migrate of the factory, from 1.1.0: entries get the type of the pair;    *)
(* their liquidity token stays the bare address it was.                     *)
MigratePoolFactory ==
  /\ pool_factory.version < PoolFactoryVersion
  /\ pool_factory' = [pool_factory EXCEPT !.version = PoolFactoryVersion]
  /\ pairs' = [k \in DOMAIN pairs |-> [pairs[k] EXCEPT !.pair_type = "ConstantProduct"]]
  /\ UNCHANGED <<allow_native_tokens, tmp_pair_info, pair_contracts, walk>>

(* read_pairs: a page with an entry that cannot be read is not answered.    *)
ReadPairs ==
  /\ pool_factory.version = PoolFactoryVersion
  /\ \/ StartWalk(DOMAIN pairs)
     \/ \E limit \in Limits :
          /\ \A k \in Page(DOMAIN pairs, walk.start_after, limit) : EntryReadable(k)
          /\ NextPage(DOMAIN pairs, limit)
  /\ UNCHANGED pool_factory_vars

PoolFactoryNext ==
  \/ \E sender \in Admins :
       \/ \E a, b \in Tokens :
            \/ RemovePair(sender, a, b)
            \/ \E pair_type \in PairTypes, lp \in {"cw20", "native"}, burns \in BOOLEAN :
                 CreatePair(sender, <<a, b>>, pair_type, lp, burns)
       \/ \E t \in Tokens, d \in Decimals : AddNativeTokenDecimals(sender, t, d)
       \/ \E i \in DOMAIN pair_contracts :
            \/ MigratePair(sender, i)
            \/ \E owner \in Admins \cup {PoolFactoryAddr}, collector \in Collectors,
                  burns \in BOOLEAN : UpdatePairConfig(sender, i, owner, collector, burns)
       \/ \E owner \in Admins, collector \in Collectors :
            UpdatePoolFactory(sender, owner, collector)
  \/ MigratePoolFactory
  \/ ReadPairs

-----------------------------------------------------------------------------
(* Properties *)

PairContract ==
  [asset_infos : Tokens \X Tokens, asset_decimals : Nat \X Nat, pair_type : PairTypes,
   liquidity_token : {"cw20", "native"}, burns : BOOLEAN,
   owner : Admins \cup {PoolFactoryAddr}, fee_collector : Collectors,
   version : OldPairVersions \cup {PairVersion},
   info : {"pascal_case", "untyped_lp", "typed_lp"}, config : {"no_burn_fee", "burn_fee"}]
PairListEntry ==
  [contract : 1..Len(pair_contracts), asset_infos : Tokens \X Tokens,
   asset_decimals : Nat \X Nat, pair_type : PairTypes,
   liquidity_token : {"untyped", "cw20", "native"}]

(* The shape of the state; no pair burns a token of a token factory.        *)
PoolFactoryTypeOK ==
  /\ pool_factory \in [owner : Admins, fee_collector : Collectors,
                       version : {110, PoolFactoryVersion}]
  /\ DOMAIN allow_native_tokens \subseteq Verified
  /\ allow_native_tokens \in [DOMAIN allow_native_tokens -> Nat]
  /\ pair_contracts \in Seq(PairContract)
  /\ \A i \in DOMAIN pair_contracts : pair_contracts[i].burns =>
       \A j \in 1..2 : FormOf[pair_contracts[i].asset_infos[j]] # "factory"
  /\ DOMAIN pairs \subseteq Keys
  /\ pairs \in [DOMAIN pairs -> PairListEntry]

(* Looking up two assets, in whatever order, finds a pair of these two, and *)
(* its entry says the same as the pair itself, each decimal at its asset,   *)
(* though the entry is put together from what the message noted and what    *)
(* the reply asked the pair; and it is the only one listed for the two,     *)
(* however they were ordered and whatever was removed and created before.   *)
PairsAgree ==
  /\ \A a, b \in Tokens : PairKey(a, b) \in DOMAIN pairs =>
       LET entry == pairs[PairKey(a, b)]
           c == pair_contracts[entry.contract] IN
       /\ ToSet(entry.asset_infos) = {a, b}
       /\ entry.asset_infos = c.asset_infos
       /\ entry.asset_decimals = c.asset_decimals
       /\ entry.pair_type = c.pair_type
       /\ EntryReadable(PairKey(a, b)) => entry.liquidity_token = c.liquidity_token
  /\ \A k1, k2 \in DOMAIN pairs :
       ToSet(pairs[k1].asset_infos) = ToSet(pairs[k2].asset_infos) => k1 = k2

(* What the migration makes of a pair of version 1.0.4 or earlier: only the *)
(* first of the three migrations is run, but the newest version recorded.   *)
(* The pair info has no type of the liquidity token and the config no burn  *)
(* fee, so that the pair can read neither; nor can it be migrated again.    *)
LeftBehind(c) ==
  c.version = PairVersion /\ c.info = "untyped_lp" /\ c.config = "no_burn_fee"

(* A pair can read what it has stored, before and after its migration; the  *)
(* pairs of 1.0.4 and earlier are the exception, and left behind in exactly *)
(* one way.  (A pair of 1.1.0 stays readable because its migration always   *)
(* fails: see CanMigratePair.)                                              *)
PairContractsReadable ==
  \A i \in DOMAIN pair_contracts :
    PairReadable(pair_contracts[i]) \/ LeftBehind(pair_contracts[i])

(* A listed pair that has been migrated, in a factory that has been, can be *)
(* looked up or can at least read what it has itself stored.                *)
PairsReadable ==
  pool_factory.version = PoolFactoryVersion =>
    \A k \in DOMAIN pairs :
      LET c == pair_contracts[pairs[k].contract] IN
      c.version = PairVersion => EntryReadable(k) \/ PairReadable(c)
=============================================================================

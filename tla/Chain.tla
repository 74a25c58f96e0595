--------------------------------- MODULE Chain ---------------------------------
(***************************************************************************)
(* The chain of petri/cosmos/chain: how CreateChain, Init, Serialize and   *)
(* RestoreChain turn a set of nodes into a running network.                *)
(*                                                                         *)
(* The main goroutine ("pc") runs the phases one after the other.  In a    *)
(* parallel phase every node has a goroutine of its own in an errgroup     *)
(* without a context: Wait waits for all of them, also after an error.  The*)
(* nodes' files are what the phases exchange: a phase reads on one node    *)
(* what an earlier one wrote on another, and only the barriers between the *)
(* phases make that safe.                                                  *)
(*                                                                         *)
(* The chain's binary (init, keys add, add-genesis-account, gentx,         *)
(* collect-gentxs) and the consensus of the network are external.          *)
(***************************************************************************)
EXTENDS Naturals, FiniteSets, Sequences

CONSTANTS
    Validators,     \* the validators of the configuration
    FullNodes,      \* its other nodes
    Configs         \* the chain configurations a chain may be created with

Nodes == Validators \cup FullNodes

ASSUME ValidatorsAssumption ==
    Validators # {} /\ Validators \cap FullNodes = {} /\ IsFiniteSet(Nodes)

\* Nodes are named after their index: neither the faucet nor an empty place of a slice is one.
ASSUME NamesAssumption == Nodes \cap {"faucet", "none"} = {}

\* The keys of config.toml that the phases write; others are not told apart.
TomlKeys == {"external_address", "timeout_commit", "persistent_peers", "seeds", "seed_mode",
             "bootstrap_peers"}

\* The custom consensus settings are a map over any keys, these ones included.
ASSUME ConfigsAssumption ==
    Configs \subseteq [seed : BOOLEAN, persistent : BOOLEAN, libp2p : BOOLEAN, evm : BOOLEAN,
                       extra : Nat, mnemonic : BOOLEAN, custom : SUBSET TomlKeys]

VARIABLES
    cfg,        \* the configuration
    ctxDone,    \* the activity's context is done
    pc,         \* the phase of the main goroutine
    g,          \* per node, the step of its goroutine in this phase
    vals,       \* chain.Validators
    fulls,      \* chain.Nodes
    wallets,    \* chain.ValidatorWallets: whose key each wallet is
    copied,     \* the validators whose gentx the first one has
    keys,       \* per node, the keys of its keyring
    inited,     \* nodes whose home directory is initialised: they have a node key
    gentxs,     \* per node, the gentx files in its home directory
    genesis,    \* per node, its genesis file
    genbz,      \* the genesis file Init distributes
    toml,       \* per node, its config.toml
    up,         \* nodes that were started
    height,     \* whether the network has produced a block
    saved       \* the serialised chain

chainVars == <<vals, fulls, wallets>>
fileVars == <<keys, inited, gentxs, genesis, toml>>
vars == <<cfg, ctxDone, pc, g, chainVars, copied, fileVars, genbz, up, height, saved>>

Accounts == Validators \cup {"faucet"}

\* The unscaled genesis amounts of constructChainConfig and their defaults.  On an EVM chain
\* both are the one big.Int that Mul has updated in place.
EvmUnit == 10
GenesisBalance(c) == IF c.evm THEN EvmUnit * (Cardinality(Validators) + 2) ELSE 100
GenesisDelegation(c) == IF c.evm THEN GenesisBalance(c) ELSE 5

NoGenesis == [accounts |-> {}, extra |-> {}, supply |-> 0, gentxs |-> {}, modified |-> FALSE]
NoToml == [external_address |-> "", timeout_commit |-> "init", persistent_peers |-> <<>>,
           seeds |-> <<>>, seed_mode |-> FALSE, bootstrap_peers |-> <<>>]
NoSave == [vals |-> <<>>, fulls |-> <<>>, wallets |-> <<>>]
Unset == "none"

\* A goroutine's step: a number while it runs.
Waiting == 0
OK == 10
Err == 11
Over(n) == g[n] \in {OK, Err}

First == vals[1]
Members(s) == {s[i] : i \in DOMAIN s}

Init ==
    /\ cfg \in Configs
    /\ ctxDone = FALSE
    /\ pc = "create"
    /\ g = [n \in Nodes |-> 1]
    /\ vals = <<>>
    /\ fulls = <<>>
    /\ wallets = <<>>
    /\ copied = 0
    /\ keys = [n \in Nodes |-> {}]
    /\ inited = {}
    /\ gentxs = [n \in Nodes |-> {}]
    /\ genesis = [n \in Nodes |-> NoGenesis]
    /\ genbz = NoGenesis
    /\ toml = [n \in Nodes |-> NoToml]
    /\ up = {}
    /\ height = 0
    /\ saved = NoSave

-------------------------------------------------------------------------------
(* Phases *)

\* A goroutine's call succeeds and it is at its next step.
Advance(n, step) == g' = [g EXCEPT ![n] = step]

\* A call of a goroutine fails: the goroutine returns the error.
GoroutineFails(n) ==
    /\ pc \in {"create", "setup", "accounts", "configure", "start", "restore"}
    /\ ~Over(n) /\ g[n] # Waiting
    /\ Advance(n, Err)
    /\ UNCHANGED <<cfg, ctxDone, pc, chainVars, copied, fileVars, genbz, up, height, saved>>

\* eg.Go for the nodes of a phase; the others take no part.
Spawn(S) == g' = [n \in Nodes |-> IF n \in S THEN 1 ELSE OK]

\* eg.Wait: all goroutines are over; the first error is returned.
Wait(phase, next, S) ==
    /\ pc = phase
    /\ \A n \in Nodes : Over(n)
    /\ IF \E n \in Nodes : g[n] = Err
         THEN pc' = "failed" /\ UNCHANGED g
         ELSE pc' = next /\ Spawn(S)

\* A call of the main goroutine fails.
Fails ==
    /\ pc \in {"faucet", "copy", "script", "read", "seedMode"}
    /\ pc' = "failed"
    /\ UNCHANGED <<cfg, ctxDone, g, chainVars, copied, fileVars, genbz, up, height, saved>>

-------------------------------------------------------------------------------
(* CreateChain *)

\* NodeCreator answers for a validator or a node: it is appended under the lock, in the
\* order of the answers and not of the configuration.
CreateNode(n) ==
    /\ pc = "create"
    /\ g[n] = 1
    /\ Advance(n, OK)
    /\ IF n \in Validators THEN vals' = Append(vals, n) /\ UNCHANGED fulls
                           ELSE fulls' = Append(fulls, n) /\ UNCHANGED vals
    /\ UNCHANGED <<cfg, ctxDone, pc, wallets, copied, fileVars, genbz, up, height, saved>>

CreateChain ==
    /\ Wait("create", "setup", Nodes)
    /\ wallets' = [i \in DOMAIN vals |-> Unset]
    /\ UNCHANGED <<cfg, ctxDone, vals, fulls, copied, fileVars, genbz, up, height, saved>>

-------------------------------------------------------------------------------
(* Init: SetupValidator and SetupNode *)

\* CreateWallet: the key is recovered into the keyring; the exit code is not looked at.
CreateWallet(n) ==
    /\ pc = "setup"
    /\ n \in Validators
    /\ g[n] = 1
    /\ Advance(n, 2)
    /\ keys' \in {keys, [keys EXCEPT ![n] = @ \cup {n}]}
    /\ UNCHANGED <<cfg, ctxDone, pc, chainVars, copied, inited, gentxs, genesis, genbz, toml, up,
                   height, saved>>

\* The binary's init: a node key, an empty genesis and default config files.
InitHome(n) ==
    /\ pc = "setup"
    /\ g[n] = (IF n \in Validators THEN 2 ELSE 1)
    /\ Advance(n, 3)
    /\ inited' = inited \cup {n}
    /\ UNCHANGED <<cfg, ctxDone, pc, chainVars, copied, keys, gentxs, genesis, genbz, toml, up,
                   height, saved>>

\* client.toml gets the chain id; a full node is set up then.
SetClientConfig(n) ==
    /\ pc = "setup"
    /\ g[n] = 3
    /\ Advance(n, IF n \in Validators THEN 4 ELSE OK)
    /\ UNCHANGED <<cfg, ctxDone, pc, chainVars, copied, fileVars, genbz, up, height, saved>>

Fund(gen, S, c) ==
    [gen EXCEPT !.accounts = @ \cup S, !.supply = @ + Cardinality(S) * GenesisBalance(c)]

\* Mutant: wallets are appended in the order the goroutines end.
RunGenesisScriptAppends(n) ==
    /\ pc = "setup"
    /\ n \in Validators
    /\ g[n] = 4
    /\ n \in keys[n]
    /\ Advance(n, OK)
    /\ wallets' = LET i == CHOOSE i \in DOMAIN wallets :
                              wallets[i] = Unset /\ \A j \in 1 .. (i - 1) : wallets[j] # Unset
                  IN  [wallets EXCEPT ![i] = n]
    /\ genesis' = [genesis EXCEPT ![n] = Fund(@, {n}, cfg)]
    /\ gentxs' = [gentxs EXCEPT ![n] = @ \cup {n}]
    /\ UNCHANGED <<cfg, ctxDone, pc, vals, fulls, copied, keys, inited, genbz, toml, up, height,
                   saved>>

\* The genesis script of a validator: its account, then its gentx, which needs the key and
\* a balance that covers the delegation.  The wallet is stored at the validator's index.
RunGenesisScript(n) ==
    /\ pc = "setup"
    /\ n \in Validators
    /\ g[n] = 4
    /\ n \in keys[n]
    /\ GenesisDelegation(cfg) <= GenesisBalance(cfg)
    /\ Advance(n, OK)
    /\ wallets' = [i \in DOMAIN vals |-> IF vals[i] = n THEN n ELSE wallets[i]]
    /\ genesis' = [genesis EXCEPT ![n] = Fund(@, {n}, cfg)]
    /\ gentxs' = [gentxs EXCEPT ![n] = @ \cup {n}]
    /\ UNCHANGED <<cfg, ctxDone, pc, vals, fulls, copied, keys, inited, genbz, toml, up, height,
                   saved>>

SetupDone ==
    /\ Wait("setup", "faucet", {})
    /\ UNCHANGED <<cfg, ctxDone, chainVars, copied, fileVars, genbz, up, height, saved>>

-------------------------------------------------------------------------------
(* Init: genesis *)

\* GetFullNode: any full node, or any validator if there is none.
GetFullNode == IF fulls # <<>> THEN Members(fulls) ELSE Members(vals)

\* BuildWallet of the faucet in the keyring of such a node.
BuildWallet ==
    /\ pc = "faucet"
    /\ \E n \in GetFullNode :
         keys' \in {keys, [keys EXCEPT ![n] = @ \cup {"faucet"}]}
    /\ pc' = "copy"
    /\ copied' = 1
    /\ UNCHANGED <<cfg, ctxDone, g, chainVars, inited, gentxs, genesis, genbz, toml, up, height,
                   saved>>

\* CopyGenTx of the next validator into the first one.
CopyGenTx ==
    /\ pc = "copy"
    /\ copied < Len(vals)
    /\ LET v == vals[copied + 1] IN
         /\ v \in inited
         /\ v \in gentxs[v]
         /\ gentxs' = [gentxs EXCEPT ![First] = @ \cup {v}]
    /\ copied' = copied + 1
    /\ UNCHANGED <<cfg, ctxDone, pc, g, chainVars, keys, inited, genesis, genbz, toml, up, height,
                   saved>>

CopiedAll ==
    /\ pc = "copy"
    /\ copied = Len(vals)
    /\ pc' = "script"
    /\ UNCHANGED <<cfg, ctxDone, g, chainVars, copied, fileVars, genbz, up, height, saved>>

\* The script on the first validator: the accounts of the faucet and of the other
\* validators, which must be new, then collect-gentxs, which needs them all.
executeGenesisOperations ==
    /\ pc = "script"
    /\ LET added == {"faucet"} \cup {wallets[i] : i \in 2 .. Len(vals)}
           funded == Fund(genesis[First], added, cfg)
       IN  /\ added \cap genesis[First].accounts = {}
           /\ gentxs[First] \subseteq funded.accounts
           /\ genesis' = [genesis EXCEPT ![First] = [funded EXCEPT !.gentxs = gentxs[First]]]
    /\ IF cfg.extra = 0 THEN pc' = "read" /\ UNCHANGED g
       ELSE IF ~cfg.mnemonic THEN pc' = "failed" /\ UNCHANGED g
       ELSE pc' = "accounts" /\ Spawn(Validators)
    /\ UNCHANGED <<cfg, ctxDone, chainVars, copied, keys, inited, gentxs, genbz, toml, up, height,
                   saved>>

\* buildAccounts: the additional accounts by account number, which start after those of the
\* faucet and the validators.
buildAccounts(c) == {Cardinality(Validators) + i : i \in 1 .. c.extra}

\* UpdateGenesisAccounts appends the accounts, UpdateGenesisBalances their balances, and adds
\* what those hold to the supply.
UpdateGenesisAccounts(gen, c) == [gen EXCEPT !.extra = @ \cup buildAccounts(c)]

\* Mutant: the supply is not updated.
UpdateGenesisBalancesOnly(gen, c) == gen

UpdateGenesisBalances(gen, c) ==
    [gen EXCEPT !.supply = @ + c.extra * GenesisBalance(c)]

\* Each validator's own genesis file gets the additional accounts.
AddAccounts(n) ==
    /\ pc = "accounts"
    /\ g[n] = 1
    /\ Advance(n, OK)
    /\ genesis' = [genesis EXCEPT ![n] = UpdateGenesisBalances(UpdateGenesisAccounts(@, cfg), cfg)]
    /\ UNCHANGED <<cfg, ctxDone, pc, chainVars, copied, keys, inited, gentxs, genbz, toml, up,
                   height, saved>>

AccountsDone ==
    /\ Wait("accounts", "read", {})
    /\ UNCHANGED <<cfg, ctxDone, chainVars, copied, fileVars, genbz, up, height, saved>>

\* ModifyGenesis sets the paths of the configured key-value pairs.
ModifyGenesis(gen) == [gen EXCEPT !.modified = TRUE]

\* The genesis file of the first validator is read and modified; a seed needs a full node.
ReadGenesis ==
    /\ pc = "read"
    /\ genbz' = ModifyGenesis(genesis[First])
    /\ IF cfg.seed /\ fulls = <<>>
         THEN pc' = "failed" /\ UNCHANGED g
         ELSE pc' = "configure" /\ Spawn(Nodes)
    /\ UNCHANGED <<cfg, ctxDone, chainVars, copied, fileVars, up, height, saved>>

-------------------------------------------------------------------------------
(* Init: configureNode *)

Seeds == IF cfg.seed THEN <<fulls[1]>> ELSE <<>>
PersistentPeers == IF cfg.persistent THEN fulls \o vals ELSE <<>>

\* recursiveModifyToml: a modified path is overwritten or added, every other one is kept.
recursiveModifyToml(c, m) ==
    [k \in DOMAIN c \cup DOMAIN m |-> IF k \in DOMAIN m THEN m[k] ELSE c[k]]

\* nodeKey: the key file is there once the home directory is initialised.
nodeKey(n) == n \in inited

\* AsCometPeerString and AsLibP2PBootstrapPeers read the node key of every peer.
Resolvable(peers) == \A n \in Members(peers) : nodeKey(n)

\* composeLibP2PBootstrapPeers: the seeds, then the persistent peers.
composeLibP2PBootstrapPeers == Seeds \o PersistentPeers

GenerateDefaultConsensusConfig(n) == [external_address |-> n, timeout_commit |-> "default"]

\* A custom value is none of the program's; a seed mode that is set to false is as if not set.
CustomConfig ==
    [k \in cfg.custom |-> CASE k \in {"timeout_commit", "external_address"} -> "custom"
                            [] k = "seed_mode" -> TRUE
                            [] OTHER -> <<"custom">>]

OverwriteGenesisFile(n) ==
    /\ pc = "configure"
    /\ g[n] = 1
    /\ Advance(n, 2)
    /\ genesis' = [genesis EXCEPT ![n] = genbz]
    /\ UNCHANGED <<cfg, ctxDone, pc, chainVars, copied, keys, inited, gentxs, genbz, toml, up,
                   height, saved>>

ModifyToml(n, m, next) ==
    /\ toml' = [toml EXCEPT ![n] = recursiveModifyToml(@, m)]
    /\ Advance(n, next)
    /\ UNCHANGED <<cfg, ctxDone, pc, chainVars, copied, keys, inited, gentxs, genesis, genbz, up,
                   height, saved>>

\* SetChainConfigs: the defaults.
SetChainConfigs(n) ==
    /\ pc = "configure"
    /\ g[n] = 2
    /\ ModifyToml(n, GenerateDefaultConsensusConfig(n), 3)

\* Mutant: what is set already wins over the custom settings.
ApplyCustomConfigsMissing(n) ==
    /\ pc = "configure"
    /\ g[n] = 3
    /\ ModifyToml(n, [k \in {} |-> ""], 4)

\* ApplyCustomConfigs, its last step.
ApplyCustomConfigs(n) ==
    /\ pc = "configure"
    /\ g[n] = 3
    /\ ModifyToml(n, CustomConfig, 4)

\* The peers are written also when there are none.
SetPersistentPeers(n) ==
    /\ pc = "configure"
    /\ g[n] = 4
    /\ Resolvable(PersistentPeers)
    /\ ModifyToml(n, [persistent_peers |-> PersistentPeers], 5)

SetSeedNode(n) ==
    /\ pc = "configure"
    /\ g[n] = 5
    /\ Resolvable(Seeds)
    /\ ModifyToml(n, [seeds |-> Seeds], IF cfg.libp2p THEN 6 ELSE OK)

SetLibP2PBootstrapPeers(n) ==
    /\ pc = "configure"
    /\ g[n] = 6
    /\ Resolvable(composeLibP2PBootstrapPeers)
    /\ ModifyToml(n, [bootstrap_peers |-> composeLibP2PBootstrapPeers], OK)

\* configureNode, the steps of a node's goroutine in this phase.
configureNode(n) ==
    \/ OverwriteGenesisFile(n) \/ SetChainConfigs(n) \/ ApplyCustomConfigs(n)
    \/ SetPersistentPeers(n) \/ SetSeedNode(n) \/ SetLibP2PBootstrapPeers(n)

\* Mutant: the nodes are started as soon as one of them is configured.
ConfigureDoneEarly ==
    /\ pc = "configure"
    /\ \E n \in Nodes : /\ Over(n)
                        /\ pc' = IF g[n] = Err THEN "failed" ELSE "start"
    /\ Spawn(Nodes)
    /\ UNCHANGED <<cfg, ctxDone, chainVars, copied, fileVars, genbz, up, height, saved>>

\* The barrier before the start; the seed node's mode is set in between.
ConfigureDone ==
    /\ IF cfg.seed THEN Wait("configure", "seedMode", {}) ELSE Wait("configure", "start", Nodes)
    /\ UNCHANGED <<cfg, ctxDone, chainVars, copied, fileVars, genbz, up, height, saved>>

\* Mutant: the seed node keeps its seeds.
SetSeedModeOnly ==
    /\ pc = "seedMode"
    /\ toml' = [toml EXCEPT ![fulls[1]] = recursiveModifyToml(@, [seed_mode |-> TRUE])]
    /\ pc' = "start"
    /\ Spawn(Nodes)
    /\ UNCHANGED <<cfg, ctxDone, chainVars, copied, keys, inited, gentxs, genesis, genbz, up,
                   height, saved>>

SetSeedMode ==
    /\ pc = "seedMode"
    /\ toml' = [toml EXCEPT ![fulls[1]] =
                  recursiveModifyToml(@, [seed_mode |-> TRUE, seeds |-> <<>>])]
    /\ pc' = "start"
    /\ Spawn(Nodes)
    /\ UNCHANGED <<cfg, ctxDone, chainVars, copied, keys, inited, gentxs, genesis, genbz, up,
                   height, saved>>

-------------------------------------------------------------------------------
(* Start, Serialize and RestoreChain *)

Start(n) ==
    /\ pc = "start"
    /\ g[n] = 1
    /\ Advance(n, OK)
    /\ up' = up \cup {n}
    /\ UNCHANGED <<cfg, ctxDone, pc, chainVars, copied, fileVars, genbz, height, saved>>

StartDone ==
    /\ Wait("start", "startup", {})
    /\ UNCHANGED <<cfg, ctxDone, chainVars, copied, fileVars, genbz, up, height, saved>>

\* External: the network produces its first block once more than two thirds of the
\* validators run on the same genesis file.
Block ==
    /\ height = 0
    /\ LET vs == {v \in Validators \cap up : genesis[v] = genbz} IN
         3 * Cardinality(vs) > 2 * Cardinality(Validators)
    /\ height' = 1
    /\ UNCHANGED <<cfg, ctxDone, pc, g, chainVars, copied, fileVars, genbz, up, saved>>

\* The height of the node GetFullNode picks: zero until there is a block and it is up.
Height(n) == IF n \in up THEN height ELSE 0

\* Mutant: only a block ends the wait.
WaitForStartupForever ==
    /\ pc = "startup"
    /\ height >= 1
    /\ pc' = "serialize"
    /\ UNCHANGED <<cfg, ctxDone, g, chainVars, copied, fileVars, genbz, up, height, saved>>

\* WaitForStartup: heights are asked for until one is reached or the context is done, of
\* which select takes either when both are there.
WaitForStartup ==
    /\ pc = "startup"
    /\ \/ (\E n \in GetFullNode : Height(n) >= 1) /\ pc' = "serialize"
       \/ ctxDone /\ pc' = "failed"
    /\ UNCHANGED <<cfg, ctxDone, g, chainVars, copied, fileVars, genbz, up, height, saved>>

\* Serialize: the nodes and the wallets in the order of the slices.  The object is gone then.
Serialize ==
    /\ pc = "serialize"
    /\ saved' = [vals |-> vals, fulls |-> fulls, wallets |-> wallets]
    /\ vals' = [i \in DOMAIN vals |-> Unset]
    /\ fulls' = [i \in DOMAIN fulls |-> Unset]
    /\ wallets' = <<>>
    /\ pc' = "restore"
    /\ Spawn(Nodes)
    /\ UNCHANGED <<cfg, ctxDone, copied, fileVars, genbz, up, height>>

\* RestoreNode of each node in a goroutine, into the place it was saved from.
RestoreNode(n) ==
    /\ pc = "restore"
    /\ g[n] = 1
    /\ Advance(n, OK)
    /\ vals' = [i \in DOMAIN vals |-> IF saved.vals[i] = n THEN n ELSE vals[i]]
    /\ fulls' = [i \in DOMAIN fulls |-> IF saved.fulls[i] = n THEN n ELSE fulls[i]]
    /\ UNCHANGED <<cfg, ctxDone, pc, wallets, copied, fileVars, genbz, up, height, saved>>

RestoreChain ==
    /\ Wait("restore", "done", {})
    /\ wallets' = IF pc' = "done" THEN saved.wallets ELSE wallets
    /\ UNCHANGED <<cfg, ctxDone, vals, fulls, copied, fileVars, genbz, up, height, saved>>

ContextDone ==
    /\ ~ctxDone
    /\ pc \notin {"done", "failed"}
    /\ ctxDone' = TRUE
    /\ UNCHANGED <<cfg, pc, g, chainVars, copied, fileVars, genbz, up, height, saved>>

Goroutine(n) ==
    \/ CreateNode(n) \/ CreateWallet(n) \/ InitHome(n) \/ SetClientConfig(n)
    \/ RunGenesisScript(n) \/ AddAccounts(n) \/ configureNode(n) \/ Start(n) \/ RestoreNode(n)
    \/ GoroutineFails(n)

Main ==
    \/ CreateChain \/ SetupDone \/ BuildWallet \/ CopyGenTx \/ CopiedAll
    \/ executeGenesisOperations \/ AccountsDone \/ ReadGenesis \/ ConfigureDone \/ SetSeedMode
    \/ StartDone \/ WaitForStartup \/ Serialize \/ RestoreChain \/ Fails

Terminated == pc \in {"done", "failed"} /\ UNCHANGED vars

Next == Main \/ (\E n \in Nodes : Goroutine(n)) \/ Block \/ ContextDone \/ Terminated

Spec == Init /\ [][Next]_vars

\* Goroutines run, the provider's calls return (those of CopyGenTx on a background context too:
\* a transfer that hangs is CallReturns of DigitalOceanTask), and the activity has a deadline;
\* nothing is assumed of the network's consensus.  The deadline is the worker's: a caller with
\* a background context, as the report runner is one, may wait for ever.
FairSpec ==
    /\ Spec
    /\ WF_vars(Main)
    /\ \A n \in Nodes : WF_vars(Goroutine(n))
    /\ WF_vars(ContextDone)

-------------------------------------------------------------------------------
(* Properties *)

\* "The ordering of the slice should correspond to the ordering of GetValidators"
\* (GetValidatorWallets): whatever the order in which nodes were created and set up, and
\* again after a restore.
WalletsMatchValidators ==
    \A i \in DOMAIN wallets :
        wallets[i] # Unset => wallets[i] = (IF vals[i] = Unset THEN saved.vals[i] ELSE vals[i])

\* Every node that is started has the same genesis file, with the account and the gentx of
\* every validator, the faucet's account and the additional ones.
StartedNodesAgree ==
    \A n \in up : /\ genesis[n] = genbz
                  /\ genesis[n].gentxs = Validators
                  /\ genesis[n].accounts = Accounts
                  /\ Cardinality(genesis[n].extra) = cfg.extra

\* The supply in a genesis file is what its accounts hold: the chain would refuse to start
\* on any other.
SupplyIsSumOfBalances ==
    \A n \in Nodes : LET gen == genesis[n] IN
        gen.supply = (Cardinality(gen.accounts) + Cardinality(gen.extra)) * GenesisBalance(cfg)

\* A started node is configured: it knows every peer it is to know and no other, whatever the
\* custom settings say of peers, and else the custom settings win over the defaults.
StartedNodesConfigured ==
    \A n \in up : /\ Members(toml[n].persistent_peers) = (IF cfg.persistent THEN Nodes ELSE {})
                  /\ cfg.libp2p /\ cfg.persistent => Members(toml[n].bootstrap_peers) = Nodes
                  /\ toml[n].timeout_commit =
                       (IF "timeout_commit" \in cfg.custom THEN "custom" ELSE "default")

\* One started node runs as the seed and asks no other, and every other node asks it, whatever
\* the custom settings say of seeds; it is the only one in seed mode unless the custom settings
\* put every node into it.
OneSeed ==
    pc = "startup" /\ cfg.seed =>
        \E s \in FullNodes :
            /\ toml[s].seed_mode /\ toml[s].seeds = <<>>
            /\ \A n \in Nodes \ {s} :
                 toml[n].seed_mode = ("seed_mode" \in cfg.custom) /\ toml[n].seeds = <<s>>

\* CreateChain and Init return, also when a goroutine fails or no block is ever produced,
\* where the provider's calls return and the context has a deadline, as that of the worker's
\* activities has.
InitReturns == <>(pc \in {"done", "failed"})
===============================================================================

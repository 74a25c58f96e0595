------------------------------ MODULE ChainProofs ------------------------------
(***************************************************************************)
(* The invariants of the chain hold for any number of validators and full  *)
(* nodes, every configuration, every order in which the goroutines of a    *)
(* phase run, and whichever of them fail.  IInv says, phase by phase, what *)
(* the goroutines that are over have written and what the phases before    *)
(* the last barrier have left: the nodes in the chain's slices (SliceInv)  *)
(* and their wallets (WalletInv), the genesis files (GenesisInv) and their *)
(* supply (SupplyInv), the config.toml files (TomlInv), and the nodes that *)
(* are ready to be started (ReadyInv).                                     *)
(***************************************************************************)
EXTENDS Chain, FiniteSetTheorems, TLAPS

Phases == {"create", "setup", "faucet", "copy", "script", "accounts", "read", "configure",
           "seedMode", "start", "startup", "serialize", "restore", "done", "failed"}

GenesisFiles == [accounts : SUBSET Accounts, extra : SUBSET Nat, supply : Nat,
                 gentxs : SUBSET Validators, modified : BOOLEAN]

\* Every variable the invariants speak of keeps its type.
TypeInv ==
    /\ cfg \in Configs
    /\ pc \in Phases
    /\ g \in [Nodes -> 0 .. 11]
    /\ copied \in Nat
    /\ gentxs \in [Nodes -> SUBSET Validators]
    /\ genesis \in [Nodes -> GenesisFiles]
    /\ genbz \in GenesisFiles
    /\ DOMAIN toml = Nodes
    /\ \A n \in Nodes : DOMAIN toml[n] = TomlKeys
    /\ up \subseteq Nodes

\* The slices hold nodes; once a chain is serialised they hold what was saved or nothing.
SliceInv ==
    /\ saved.vals = <<>> =>
         /\ pc \notin {"restore", "done"}
         /\ vals \in Seq(Validators)
         /\ fulls \in Seq(FullNodes)
    /\ saved.vals # <<>> =>
         /\ pc \in {"restore", "done", "failed"}
         /\ \A i \in DOMAIN vals : vals[i] \in {Unset, saved.vals[i]}
    /\ pc = "create" => /\ \A n \in Validators : g[n] = OK => n \in Members(vals)
                        /\ \A n \in FullNodes : g[n] = OK => n \in Members(fulls)
    /\ pc \notin {"create", "restore", "done", "failed"} =>
         Validators \subseteq Members(vals) /\ FullNodes \subseteq Members(fulls)
    /\ pc \in {"configure", "seedMode"} /\ cfg.seed => fulls # <<>>

\* The wallet of a validator that is set up is at the validator's index.
WalletInv ==
    /\ saved.vals = <<>> =>
         \A i \in DOMAIN wallets : i \in DOMAIN vals /\ wallets[i] \in {Unset, vals[i]}
    /\ saved.vals # <<>> =>
         /\ \A i \in DOMAIN saved.wallets : saved.wallets[i] = saved.vals[i]
         /\ \A i \in DOMAIN wallets : i \in DOMAIN vals /\ wallets[i] = saved.vals[i]
         /\ DOMAIN saved.wallets = DOMAIN vals
         /\ pc = "restore" => wallets = <<>>
    /\ pc \notin {"create", "restore", "done", "failed"} =>
         /\ DOMAIN wallets = DOMAIN vals
         /\ \A i \in DOMAIN vals : (pc = "setup" => g[vals[i]] = OK) => wallets[i] = vals[i]

\* The genesis file and the gentx a validator's own script leaves.
Own(n) == genesis[n].accounts = {n} /\ genesis[n].extra = {} /\ n \in gentxs[n]

\* The accounts and gentxs of a genesis file after the script on the first validator.
Collected(gen) == gen.accounts = Accounts /\ gen.gentxs = Validators

\* A genesis file that may be distributed.
Complete(gen) == Collected(gen) /\ gen.extra = buildAccounts(cfg)

GenesisInv ==
    /\ pc = "create" => \A n \in Nodes : genesis[n] = NoGenesis
    /\ pc = "setup" => \A n \in Validators : IF g[n] = OK THEN Own(n) ELSE genesis[n] = NoGenesis
    /\ pc \in {"faucet", "copy", "script"} => \A n \in Validators : Own(n)
    /\ pc = "copy" => /\ copied \in 1 .. Len(vals)
                      /\ \A i \in 1 .. copied : vals[i] \in gentxs[First]
    /\ pc = "script" => Validators \subseteq gentxs[First]
    /\ pc = "accounts" =>
         /\ Collected(genesis[First])
         /\ \A n \in Validators : g[n] = 1 => genesis[n].extra = {}
         /\ g[First] = OK => Complete(genesis[First])
         /\ \A n \in FullNodes : g[n] # 1
    /\ pc = "read" => Complete(genesis[First])
    /\ (pc \in {"configure", "seedMode", "start"} \/ up # {}) => Complete(genbz)

\* The supply is what the accounts hold.
Balanced(gen) ==
    /\ IsFiniteSet(gen.extra)
    /\ gen.supply = (Cardinality(gen.accounts) + Cardinality(gen.extra)) * GenesisBalance(cfg)

SupplyInv == Balanced(genbz) /\ \A n \in Nodes : Balanced(genesis[n])

\* The seed mode the custom settings give every node; that of a new config.toml is FALSE.
CustomSeedMode == "seed_mode" \in cfg.custom

\* What a goroutine of configureNode has written when it is at a step.
Written(n) ==
    /\ g[n] \in {2, 3, 4, 5, 6, OK} => genesis[n] = genbz
    /\ g[n] \in {1, 2, 3} => toml[n].seed_mode = FALSE
    /\ g[n] \in {4, 5, 6, OK} => toml[n].seed_mode = CustomSeedMode
    /\ g[n] = 3 => toml[n].timeout_commit = "default"
    /\ g[n] \in {4, 5, 6, OK} =>
         toml[n].timeout_commit = (IF "timeout_commit" \in cfg.custom THEN "custom" ELSE "default")
    /\ g[n] \in {5, 6, OK} => toml[n].persistent_peers = PersistentPeers
    /\ g[n] \in {6, OK} => toml[n].seeds = Seeds
    /\ g[n] = OK /\ cfg.libp2p => toml[n].bootstrap_peers = composeLibP2PBootstrapPeers

TomlInv ==
    /\ pc \in {"create", "setup", "faucet", "copy", "script", "accounts", "read"} =>
         \A n \in Nodes : toml[n].seed_mode = FALSE
    /\ pc = "configure" => \A n \in Nodes : Written(n)
    /\ pc = "seedMode" =>
         /\ cfg.seed
         /\ \A n \in Nodes : toml[n].seeds = Seeds /\ toml[n].seed_mode = CustomSeedMode

\* A node that may be started.
Ready(n) ==
    /\ genesis[n] = genbz
    /\ Members(toml[n].persistent_peers) = (IF cfg.persistent THEN Nodes ELSE {})
    /\ cfg.libp2p /\ cfg.persistent => Members(toml[n].bootstrap_peers) = Nodes
    /\ toml[n].timeout_commit =
         (IF "timeout_commit" \in cfg.custom THEN "custom" ELSE "default")

\* One full node is the seed, and every other node asks it; the seed mode of the others is
\* what the custom settings say.
Seeded ==
    \E s \in FullNodes :
        /\ toml[s].seed_mode /\ toml[s].seeds = <<>>
        /\ \A n \in Nodes \ {s} : toml[n].seed_mode = CustomSeedMode /\ toml[n].seeds = <<s>>

\* Nodes are started only when all of them are ready.
ReadyInv ==
    /\ pc \in {"seedMode", "start"} => \A n \in Nodes : Ready(n)
    /\ \A n \in up : Ready(n)
    /\ up # {} => pc \in {"start", "startup", "serialize", "restore", "done", "failed"}
    /\ pc \in {"start", "startup"} /\ cfg.seed => Seeded

IInv ==
    TypeInv /\ SliceInv /\ WalletInv /\ GenesisInv /\ SupplyInv /\ TomlInv /\ ReadyInv

-------------------------------------------------------------------------------
(* Lemmas about the operators *)

LEMMA NodesFacts ==
    /\ IsFiniteSet(Validators) /\ IsFiniteSet(Accounts)
    /\ Cardinality(Validators) \in Nat
    /\ Cardinality(Accounts) \in Nat
<1>1. IsFiniteSet(Validators)
  BY FS_Subset, ValidatorsAssumption DEF Nodes
<1>2. IsFiniteSet(Accounts)
  BY <1>1, FS_AddElement DEF Accounts
<1> QED
  BY <1>1, <1>2, FS_CardinalityType

LEMMA BalanceIsNat == ASSUME NEW c \in Configs PROVE GenesisBalance(c) \in Nat
<1>1. CASE c.evm
  <2> DEFINE n == Cardinality(Validators)
  <2>1. n \in Nat
    BY NodesFacts
  <2> HIDE DEF n
  <2>2. GenesisBalance(c) = 10 * (n + 2)
    BY <1>1 DEF GenesisBalance, EvmUnit, n
  <2> QED
    BY <2>1, <2>2
<1>2. CASE ~c.evm
  BY <1>2 DEF GenesisBalance
<1> QED
  BY <1>1, <1>2

\* A product with a sum, which the supply is an instance of.
LEMMA Distributes ==
    ASSUME NEW a \in Nat, NEW b \in Nat, NEW c \in Nat, NEW u \in Nat
    PROVE  (a + b) * u + c * u = ((a + c) + b) * u /\ (a + b) * u + c * u = (a + (b + c)) * u
OBVIOUS

\* Fund adds the accounts and what they hold, and leaves the rest of the file.
LEMMA FundShape ==
    ASSUME NEW gen \in GenesisFiles, NEW S \in SUBSET Accounts, NEW c \in Configs
    PROVE  /\ Fund(gen, S, c) \in GenesisFiles
           /\ Fund(gen, S, c).accounts = gen.accounts \cup S
           /\ Fund(gen, S, c).extra = gen.extra
<1> DEFINE d == Cardinality(S) * GenesisBalance(c)
           A == gen.accounts \cup S
           t == gen.supply + d
<1>1. Cardinality(S) \in Nat /\ GenesisBalance(c) \in Nat
  BY NodesFacts, FS_Subset, FS_CardinalityType, BalanceIsNat
<1>2. d \in Nat
  BY <1>1
<1> HIDE DEF d
<1>3. A \in SUBSET Accounts /\ t \in Nat
  BY <1>2 DEF GenesisFiles
<1>4. Fund(gen, S, c) = [gen EXCEPT !.accounts = A, !.supply = t]
  BY DEF Fund, d
<1> HIDE DEF A, t
<1>5. Fund(gen, S, c) \in GenesisFiles
  BY <1>3, <1>4 DEF GenesisFiles
<1>6. Fund(gen, S, c).accounts = A /\ Fund(gen, S, c).extra = gen.extra
  BY <1>4 DEF GenesisFiles
<1> QED
  BY <1>5, <1>6 DEF A

LEMMA FundSupply ==
    ASSUME NEW gen \in GenesisFiles, NEW S, NEW c
    PROVE  Fund(gen, S, c).supply = gen.supply + Cardinality(S) * GenesisBalance(c)
BY DEF Fund, GenesisFiles

\* Accounts that are new keep a file balanced.
LEMMA FundBalanced ==
    ASSUME NEW gen \in GenesisFiles, NEW S \in SUBSET Accounts, cfg \in Configs,
           Balanced(gen), S \cap gen.accounts = {}
    PROVE  Balanced(Fund(gen, S, cfg))
<1> DEFINE A == gen.accounts
           X == gen.extra
           u == GenesisBalance(cfg)
           f == Fund(gen, S, cfg)
<1>1. A \in SUBSET Accounts /\ IsFiniteSet(A) /\ IsFiniteSet(S)
  BY NodesFacts, FS_Subset DEF GenesisFiles
<1>2. Cardinality(A) \in Nat /\ Cardinality(S) \in Nat /\ Cardinality(X) \in Nat
  BY <1>1, FS_CardinalityType DEF Balanced
<1>3. Cardinality(A \cup S) = Cardinality(A) + Cardinality(S)
  <2>1. A \cap S = {}
    OBVIOUS
  <2> QED
    BY <1>1, <1>2, <2>1, FS_Union, FS_EmptySet
<1>4. u \in Nat
  BY BalanceIsNat
<1>5. f.accounts = A \cup S /\ f.extra = X /\ f.supply = gen.supply + Cardinality(S) * u
  BY FundShape, FundSupply
<1>6. gen.supply = (Cardinality(A) + Cardinality(X)) * u /\ IsFiniteSet(X)
  BY DEF Balanced
<1> HIDE DEF A, X, u, f
<1>7. f.supply = ((Cardinality(A) + Cardinality(S)) + Cardinality(X)) * u
  BY <1>2, <1>4, <1>5, <1>6, Distributes
<1> QED
  BY <1>3, <1>5, <1>6, <1>7 DEF Balanced, f, u

\* The additional accounts are as many as the configuration asks for.
LEMMA buildAccountsFacts ==
    ASSUME NEW c \in Configs
    PROVE  /\ buildAccounts(c) \in SUBSET Nat
           /\ IsFiniteSet(buildAccounts(c))
           /\ Cardinality(buildAccounts(c)) = c.extra
<1> DEFINE n == Cardinality(Validators)
           x == c.extra
<1>1. n \in Nat /\ x \in Nat
  BY NodesFacts, ConfigsAssumption
<1>2. buildAccounts(c) = {n + i : i \in 1 .. x}
  BY DEF buildAccounts
<1> HIDE DEF n, x
<1>3. {n + i : i \in 1 .. x} = (n + 1) .. (n + x)
  <2>1. ASSUME NEW k \in (n + 1) .. (n + x) PROVE k \in {n + i : i \in 1 .. x}
    <3>1. k - n \in 1 .. x /\ k = n + (k - n)
      BY <1>1
    <3> QED
      BY <3>1
  <2>2. ASSUME NEW i \in 1 .. x PROVE n + i \in (n + 1) .. (n + x)
    BY <1>1
  <2> QED
    BY <2>1, <2>2
<1>4. IsFiniteSet((n + 1) .. (n + x)) /\ Cardinality((n + 1) .. (n + x)) = x
  BY <1>1, FS_Interval
<1>5. (n + 1) .. (n + x) \in SUBSET Nat
  BY <1>1
<1> QED
  BY <1>2, <1>3, <1>4, <1>5 DEF x

\* The additional accounts and their balances, on a file that has none yet.
LEMMA UpdateFacts ==
    ASSUME NEW gen \in GenesisFiles, cfg \in Configs, Balanced(gen), gen.extra = {}
    PROVE  LET new == UpdateGenesisBalances(UpdateGenesisAccounts(gen, cfg), cfg)
           IN  /\ new \in GenesisFiles
               /\ Balanced(new)
               /\ new.accounts = gen.accounts
               /\ new.gentxs = gen.gentxs
               /\ new.extra = buildAccounts(cfg)
<1> DEFINE new == UpdateGenesisBalances(UpdateGenesisAccounts(gen, cfg), cfg)
           B == buildAccounts(cfg)
           u == GenesisBalance(cfg)
           x == cfg.extra
           a == Cardinality(gen.accounts)
<1>1. B \in SUBSET Nat /\ IsFiniteSet(B) /\ Cardinality(B) = x /\ x \in Nat
  BY buildAccountsFacts, ConfigsAssumption
<1>2. u \in Nat
  BY BalanceIsNat
<1>3. a \in Nat
  BY NodesFacts, FS_Subset, FS_CardinalityType DEF GenesisFiles
<1>4. gen.supply = (a + 0) * u
  BY FS_EmptySet DEF Balanced
<1>5. x * u \in Nat
  BY <1>1, <1>2
<1>6. new = [gen EXCEPT !.extra = gen.extra \cup B, !.supply = gen.supply + x * u]
  BY DEF UpdateGenesisBalances, UpdateGenesisAccounts, GenesisFiles
<1> HIDE DEF new, B, u, x, a
<1>7. /\ new \in GenesisFiles
      /\ new.accounts = gen.accounts /\ new.gentxs = gen.gentxs /\ new.extra = B
      /\ new.supply = gen.supply + x * u
  <2> DEFINE t == gen.supply + x * u
  <2>1. t \in Nat
    BY <1>5 DEF GenesisFiles
  <2>2. gen.extra \cup B = B
    OBVIOUS
  <2> HIDE DEF t
  <2>3. new = [gen EXCEPT !.extra = B, !.supply = t]
    BY <1>6, <2>2 DEF t
  <2>4. new \in GenesisFiles
    BY <1>1, <2>1, <2>3 DEF GenesisFiles
  <2>5. new.accounts = gen.accounts /\ new.gentxs = gen.gentxs /\ new.extra = B /\ new.supply = t
    BY <2>3 DEF GenesisFiles
  <2> QED
    BY <2>4, <2>5 DEF t
<1>8. new.supply = (a + x) * u
  BY <1>1, <1>2, <1>3, <1>4, <1>7, Distributes
<1>9. Balanced(new)
  BY <1>1, <1>7, <1>8 DEF Balanced, a, u
<1> QED
  BY <1>7, <1>9 DEF new, B

\* Overwriting keys of a config file.
LEMMA TomlFacts ==
    ASSUME NEW c, NEW m, DOMAIN c = TomlKeys, DOMAIN m \subseteq TomlKeys
    PROVE  /\ DOMAIN recursiveModifyToml(c, m) = TomlKeys
           /\ \A k \in DOMAIN m : recursiveModifyToml(c, m)[k] = m[k]
           /\ \A k \in TomlKeys \ DOMAIN m : recursiveModifyToml(c, m)[k] = c[k]
BY DEF recursiveModifyToml

\* What is in a sequence after an append and a concatenation.
LEMMA MembersAppend ==
    ASSUME NEW S, NEW s \in Seq(S), NEW e \in S
    PROVE  Members(Append(s, e)) = Members(s) \cup {e}
<1>1. DOMAIN s = 1 .. Len(s) /\ DOMAIN Append(s, e) = 1 .. Len(s) + 1
  OBVIOUS
<1>2. \A i \in 1 .. Len(s) : Append(s, e)[i] = s[i]
  OBVIOUS
<1>3. Append(s, e)[Len(s) + 1] = e
  OBVIOUS
<1> QED
  BY <1>1, <1>2, <1>3 DEF Members

LEMMA MembersConcat ==
    ASSUME NEW S, NEW s \in Seq(S), NEW t \in Seq(S)
    PROVE  Members(s \o t) = Members(s) \cup Members(t)
<1> DEFINE n == Len(s)
           k == Len(t)
           c == s \o t
<1>1. n \in Nat /\ k \in Nat
  OBVIOUS
<1>2. DOMAIN s = 1 .. n /\ DOMAIN t = 1 .. k /\ DOMAIN c = 1 .. (n + k)
  OBVIOUS
<1>3. \A i \in 1 .. n : c[i] = s[i]
  OBVIOUS
<1>4. \A i \in 1 .. k : c[n + i] = t[i]
  OBVIOUS
<1> HIDE DEF n, k, c
<1>5. ASSUME NEW i \in 1 .. (n + k) PROVE c[i] \in Members(s) \cup Members(t)
  <2>1. CASE i \in 1 .. n
    BY <1>2, <1>3, <2>1 DEF Members
  <2>2. CASE i \notin 1 .. n
    <3>1. i - n \in 1 .. k /\ n + (i - n) = i
      BY <1>1, <2>2
    <3> QED
      BY <1>2, <1>4, <3>1 DEF Members
  <2> QED
    BY <2>1, <2>2
<1>6. ASSUME NEW i \in 1 .. n PROVE s[i] \in Members(c)
  BY <1>1, <1>2, <1>3 DEF Members
<1>7. ASSUME NEW i \in 1 .. k PROVE t[i] \in Members(c)
  BY <1>1, <1>2, <1>4 DEF Members
<1>8. Members(c) = Members(s) \cup Members(t)
  BY <1>2, <1>5, <1>6, <1>7 DEF Members
<1> QED
  BY <1>8 DEF c

\* The same for one node's file among those of all nodes.
LEMMA TomlUpdate ==
    ASSUME NEW f, DOMAIN f = Nodes, \A k \in Nodes : DOMAIN f[k] = TomlKeys,
           NEW n \in Nodes, NEW m, DOMAIN m \subseteq TomlKeys,
           NEW h, h = [f EXCEPT ![n] = recursiveModifyToml(@, m)]
    PROVE  /\ DOMAIN h = Nodes
           /\ \A k \in Nodes : DOMAIN h[k] = TomlKeys
           /\ \A k \in Nodes \ {n} : h[k] = f[k]
           /\ \A x \in DOMAIN m : h[n][x] = m[x]
           /\ \A x \in TomlKeys \ DOMAIN m : h[n][x] = f[n][x]
<1>1. h[n] = recursiveModifyToml(f[n], m) /\ DOMAIN h = Nodes
  OBVIOUS
<1>2. \A k \in Nodes \ {n} : h[k] = f[k]
  OBVIOUS
<1> QED
  BY <1>1, <1>2, TomlFacts

\* Between CreateChain and Serialize the slices hold exactly the nodes.
LEMMA SliceFacts ==
    ASSUME IInv, pc \notin {"create", "restore", "done", "failed"}
    PROVE  /\ saved.vals = <<>>
           /\ vals \in Seq(Validators) /\ fulls \in Seq(FullNodes)
           /\ Members(vals) = Validators /\ Members(fulls) = FullNodes
           /\ Len(vals) \in Nat \ {0}
           /\ DOMAIN vals = 1 .. Len(vals)
           /\ \A i \in 1 .. Len(vals) : vals[i] \in Validators
           /\ First \in Validators /\ First \in Nodes
<1> USE DEF IInv, SliceInv, TypeInv
<1>1. saved.vals = <<>> /\ vals \in Seq(Validators) /\ fulls \in Seq(FullNodes)
  BY DEF Phases
<1>2. Members(vals) = Validators /\ Members(fulls) = FullNodes
  BY <1>1 DEF Members
<1>3. Len(vals) \in Nat /\ DOMAIN vals = 1 .. Len(vals)
  BY <1>1
<1>4. Len(vals) # 0
  BY <1>2, <1>3, ValidatorsAssumption DEF Members
<1>5. \A i \in 1 .. Len(vals) : vals[i] \in Validators
  BY <1>1
<1> QED
  BY <1>1, <1>2, <1>3, <1>4, <1>5 DEF First, Nodes

\* While the nodes are configured, the peers a node is given are all the nodes.
LEMMA PeersFacts ==
    ASSUME IInv, pc = "configure"
    PROVE  /\ Members(PersistentPeers) = (IF cfg.persistent THEN Nodes ELSE {})
           /\ cfg.persistent => Members(composeLibP2PBootstrapPeers) = Nodes
<1>1. /\ vals \in Seq(Validators) /\ fulls \in Seq(FullNodes)
      /\ Members(vals) = Validators /\ Members(fulls) = FullNodes
  BY SliceFacts
<1>2. cfg.seed => fulls # <<>>
  BY DEF IInv, SliceInv
<1> HIDE DEF IInv
<1>3. vals \in Seq(Nodes) /\ fulls \in Seq(Nodes)
  BY <1>1 DEF Nodes
<1>4. CASE ~cfg.persistent
  BY <1>4 DEF PersistentPeers, Members
<1>5. CASE cfg.persistent
  <2>1. PersistentPeers = fulls \o vals
    BY <1>5 DEF PersistentPeers
  <2>2. Members(fulls \o vals) = Nodes
    BY <1>1, <1>3, MembersConcat DEF Nodes
  <2>3. PersistentPeers \in Seq(Nodes)
    BY <1>3, <2>1
  <2>4. Seeds \in Seq(Nodes)
    <3>1. CASE cfg.seed
      BY <1>2, <1>3, <3>1 DEF Seeds
    <3>2. CASE ~cfg.seed
      BY <3>2 DEF Seeds
    <3> QED
      BY <3>1, <3>2
  <2>5. Members(Seeds) \subseteq Nodes
    BY <2>4 DEF Members
  <2>6. Members(Seeds \o PersistentPeers) = Members(Seeds) \cup Members(PersistentPeers)
    BY <2>3, <2>4, MembersConcat
  <2> QED
    BY <1>5, <2>1, <2>2, <2>5, <2>6 DEF composeLibP2PBootstrapPeers
<1> QED
  BY <1>4, <1>5

\* The peers depend on the configuration and the slices only.
LEMMA PeersUnchanged ==
    ASSUME cfg' = cfg, vals' = vals, fulls' = fulls
    PROVE  /\ Seeds' = Seeds /\ PersistentPeers' = PersistentPeers
           /\ composeLibP2PBootstrapPeers' = composeLibP2PBootstrapPeers
BY DEF Seeds, PersistentPeers, composeLibP2PBootstrapPeers

-------------------------------------------------------------------------------
(* Steps *)

\* Every step keeps the types.
LEMMA TypeStep == ASSUME IInv, [Next]_vars PROVE TypeInv'
<1> USE DEF IInv, TypeInv, Over, OK, Err, Waiting, Phases, chainVars, fileVars
<1>1. ASSUME NEW n \in Nodes, RunGenesisScript(n) PROVE TypeInv'
  <2>1. Fund(genesis[n], {n}, cfg) \in GenesisFiles
    BY <1>1, FundShape DEF RunGenesisScript, Accounts
  <2> QED
    BY <1>1, <2>1 DEF RunGenesisScript, Advance
<1>2. ASSUME NEW n \in Nodes, AddAccounts(n) PROVE TypeInv'
  <2>1. genesis[n].extra = {} /\ Balanced(genesis[n])
    BY <1>2 DEF AddAccounts, GenesisInv, SupplyInv, Nodes
  <2>2. UpdateGenesisBalances(UpdateGenesisAccounts(genesis[n], cfg), cfg) \in GenesisFiles
    BY <2>1, UpdateFacts
  <2> QED
    BY <1>2, <2>2 DEF AddAccounts, Advance
<1>3. ASSUME NEW n \in Nodes, SetChainConfigs(n) PROVE TypeInv'
  <2> DEFINE m == GenerateDefaultConsensusConfig(n)
  <2>1. DOMAIN m \subseteq TomlKeys
    BY ConfigsAssumption DEF TomlKeys, GenerateDefaultConsensusConfig, CustomConfig
  <2>2. DOMAIN toml' = Nodes /\ \A k \in Nodes : DOMAIN toml'[k] = TomlKeys
    <3>1. DOMAIN toml = Nodes /\ \A k \in Nodes : DOMAIN toml[k] = TomlKeys
      OBVIOUS
    <3>2. DOMAIN m \subseteq TomlKeys /\ toml' = [toml EXCEPT ![n] = recursiveModifyToml(@, m)]
      BY <2>1, <1>3 DEF SetChainConfigs, ModifyToml
    <3> HIDE DEF m, IInv
    <3> QED
      BY <3>1, <3>2, TomlUpdate
  <2> QED
    BY <1>3, <2>2 DEF SetChainConfigs, ModifyToml, Advance
<1>4. ASSUME NEW n \in Nodes, ApplyCustomConfigs(n) PROVE TypeInv'
  <2> DEFINE m == CustomConfig
  <2>1. DOMAIN m \subseteq TomlKeys
    BY ConfigsAssumption DEF TomlKeys, GenerateDefaultConsensusConfig, CustomConfig
  <2>2. DOMAIN toml' = Nodes /\ \A k \in Nodes : DOMAIN toml'[k] = TomlKeys
    <3>1. DOMAIN toml = Nodes /\ \A k \in Nodes : DOMAIN toml[k] = TomlKeys
      OBVIOUS
    <3>2. DOMAIN m \subseteq TomlKeys /\ toml' = [toml EXCEPT ![n] = recursiveModifyToml(@, m)]
      BY <2>1, <1>4 DEF ApplyCustomConfigs, ModifyToml
    <3> HIDE DEF m, IInv
    <3> QED
      BY <3>1, <3>2, TomlUpdate
  <2> QED
    BY <1>4, <2>2 DEF ApplyCustomConfigs, ModifyToml, Advance
<1>5. ASSUME NEW n \in Nodes, SetPersistentPeers(n) PROVE TypeInv'
  <2> DEFINE m == [persistent_peers |-> PersistentPeers]
  <2>1. DOMAIN m \subseteq TomlKeys
    BY ConfigsAssumption DEF TomlKeys, GenerateDefaultConsensusConfig, CustomConfig
  <2>2. DOMAIN toml' = Nodes /\ \A k \in Nodes : DOMAIN toml'[k] = TomlKeys
    <3>1. DOMAIN toml = Nodes /\ \A k \in Nodes : DOMAIN toml[k] = TomlKeys
      OBVIOUS
    <3>2. DOMAIN m \subseteq TomlKeys /\ toml' = [toml EXCEPT ![n] = recursiveModifyToml(@, m)]
      BY <2>1, <1>5 DEF SetPersistentPeers, ModifyToml
    <3> HIDE DEF m, IInv
    <3> QED
      BY <3>1, <3>2, TomlUpdate
  <2> QED
    BY <1>5, <2>2 DEF SetPersistentPeers, ModifyToml, Advance
<1>6. ASSUME NEW n \in Nodes, SetSeedNode(n) PROVE TypeInv'
  <2> DEFINE m == [seeds |-> Seeds]
  <2>1. DOMAIN m \subseteq TomlKeys
    BY ConfigsAssumption DEF TomlKeys, GenerateDefaultConsensusConfig, CustomConfig
  <2>2. DOMAIN toml' = Nodes /\ \A k \in Nodes : DOMAIN toml'[k] = TomlKeys
    <3>1. DOMAIN toml = Nodes /\ \A k \in Nodes : DOMAIN toml[k] = TomlKeys
      OBVIOUS
    <3>2. DOMAIN m \subseteq TomlKeys /\ toml' = [toml EXCEPT ![n] = recursiveModifyToml(@, m)]
      BY <2>1, <1>6 DEF SetSeedNode, ModifyToml
    <3> HIDE DEF m, IInv
    <3> QED
      BY <3>1, <3>2, TomlUpdate
  <2> QED
    BY <1>6, <2>2 DEF SetSeedNode, ModifyToml, Advance
<1>7. ASSUME NEW n \in Nodes, SetLibP2PBootstrapPeers(n) PROVE TypeInv'
  <2> DEFINE m == [bootstrap_peers |-> composeLibP2PBootstrapPeers]
  <2>1. DOMAIN m \subseteq TomlKeys
    BY ConfigsAssumption DEF TomlKeys, GenerateDefaultConsensusConfig, CustomConfig
  <2>2. DOMAIN toml' = Nodes /\ \A k \in Nodes : DOMAIN toml'[k] = TomlKeys
    <3>1. DOMAIN toml = Nodes /\ \A k \in Nodes : DOMAIN toml[k] = TomlKeys
      OBVIOUS
    <3>2. DOMAIN m \subseteq TomlKeys /\ toml' = [toml EXCEPT ![n] = recursiveModifyToml(@, m)]
      BY <2>1, <1>7 DEF SetLibP2PBootstrapPeers, ModifyToml
    <3> HIDE DEF m, IInv
    <3> QED
      BY <3>1, <3>2, TomlUpdate
  <2> QED
    BY <1>7, <2>2 DEF SetLibP2PBootstrapPeers, ModifyToml, Advance
<1>8. ASSUME NEW n \in Nodes, OverwriteGenesisFile(n) \/ Start(n) PROVE TypeInv'
  BY <1>8 DEF OverwriteGenesisFile, Advance, Start
<1>9. ASSUME NEW n \in Nodes, CreateNode(n) PROVE TypeInv'
  BY <1>9 DEF CreateNode, Advance
<1>10. ASSUME NEW n \in Nodes, CreateWallet(n) PROVE TypeInv'
  BY <1>10 DEF CreateWallet, Advance
<1>11. ASSUME NEW n \in Nodes, InitHome(n) PROVE TypeInv'
  BY <1>11 DEF InitHome, Advance
<1>12. ASSUME NEW n \in Nodes, SetClientConfig(n) PROVE TypeInv'
  BY <1>12 DEF SetClientConfig, Advance
<1>13. ASSUME NEW n \in Nodes, RestoreNode(n) PROVE TypeInv'
  BY <1>13 DEF RestoreNode, Advance
<1>14. ASSUME NEW n \in Nodes, GoroutineFails(n) PROVE TypeInv'
  BY <1>14 DEF GoroutineFails, Advance
<1>15. CASE CopyGenTx
  <2>1. First \in Nodes /\ vals[copied + 1] \in Validators
    BY <1>15, SliceFacts DEF CopyGenTx
  <2> QED
    BY <1>15, <2>1 DEF CopyGenTx
<1>16. CASE executeGenesisOperations
  <2> DEFINE added == {"faucet"} \cup {wallets[i] : i \in 2 .. Len(vals)}
             funded == Fund(genesis[First], added, cfg)
             new == [funded EXCEPT !.gentxs = gentxs[First]]
  <2>1. First \in Nodes
    BY <1>16, SliceFacts DEF executeGenesisOperations
  <2>2. added \in SUBSET Accounts
    BY <1>16, SliceFacts DEF executeGenesisOperations, WalletInv, Accounts
  <2>3. funded \in GenesisFiles
    BY <2>1, <2>2, FundShape
  <2> HIDE DEF funded
  <2>4. new \in GenesisFiles
    BY <2>1, <2>3 DEF GenesisFiles
  <2>5. genesis' = [genesis EXCEPT ![First] = new]
    BY <1>16 DEF executeGenesisOperations, funded
  <2> HIDE DEF new
  <2>6. genesis' \in [Nodes -> GenesisFiles]
    BY <2>4, <2>5
  <2> QED
    BY <1>16, <2>6 DEF executeGenesisOperations, Spawn
<1>17. CASE ReadGenesis
  <2>1. First \in Nodes
    BY <1>17, SliceFacts DEF ReadGenesis
  <2>2. ModifyGenesis(genesis[First]) \in GenesisFiles
    BY <2>1 DEF ModifyGenesis, GenesisFiles
  <2> QED
    BY <1>17, <2>2 DEF ReadGenesis, Spawn
<1>18. CASE SetSeedMode
  <2> DEFINE m == [seed_mode |-> TRUE, seeds |-> <<>>]
             s == fulls[1]
  <2>1. s \in Nodes
    BY <1>18, SliceFacts DEF SetSeedMode, TomlInv, SliceInv, Nodes
  <2>2. DOMAIN toml' = Nodes /\ \A k \in Nodes : DOMAIN toml'[k] = TomlKeys
    <3>1. DOMAIN toml = Nodes /\ \A k \in Nodes : DOMAIN toml[k] = TomlKeys
      OBVIOUS
    <3>2. DOMAIN m \subseteq TomlKeys /\ toml' = [toml EXCEPT ![s] = recursiveModifyToml(@, m)]
      BY <1>18 DEF SetSeedMode, TomlKeys
    <3> HIDE DEF m, s, IInv
    <3> QED
      BY <2>1, <3>1, <3>2, TomlUpdate
  <2> QED
    BY <1>18, <2>2 DEF SetSeedMode, Spawn
<1>19. CASE SetupDone \/ BuildWallet \/ CopiedAll \/ AccountsDone
  BY <1>19 DEF SetupDone, Wait, Spawn, BuildWallet, CopiedAll, AccountsDone
<1>20. CASE ConfigureDone \/ StartDone \/ WaitForStartup \/ Fails
  BY <1>20 DEF ConfigureDone, Wait, Spawn, StartDone, WaitForStartup, Fails
<1>21. CASE CreateChain
  BY <1>21 DEF CreateChain, Wait, Spawn
<1>22. CASE Serialize
  BY <1>22 DEF Serialize, Spawn
<1>23. CASE RestoreChain
  BY <1>23 DEF RestoreChain, Wait, Spawn
<1>24. CASE Block
  BY <1>24 DEF Block
<1>25. CASE ContextDone
  BY <1>25 DEF ContextDone
<1>26. CASE UNCHANGED vars
  BY <1>26 DEF vars
<1> HIDE DEF IInv, TypeInv, Over, OK, Err, Waiting, Phases
<1> QED
  BY <1>1, <1>2, <1>3, <1>4, <1>5, <1>6, <1>7, <1>8, <1>9, <1>10, <1>11, <1>12, <1>13, <1>14,
      <1>15, <1>16, <1>17, <1>18, <1>19, <1>20, <1>21, <1>22, <1>23, <1>24, <1>25, <1>26
  DEF Next, Main, Goroutine, configureNode, Terminated

\* Nodes enter the slices in any order; after the barrier of CreateChain they are all there.
LEMMA SliceStep == ASSUME IInv, [Next]_vars PROVE SliceInv'
<1> USE DEF IInv, TypeInv, SliceInv, Over, OK, Err, Waiting, Phases, chainVars, fileVars
<1>1. ASSUME NEW n \in Nodes, CreateNode(n) PROVE SliceInv'
  <2>1. CASE n \in Validators
    <3>1. vals \in Seq(Validators) /\ vals' = Append(vals, n)
      BY <1>1, <2>1 DEF CreateNode
    <3>2. vals' \in Seq(Validators) /\ Members(vals') = Members(vals) \cup {n}
      BY <2>1, <3>1, MembersAppend
    <3> QED
      BY <1>1, <2>1, <3>2, ValidatorsAssumption DEF CreateNode, Advance
  <2>2. CASE n \notin Validators
    <3>1. n \in FullNodes
      BY <2>2 DEF Nodes
    <3>2. fulls \in Seq(FullNodes) /\ fulls' = Append(fulls, n)
      BY <1>1, <2>2 DEF CreateNode
    <3>3. fulls' \in Seq(FullNodes) /\ Members(fulls') = Members(fulls) \cup {n}
      BY <3>1, <3>2, MembersAppend
    <3> QED
      BY <1>1, <2>2, <3>3 DEF CreateNode, Advance
  <2> QED
    BY <2>1, <2>2
<1>2. ASSUME NEW n \in Nodes, AddAccounts(n) \/ OverwriteGenesisFile(n) \/ SetChainConfigs(n) \/
    ApplyCustomConfigs(n) PROVE SliceInv'
  BY <1>2 DEF AddAccounts, Advance, OverwriteGenesisFile, SetChainConfigs, ModifyToml,
      ApplyCustomConfigs
<1>3. ASSUME NEW n \in Nodes, SetPersistentPeers(n) \/ SetSeedNode(n) \/
    SetLibP2PBootstrapPeers(n) \/ Start(n) PROVE SliceInv'
  BY <1>3 DEF SetPersistentPeers, Advance, ModifyToml, SetSeedNode, SetLibP2PBootstrapPeers,
      Start
<1>4. ASSUME NEW n \in Nodes, CreateWallet(n) PROVE SliceInv'
  BY <1>4 DEF CreateWallet, Advance
<1>5. ASSUME NEW n \in Nodes, InitHome(n) PROVE SliceInv'
  BY <1>5 DEF InitHome, Advance
<1>6. ASSUME NEW n \in Nodes, SetClientConfig(n) PROVE SliceInv'
  BY <1>6 DEF SetClientConfig, Advance
<1>7. ASSUME NEW n \in Nodes, RunGenesisScript(n) PROVE SliceInv'
  BY <1>7 DEF RunGenesisScript, Advance
<1>8. ASSUME NEW n \in Nodes, RestoreNode(n) PROVE SliceInv'
  BY <1>8 DEF RestoreNode, Advance
<1>9. ASSUME NEW n \in Nodes, GoroutineFails(n) PROVE SliceInv'
  BY <1>9 DEF GoroutineFails, Advance
<1>10. CASE CreateChain
  <2>1. CASE \E n \in Nodes : g[n] = Err
    BY <1>10, <2>1 DEF CreateChain, Wait
  <2>2. CASE ~\E n \in Nodes : g[n] = Err
    <3>1. \A n \in Nodes : g[n] = OK
      BY <1>10, <2>2 DEF CreateChain, Wait
    <3>2. Validators \subseteq Members(vals) /\ FullNodes \subseteq Members(fulls)
      BY <1>10, <3>1 DEF CreateChain, Wait, Nodes
    <3> QED
      BY <1>10, <2>2, <3>2 DEF CreateChain, Wait, Members
  <2> QED
    BY <2>1, <2>2
<1>11. CASE Serialize
  <2>1. vals # <<>>
    BY <1>11, SliceFacts DEF Serialize
  <2>2. saved'.vals = vals /\ pc' = "restore" /\ \A i \in DOMAIN vals' : vals'[i] = Unset
    BY <1>11 DEF Serialize
  <2> QED
    BY <2>1, <2>2
<1>12. CASE SetupDone \/ BuildWallet \/ CopyGenTx \/ CopiedAll
  BY <1>12 DEF SetupDone, Wait, Spawn, BuildWallet, CopyGenTx, CopiedAll
<1>13. CASE executeGenesisOperations \/ AccountsDone \/ ReadGenesis \/ ConfigureDone
  BY <1>13 DEF executeGenesisOperations, Spawn, AccountsDone, Wait, ReadGenesis, ConfigureDone
<1>14. CASE SetSeedMode \/ StartDone \/ WaitForStartup \/ Fails
  BY <1>14 DEF SetSeedMode, Spawn, StartDone, Wait, WaitForStartup, Fails
<1>15. CASE RestoreChain
  BY <1>15 DEF RestoreChain, Wait, Spawn
<1>16. CASE Block
  BY <1>16 DEF Block
<1>17. CASE ContextDone
  BY <1>17 DEF ContextDone
<1>18. CASE UNCHANGED vars
  BY <1>18 DEF vars
<1> HIDE DEF IInv, TypeInv, SliceInv, Over, OK, Err, Waiting, Phases
<1> QED
  BY <1>1, <1>2, <1>3, <1>4, <1>5, <1>6, <1>7, <1>8, <1>9, <1>10, <1>11, <1>12, <1>13, <1>14,
      <1>15, <1>16, <1>17, <1>18
  DEF Next, Main, Goroutine, configureNode, Terminated

\* A wallet is written at its validator's index, and saved and restored with the slices.
LEMMA WalletStep == ASSUME IInv, [Next]_vars PROVE WalletInv'
<1> USE DEF IInv, TypeInv, SliceInv, WalletInv, Over, OK, Err, Waiting, chainVars, fileVars
<1>1. ASSUME NEW n \in Nodes, CreateNode(n) PROVE WalletInv'
  <2>1. saved.vals = <<>> /\ vals \in Seq(Validators)
    BY <1>1 DEF CreateNode
  <2>2. \A i \in DOMAIN vals : i \in DOMAIN vals' /\ vals'[i] = vals[i]
    <3>1. CASE n \in Validators /\ vals' = Append(vals, n)
      BY <2>1, <3>1
    <3>2. CASE vals' = vals
      BY <3>2
    <3> QED
      BY <1>1, <3>1, <3>2 DEF CreateNode
  <2> QED
    BY <1>1, <2>1, <2>2 DEF CreateNode
<1>2. ASSUME NEW n \in Nodes, AddAccounts(n) \/ OverwriteGenesisFile(n) PROVE WalletInv'
  BY <1>2 DEF AddAccounts, Advance, OverwriteGenesisFile
<1>3. ASSUME NEW n \in Nodes, SetChainConfigs(n) \/ ApplyCustomConfigs(n) PROVE WalletInv'
  BY <1>3 DEF SetChainConfigs, Advance, ModifyToml, ApplyCustomConfigs
<1>4. ASSUME NEW n \in Nodes, SetPersistentPeers(n) \/ SetSeedNode(n) PROVE WalletInv'
  BY <1>4 DEF SetPersistentPeers, Advance, ModifyToml, SetSeedNode
<1>5. ASSUME NEW n \in Nodes, SetLibP2PBootstrapPeers(n) \/ Start(n) PROVE WalletInv'
  BY <1>5 DEF SetLibP2PBootstrapPeers, Advance, ModifyToml, Start
<1>6. ASSUME NEW n \in Nodes, CreateWallet(n) PROVE WalletInv'
  BY <1>6 DEF CreateWallet, Advance
<1>7. ASSUME NEW n \in Nodes, InitHome(n) PROVE WalletInv'
  BY <1>7 DEF InitHome, Advance
<1>8. ASSUME NEW n \in Nodes, SetClientConfig(n) PROVE WalletInv'
  BY <1>8 DEF SetClientConfig, Advance
<1>9. ASSUME NEW n \in Nodes, RunGenesisScript(n) PROVE WalletInv'
  BY <1>9 DEF RunGenesisScript, Advance
<1>10. ASSUME NEW n \in Nodes, RestoreNode(n) PROVE WalletInv'
  BY <1>10 DEF RestoreNode, Advance
<1>11. ASSUME NEW n \in Nodes, GoroutineFails(n) PROVE WalletInv'
  BY <1>11 DEF GoroutineFails, Advance
<1>12. CASE CreateChain
  <2>1. saved.vals = <<>> /\ saved' = saved /\ vals' = vals
    BY <1>12 DEF CreateChain, Wait
  <2>2. DOMAIN wallets' = DOMAIN vals /\ \A i \in DOMAIN wallets' : wallets'[i] = Unset
    BY <1>12 DEF CreateChain
  <2>3. CASE pc' = "failed"
    BY <2>1, <2>2, <2>3
  <2>4. CASE pc' = "setup" /\ Spawn(Nodes)
    <3>1. \A i \in DOMAIN vals : vals[i] \in Nodes
      BY <2>1 DEF Nodes
    <3>2. \A i \in DOMAIN vals : g'[vals[i]] # OK
      BY <2>4, <3>1 DEF Spawn
    <3> QED
      BY <2>1, <2>2, <2>4, <3>2
  <2> QED
    BY <1>12, <2>3, <2>4 DEF CreateChain, Wait
<1>13. CASE SetupDone
  <2>1. saved.vals = <<>> /\ saved' = saved /\ vals' = vals /\ wallets' = wallets
    BY <1>13 DEF SetupDone, Wait
  <2>2. CASE \E n \in Nodes : g[n] = Err
    BY <1>13, <2>1, <2>2 DEF SetupDone, Wait
  <2>3. CASE ~\E n \in Nodes : g[n] = Err
    <3>1. \A n \in Nodes : g[n] = OK
      BY <1>13, <2>3 DEF SetupDone, Wait
    <3>2. \A i \in DOMAIN vals : g[vals[i]] = OK
      BY <2>1, <3>1 DEF Nodes
    <3> QED
      BY <1>13, <2>1, <2>3, <3>2 DEF SetupDone, Wait
  <2> QED
    BY <2>2, <2>3
<1>14. CASE BuildWallet \/ CopyGenTx
  BY <1>14 DEF BuildWallet, CopyGenTx
<1>15. CASE CopiedAll \/ executeGenesisOperations
  BY <1>15 DEF CopiedAll, executeGenesisOperations, Spawn
<1>16. CASE AccountsDone \/ ReadGenesis
  BY <1>16 DEF AccountsDone, Wait, Spawn, ReadGenesis
<1>17. CASE ConfigureDone \/ SetSeedMode
  BY <1>17 DEF ConfigureDone, Wait, Spawn, SetSeedMode
<1>18. CASE StartDone \/ WaitForStartup
  BY <1>18 DEF StartDone, Wait, Spawn, WaitForStartup
<1>19. CASE Fails
  BY <1>19 DEF Fails
<1>20. CASE Serialize
  BY <1>20 DEF Serialize, Spawn
<1>21. CASE RestoreChain
  BY <1>21 DEF RestoreChain, Wait, Spawn
<1>22. CASE Block
  BY <1>22 DEF Block
<1>23. CASE ContextDone
  BY <1>23 DEF ContextDone
<1>24. CASE UNCHANGED vars
  BY <1>24 DEF vars
<1> HIDE DEF IInv, TypeInv, SliceInv, WalletInv, Over, OK, Err, Waiting
<1> QED
  BY <1>1, <1>2, <1>3, <1>4, <1>5, <1>6, <1>7, <1>8, <1>9, <1>10, <1>11, <1>12, <1>13, <1>14,
      <1>15, <1>16, <1>17, <1>18, <1>19, <1>20, <1>21, <1>22, <1>23, <1>24
  DEF Next, Main, Goroutine, configureNode, Terminated

\* The genesis files from the validators' own scripts to the one that is distributed.
LEMMA GenesisStep == ASSUME IInv, [Next]_vars PROVE GenesisInv'
<1> USE DEF IInv, TypeInv, SliceInv, WalletInv, GenesisInv, Own, Collected, Complete,
    buildAccounts, First, Over, OK, Err, Waiting, chainVars, fileVars
<1>1. ASSUME NEW n \in Nodes, RunGenesisScript(n) PROVE GenesisInv'
  <2> DEFINE new == Fund(genesis[n], {n}, cfg)
  <2>1. /\ pc = "setup" /\ pc' = "setup" /\ up' = up /\ g' = [g EXCEPT ![n] = OK]
        /\ n \in Validators /\ g[n] = 4 /\ cfg' = cfg /\ genbz' = genbz
    BY <1>1 DEF RunGenesisScript, Advance
  <2>2. genesis[n] = NoGenesis
    BY <2>1
  <2>3. new.accounts = {n} /\ new.extra = {}
    <3> DEFINE S == {n}
    <3>1. genesis[n] \in GenesisFiles /\ S \in SUBSET Accounts /\ cfg \in Configs
      BY <2>1 DEF Accounts
    <3>2. new = Fund(genesis[n], S, cfg)
      OBVIOUS
    <3> HIDE DEF IInv, S, new
    <3>3. new.accounts = genesis[n].accounts \cup S /\ new.extra = genesis[n].extra
      BY <3>1, <3>2, FundShape
    <3> QED
      BY <2>2, <3>3 DEF NoGenesis, S
  <2> HIDE DEF new
  <2>4. /\ genesis' = [genesis EXCEPT ![n] = new]
        /\ gentxs' = [gentxs EXCEPT ![n] = gentxs[n] \cup {n}]
    BY <1>1 DEF RunGenesisScript, new
  <2>5. ASSUME NEW k \in Validators
        PROVE  IF g'[k] = OK THEN Own(k)' ELSE genesis'[k] = NoGenesis
    <3>1. CASE k = n
      BY <2>1, <2>3, <2>4, <3>1
    <3>2. CASE k # n
      BY <2>1, <2>4, <3>2 DEF Nodes
    <3> QED
      BY <3>1, <3>2
  <2>6. up # {} => Complete(genbz)'
    BY <2>1
  <2> QED
    BY <2>1, <2>5, <2>6
<1>2. ASSUME NEW n \in Nodes, AddAccounts(n) PROVE GenesisInv'
  <2> DEFINE new == UpdateGenesisBalances(UpdateGenesisAccounts(genesis[n], cfg), cfg)
  <2>1. /\ pc = "accounts" /\ pc' = "accounts" /\ up' = up /\ g' = [g EXCEPT ![n] = OK]
        /\ g[n] = 1 /\ cfg' = cfg /\ genbz' = genbz /\ vals' = vals
    BY <1>2 DEF AddAccounts, Advance
  <2>2. n \in Validators /\ genesis[n].extra = {} /\ Balanced(genesis[n])
    BY <2>1 DEF SupplyInv, Nodes
  <2>3. /\ new.accounts = genesis[n].accounts /\ new.gentxs = genesis[n].gentxs
        /\ new.extra = buildAccounts(cfg)
    BY <2>2, UpdateFacts
  <2> HIDE DEF new
  <2>4. genesis' = [genesis EXCEPT ![n] = new]
    BY <1>2 DEF AddAccounts, new
  <2>5. First' = First /\ First \in Validators /\ First \in Nodes
    BY <2>1, SliceFacts DEF First
  <2>6. Collected(genesis[First])'
    <3>1. Collected(genesis[First]) /\ genesis'[First].accounts = genesis[First].accounts
          /\ genesis'[First].gentxs = genesis[First].gentxs
      BY <2>1, <2>3, <2>4, <2>5
    <3> QED
      BY <2>5, <3>1
  <2>7. g'[First] = OK => Complete(genesis[First])'
    BY <2>1, <2>3, <2>4, <2>5, <2>6
  <2>8. \A k \in Validators : g'[k] = 1 => genesis'[k].extra = {}
    BY <2>1, <2>4 DEF Nodes
  <2>9. \A k \in FullNodes : g'[k] # 1
    BY <2>1 DEF Nodes
  <2>10. up # {} => Complete(genbz)'
    BY <2>1
  <2> QED
    BY <2>1, <2>5, <2>6, <2>7, <2>8, <2>9, <2>10
<1>3. ASSUME NEW n \in Nodes, OverwriteGenesisFile(n) \/ SetChainConfigs(n) PROVE GenesisInv'
  BY <1>3 DEF OverwriteGenesisFile, Advance, SetChainConfigs, ModifyToml
<1>4. ASSUME NEW n \in Nodes, ApplyCustomConfigs(n) \/ SetPersistentPeers(n) PROVE GenesisInv'
  BY <1>4 DEF ApplyCustomConfigs, Advance, ModifyToml, SetPersistentPeers
<1>5. ASSUME NEW n \in Nodes, SetSeedNode(n) \/ SetLibP2PBootstrapPeers(n) PROVE GenesisInv'
  BY <1>5 DEF SetSeedNode, Advance, ModifyToml, SetLibP2PBootstrapPeers
<1>6. ASSUME NEW n \in Nodes, Start(n) PROVE GenesisInv'
  BY <1>6 DEF Start, Advance
<1>7. ASSUME NEW n \in Nodes, CreateNode(n) PROVE GenesisInv'
  BY <1>7 DEF CreateNode, Advance
<1>8. ASSUME NEW n \in Nodes, CreateWallet(n) PROVE GenesisInv'
  BY <1>8 DEF CreateWallet, Advance
<1>9. ASSUME NEW n \in Nodes, InitHome(n) PROVE GenesisInv'
  BY <1>9 DEF InitHome, Advance
<1>10. ASSUME NEW n \in Nodes, SetClientConfig(n) PROVE GenesisInv'
  BY <1>10 DEF SetClientConfig, Advance
<1>11. ASSUME NEW n \in Nodes, RestoreNode(n) PROVE GenesisInv'
  BY <1>11 DEF RestoreNode, Advance
<1>12. ASSUME NEW n \in Nodes, GoroutineFails(n) PROVE GenesisInv'
  BY <1>12 DEF GoroutineFails, Advance
<1>13. CASE CreateChain
  <2>1. CASE pc' = "failed"
    BY <1>13, <2>1 DEF CreateChain, Wait
  <2>2. CASE pc' = "setup" /\ Spawn(Nodes)
    <3>1. \A n \in Validators : g'[n] # OK /\ genesis'[n] = NoGenesis
      BY <1>13, <2>2 DEF CreateChain, Wait, Spawn, Nodes
    <3> QED
      BY <1>13, <2>2, <3>1 DEF CreateChain, Wait
  <2> QED
    BY <1>13, <2>1, <2>2 DEF CreateChain, Wait
<1>14. CASE SetupDone
  <2>1. CASE pc' = "failed"
    BY <1>14, <2>1 DEF SetupDone, Wait
  <2>2. CASE pc' = "faucet" /\ ~\E n \in Nodes : g[n] = Err
    <3>1. \A n \in Validators : g[n] = OK
      BY <1>14, <2>2 DEF SetupDone, Wait, Nodes
    <3>2. \A n \in Validators : Own(n)'
      BY <1>14, <3>1 DEF SetupDone, Wait
    <3> QED
      BY <1>14, <2>2, <3>2 DEF SetupDone, Wait
  <2> QED
    BY <1>14, <2>1, <2>2 DEF SetupDone, Wait
<1>15. CASE BuildWallet
  <2>1. /\ pc = "faucet" /\ pc' = "copy" /\ copied' = 1 /\ vals' = vals /\ gentxs' = gentxs
        /\ genesis' = genesis /\ genbz' = genbz /\ up' = up /\ cfg' = cfg
    BY <1>15 DEF BuildWallet
  <2>2. copied' \in 1 .. Len(vals) /\ \A i \in 1 .. copied' : vals[i] \in gentxs[First]
    <3>1. Len(vals) \in Nat \ {0} /\ First \in Validators
      BY <2>1, SliceFacts
    <3>2. First \in gentxs[First]
      BY <2>1, <3>1
    <3> QED
      BY <2>1, <3>1, <3>2 DEF First
  <2> QED
    BY <2>1, <2>2 DEF First
<1>16. CASE CopyGenTx
  <2> DEFINE v == vals[copied + 1]
  <2>1. /\ pc = "copy" /\ pc' = "copy" /\ copied < Len(vals) /\ copied' = copied + 1
        /\ vals' = vals /\ gentxs' = [gentxs EXCEPT ![First] = gentxs[First] \cup {v}]
        /\ genesis' = genesis /\ genbz' = genbz /\ up' = up /\ cfg' = cfg
    BY <1>16 DEF CopyGenTx
  <2>2. Len(vals) \in Nat \ {0} /\ First \in Nodes /\ First' = First
    BY <2>1, SliceFacts DEF First
  <2>3. copied' \in 1 .. Len(vals)
    BY <2>1, <2>2
  <2>4. \A i \in 1 .. copied' : vals[i] \in gentxs'[First]
    BY <2>1, <2>2
  <2>5. \A n \in Validators : Own(n)'
    BY <2>1, <2>2 DEF Nodes
  <2> QED
    BY <2>1, <2>2, <2>3, <2>4, <2>5
<1>17. CASE CopiedAll
  <2>1. Validators \subseteq gentxs[First]
    <3>1. /\ \A i \in 1 .. Len(vals) : vals[i] \in gentxs[First]
          /\ Members(vals) = Validators /\ DOMAIN vals = 1 .. Len(vals)
      BY <1>17, SliceFacts DEF CopiedAll
    <3> QED
      BY <3>1 DEF Members
  <2> QED
    BY <1>17, <2>1 DEF CopiedAll, First
<1>18. CASE executeGenesisOperations
  <2> DEFINE added == {"faucet"} \cup {wallets[i] : i \in 2 .. Len(vals)}
             funded == Fund(genesis[First], added, cfg)
             new == [funded EXCEPT !.gentxs = gentxs[First]]
  <2>1. /\ pc = "script" /\ up' = up /\ cfg' = cfg /\ genbz' = genbz /\ vals' = vals
        /\ genesis' = [genesis EXCEPT ![First] = new]
    BY <1>18 DEF executeGenesisOperations
  <2>2. First \in Nodes /\ First' = First /\ First \in Validators
    BY <2>1, SliceFacts DEF First
  <2>3. {First} \cup added = Accounts
    <3>1. \A i \in 2 .. Len(vals) : wallets[i] = vals[i]
      BY <2>1, SliceFacts
    <3>2. added = {"faucet"} \cup {vals[i] : i \in 2 .. Len(vals)}
      BY <3>1
    <3> HIDE DEF added
    <3>3. Validators = {vals[1]} \cup {vals[i] : i \in 2 .. Len(vals)}
      BY <2>1, SliceFacts DEF Members
    <3> QED
      BY <3>2, <3>3 DEF First, Accounts
  <2>4. added \in SUBSET Accounts
    BY <2>3
  <2>5. genesis[First].accounts = {First} /\ genesis[First].extra = {}
    BY <2>1, <2>2
  <2>6. funded \in GenesisFiles /\ funded.accounts = Accounts /\ funded.extra = {}
    <3>1. genesis[First] \in GenesisFiles /\ cfg \in Configs
      BY <2>2
    <3> HIDE DEF IInv, added
    <3>2. /\ funded \in GenesisFiles /\ funded.accounts = genesis[First].accounts \cup added
          /\ funded.extra = genesis[First].extra
      BY <2>4, <3>1, FundShape
    <3> QED
      BY <2>3, <2>5, <3>2
  <2>7. gentxs[First] = Validators
    BY <2>1, <2>2
  <2> HIDE DEF funded
  <2>8. Collected(new) /\ new.extra = {}
    BY <2>6, <2>7 DEF GenesisFiles
  <2> HIDE DEF new
  <2>9. Collected(genesis[First])' /\ genesis'[First].extra = {}
    BY <2>1, <2>2, <2>8
  <2>10. \A n \in Validators : genesis'[n].extra = {}
    BY <2>1, <2>2, <2>8 DEF Nodes
  <2>11. CASE cfg.extra = 0 /\ pc' = "read"
    <3>1. buildAccounts(cfg) = {}
      BY <2>11 DEF buildAccounts
    <3> QED
      BY <2>1, <2>2, <2>9, <2>11, <3>1
  <2>12. CASE pc' = "failed"
    BY <2>1, <2>12
  <2>13. CASE pc' = "accounts" /\ Spawn(Validators)
    <3>1. g'[First] # OK /\ \A n \in FullNodes : g'[n] # 1
      BY <2>2, <2>13, ValidatorsAssumption DEF Spawn, Nodes
    <3> QED
      BY <2>1, <2>2, <2>9, <2>10, <2>13, <3>1
  <2> QED
    BY <1>18, <2>11, <2>12, <2>13 DEF executeGenesisOperations
<1>19. CASE AccountsDone
  <2>1. CASE pc' = "failed"
    BY <1>19, <2>1 DEF AccountsDone, Wait
  <2>2. CASE pc' = "read" /\ ~\E n \in Nodes : g[n] = Err
    <3>1. First \in Nodes /\ First' = First
      BY <1>19, SliceFacts DEF AccountsDone, Wait, First
    <3>2. g[First] = OK
      BY <1>19, <2>2, <3>1 DEF AccountsDone, Wait
    <3>3. Complete(genesis[First])'
      BY <1>19, <3>1, <3>2 DEF AccountsDone, Wait
    <3> QED
      BY <1>19, <2>2, <3>3 DEF AccountsDone, Wait
  <2> QED
    BY <1>19, <2>1, <2>2 DEF AccountsDone, Wait
<1>20. CASE ReadGenesis
  <2>1. First \in Nodes
    BY <1>20, SliceFacts DEF ReadGenesis
  <2>2. Complete(ModifyGenesis(genesis[First]))
    BY <1>20, <2>1 DEF ReadGenesis, ModifyGenesis, GenesisFiles
  <2> QED
    BY <1>20, <2>2 DEF ReadGenesis
<1>21. CASE ConfigureDone \/ SetSeedMode
  BY <1>21 DEF ConfigureDone, Wait, Spawn, SetSeedMode
<1>22. CASE StartDone \/ WaitForStartup
  BY <1>22 DEF StartDone, Wait, Spawn, WaitForStartup
<1>23. CASE Fails
  BY <1>23 DEF Fails
<1>24. CASE Serialize
  BY <1>24 DEF Serialize, Spawn
<1>25. CASE RestoreChain
  BY <1>25 DEF RestoreChain, Wait, Spawn
<1>26. CASE Block
  BY <1>26 DEF Block
<1>27. CASE ContextDone
  BY <1>27 DEF ContextDone
<1>28. CASE UNCHANGED vars
  BY <1>28 DEF vars
<1> HIDE DEF IInv, TypeInv, SliceInv, WalletInv, GenesisInv, Own, Collected, Complete,
    buildAccounts, First, Over, OK, Err, Waiting
<1> QED
  BY <1>1, <1>2, <1>3, <1>4, <1>5, <1>6, <1>7, <1>8, <1>9, <1>10, <1>11, <1>12, <1>13, <1>14,
      <1>15, <1>16, <1>17, <1>18, <1>19, <1>20, <1>21, <1>22, <1>23, <1>24, <1>25, <1>26, <1>27,
      <1>28
  DEF Next, Main, Goroutine, configureNode, Terminated

\* Every operation that adds accounts to a genesis file adds what they hold to its supply.
LEMMA SupplyStep == ASSUME IInv, [Next]_vars PROVE SupplyInv'
<1> USE DEF IInv, TypeInv, SupplyInv, Balanced, chainVars, fileVars
<1>1. ASSUME NEW n \in Nodes, RunGenesisScript(n) PROVE SupplyInv'
  <2> DEFINE new == Fund(genesis[n], {n}, cfg)
  <2>1. cfg' = cfg /\ genbz' = genbz /\ genesis' = [genesis EXCEPT ![n] = new] /\ n \in Validators
    BY <1>1 DEF RunGenesisScript
  <2>2. genesis[n].accounts = {}
    BY <1>1 DEF RunGenesisScript, GenesisInv, NoGenesis, OK
  <2>3. Balanced(new)
    BY <2>1, <2>2, FundBalanced DEF Accounts
  <2> HIDE DEF new
  <2> QED
    BY <2>1, <2>3 DEF Balanced
<1>2. ASSUME NEW n \in Nodes, AddAccounts(n) PROVE SupplyInv'
  <2> DEFINE new == UpdateGenesisBalances(UpdateGenesisAccounts(genesis[n], cfg), cfg)
  <2>1. cfg' = cfg /\ genbz' = genbz /\ genesis' = [genesis EXCEPT ![n] = new]
    BY <1>2 DEF AddAccounts
  <2>2. genesis[n].extra = {}
    BY <1>2 DEF AddAccounts, GenesisInv, Nodes
  <2>3. Balanced(new)
    BY <2>1, <2>2, UpdateFacts
  <2> HIDE DEF new
  <2> QED
    BY <2>1, <2>3 DEF Balanced
<1>3. ASSUME NEW n \in Nodes, OverwriteGenesisFile(n) \/ SetChainConfigs(n) \/
    ApplyCustomConfigs(n) \/ SetPersistentPeers(n) PROVE SupplyInv'
  BY <1>3 DEF OverwriteGenesisFile, Advance, SetChainConfigs, ModifyToml, ApplyCustomConfigs,
      SetPersistentPeers
<1>4. ASSUME NEW n \in Nodes, SetSeedNode(n) \/ SetLibP2PBootstrapPeers(n) \/ Start(n) PROVE
    SupplyInv'
  BY <1>4 DEF SetSeedNode, Advance, ModifyToml, SetLibP2PBootstrapPeers, Start
<1>5. ASSUME NEW n \in Nodes, CreateNode(n) PROVE SupplyInv'
  BY <1>5 DEF CreateNode, Advance
<1>6. ASSUME NEW n \in Nodes, CreateWallet(n) PROVE SupplyInv'
  BY <1>6 DEF CreateWallet, Advance
<1>7. ASSUME NEW n \in Nodes, InitHome(n) PROVE SupplyInv'
  BY <1>7 DEF InitHome, Advance
<1>8. ASSUME NEW n \in Nodes, SetClientConfig(n) PROVE SupplyInv'
  BY <1>8 DEF SetClientConfig, Advance
<1>9. ASSUME NEW n \in Nodes, RestoreNode(n) PROVE SupplyInv'
  BY <1>9 DEF RestoreNode, Advance
<1>10. ASSUME NEW n \in Nodes, GoroutineFails(n) PROVE SupplyInv'
  BY <1>10 DEF GoroutineFails, Advance
<1>11. CASE executeGenesisOperations
  <2> DEFINE added == {"faucet"} \cup {wallets[i] : i \in 2 .. Len(vals)}
             funded == Fund(genesis[First], added, cfg)
             new == [funded EXCEPT !.gentxs = gentxs[First]]
  <2>1. /\ cfg' = cfg /\ genbz' = genbz /\ genesis' = [genesis EXCEPT ![First] = new]
        /\ added \cap genesis[First].accounts = {} /\ pc = "script"
    BY <1>11 DEF executeGenesisOperations
  <2>2. First \in Nodes
    BY <2>1, SliceFacts
  <2>3. added \in SUBSET Accounts
    BY <2>1, SliceFacts DEF WalletInv, Accounts
  <2>4. funded \in GenesisFiles /\ Balanced(funded)
    BY <2>1, <2>2, <2>3, FundShape, FundBalanced
  <2> HIDE DEF funded
  <2>5. Balanced(new)
    BY <2>4 DEF Balanced, GenesisFiles
  <2> HIDE DEF new
  <2> QED
    BY <2>1, <2>5 DEF Balanced
<1>12. CASE ReadGenesis
  <2>1. First \in Nodes
    BY <1>12, SliceFacts DEF ReadGenesis
  <2>2. Balanced(ModifyGenesis(genesis[First]))
    BY <2>1 DEF ModifyGenesis, GenesisFiles, Balanced
  <2> QED
    BY <1>12, <2>2 DEF ReadGenesis, Balanced
<1>13. CASE SetupDone \/ BuildWallet \/ CopyGenTx \/ CopiedAll
  BY <1>13 DEF SetupDone, Wait, Spawn, BuildWallet, CopyGenTx, CopiedAll
<1>14. CASE AccountsDone \/ ConfigureDone \/ SetSeedMode \/ StartDone
  BY <1>14 DEF AccountsDone, Wait, Spawn, ConfigureDone, SetSeedMode, StartDone
<1>15. CASE WaitForStartup \/ Fails
  BY <1>15 DEF WaitForStartup, Fails
<1>16. CASE CreateChain
  BY <1>16 DEF CreateChain, Wait, Spawn
<1>17. CASE Serialize
  BY <1>17 DEF Serialize, Spawn
<1>18. CASE RestoreChain
  BY <1>18 DEF RestoreChain, Wait, Spawn
<1>19. CASE Block
  BY <1>19 DEF Block
<1>20. CASE ContextDone
  BY <1>20 DEF ContextDone
<1>21. CASE UNCHANGED vars
  BY <1>21 DEF vars
<1> HIDE DEF IInv, TypeInv, SupplyInv, Balanced
<1> QED
  BY <1>1, <1>2, <1>3, <1>4, <1>5, <1>6, <1>7, <1>8, <1>9, <1>10, <1>11, <1>12, <1>13, <1>14,
      <1>15, <1>16, <1>17, <1>18, <1>19, <1>20, <1>21
  DEF Next, Main, Goroutine, configureNode, Terminated

\* The steps of configureNode, and the barrier after them.
LEMMA TomlStep == ASSUME IInv, [Next]_vars PROVE TomlInv'
<1> USE DEF IInv, TypeInv, TomlInv, Over, OK, Err, Waiting, chainVars, fileVars
<1>1. ASSUME NEW n \in Nodes, OverwriteGenesisFile(n) PROVE TomlInv'
  <2>1. /\ pc = "configure" /\ pc' = "configure" /\ g[n] = 1 /\ g' = [g EXCEPT ![n] = 2]
        /\ cfg' = cfg /\ vals' = vals /\ fulls' = fulls /\ toml' = toml /\ genbz' = genbz
        /\ genesis' = [genesis EXCEPT ![n] = genbz]
    BY <1>1 DEF OverwriteGenesisFile, Advance
  <2>2. /\ Seeds' = Seeds /\ PersistentPeers' = PersistentPeers
        /\ composeLibP2PBootstrapPeers' = composeLibP2PBootstrapPeers
    BY <2>1, PeersUnchanged
  <2>3. ASSUME NEW k \in Nodes, k # n PROVE Written(k)'
    BY <2>1, <2>2, <2>3 DEF Written, CustomSeedMode
  <2>4. Written(n)'
    BY <2>1 DEF Written, CustomSeedMode
  <2> QED
    BY <2>1, <2>3, <2>4
<1>2. ASSUME NEW n \in Nodes, SetChainConfigs(n) PROVE TomlInv'
  <2> DEFINE m == GenerateDefaultConsensusConfig(n)
  <2>1. /\ pc = "configure" /\ pc' = "configure" /\ g[n] = 2
        /\ g' = [g EXCEPT ![n] = 3]
        /\ cfg' = cfg /\ vals' = vals /\ fulls' = fulls /\ genesis' = genesis /\ genbz' = genbz
    BY <1>2 DEF SetChainConfigs, ModifyToml, Advance
  <2>2. DOMAIN m = {"external_address", "timeout_commit"}
    BY DEF TomlKeys, GenerateDefaultConsensusConfig
  <2>3. m.timeout_commit = "default"
    BY DEF TomlKeys, GenerateDefaultConsensusConfig
  <2>4. /\ \A k \in Nodes \ {n} : toml'[k] = toml[k]
        /\ \A x \in DOMAIN m : toml'[n][x] = m[x]
        /\ \A x \in TomlKeys \ DOMAIN m : toml'[n][x] = toml[n][x]
    <3>1. DOMAIN toml = Nodes /\ \A k \in Nodes : DOMAIN toml[k] = TomlKeys
      OBVIOUS
    <3>2. DOMAIN m \subseteq TomlKeys /\ toml' = [toml EXCEPT ![n] = recursiveModifyToml(@, m)]
      BY <1>2, <2>2 DEF SetChainConfigs, ModifyToml, TomlKeys
    <3> HIDE DEF m, IInv
    <3> QED
      BY <3>1, <3>2, TomlUpdate
  <2> HIDE DEF m
  <2>5. /\ toml'[n].timeout_commit = "default"
        /\ toml'[n].persistent_peers = toml[n].persistent_peers
        /\ toml'[n].seeds = toml[n].seeds
        /\ toml'[n].seed_mode = toml[n].seed_mode
        /\ toml'[n].bootstrap_peers = toml[n].bootstrap_peers
    BY <2>2, <2>3, <2>4 DEF TomlKeys
  <2>6. /\ Seeds' = Seeds /\ PersistentPeers' = PersistentPeers
        /\ composeLibP2PBootstrapPeers' = composeLibP2PBootstrapPeers
    BY <2>1, PeersUnchanged
  <2>7. ASSUME NEW k \in Nodes, k # n PROVE Written(k)'
    BY <2>1, <2>4, <2>6, <2>7 DEF Written, CustomSeedMode
  <2>8. Written(n)'
    BY <2>1, <2>5, <2>6 DEF Written, CustomSeedMode
  <2> QED
    BY <2>1, <2>7, <2>8
<1>3. ASSUME NEW n \in Nodes, ApplyCustomConfigs(n) PROVE TomlInv'
  <2> DEFINE m == CustomConfig
  <2>1. /\ pc = "configure" /\ pc' = "configure" /\ g[n] = 3
        /\ g' = [g EXCEPT ![n] = 4]
        /\ cfg' = cfg /\ vals' = vals /\ fulls' = fulls /\ genesis' = genesis /\ genbz' = genbz
    BY <1>3 DEF ApplyCustomConfigs, ModifyToml, Advance
  <2>2. DOMAIN m = cfg.custom /\ cfg.custom \subseteq TomlKeys
    BY ConfigsAssumption DEF CustomConfig
  <2>3. /\ "timeout_commit" \in cfg.custom => m["timeout_commit"] = "custom"
        /\ "seed_mode" \in cfg.custom => m["seed_mode"] = TRUE
    BY DEF CustomConfig
  <2>4. /\ \A k \in Nodes \ {n} : toml'[k] = toml[k]
        /\ \A x \in DOMAIN m : toml'[n][x] = m[x]
        /\ \A x \in TomlKeys \ DOMAIN m : toml'[n][x] = toml[n][x]
    <3>1. DOMAIN toml = Nodes /\ \A k \in Nodes : DOMAIN toml[k] = TomlKeys
      OBVIOUS
    <3>2. DOMAIN m \subseteq TomlKeys /\ toml' = [toml EXCEPT ![n] = recursiveModifyToml(@, m)]
      BY <1>3, <2>2 DEF ApplyCustomConfigs, ModifyToml, TomlKeys
    <3> HIDE DEF m, IInv
    <3> QED
      BY <3>1, <3>2, TomlUpdate
  <2> HIDE DEF m
  <2>5. /\ toml'[n].seed_mode = (IF "seed_mode" \in cfg.custom THEN TRUE ELSE toml[n].seed_mode)
        /\ toml'[n].timeout_commit =
          (IF "timeout_commit" \in cfg.custom THEN "custom" ELSE toml[n].timeout_commit)
    BY <2>2, <2>3, <2>4 DEF TomlKeys
  <2>6. /\ Seeds' = Seeds /\ PersistentPeers' = PersistentPeers
        /\ composeLibP2PBootstrapPeers' = composeLibP2PBootstrapPeers
    BY <2>1, PeersUnchanged
  <2>7. ASSUME NEW k \in Nodes, k # n PROVE Written(k)'
    BY <2>1, <2>4, <2>6, <2>7 DEF Written, CustomSeedMode
  <2>8. Written(n)'
    <3>1. g'[n] = 4 /\ CustomSeedMode' = CustomSeedMode
      BY <2>1 DEF CustomSeedMode
    <3>2. toml[n].seed_mode = FALSE /\ toml[n].timeout_commit = "default" /\ genesis[n] = genbz
      BY <2>1 DEF Written
    <3>3. toml'[n].seed_mode = CustomSeedMode
      <4>1. CASE "seed_mode" \in cfg.custom
        BY <2>5, <4>1, Zenon DEF CustomSeedMode
      <4>2. CASE "seed_mode" \notin cfg.custom
        <5>1. toml'[n].seed_mode = FALSE
          BY <2>5, <3>2, <4>2
        <5>2. CustomSeedMode = FALSE
          BY <4>2 DEF CustomSeedMode
        <5> QED
          BY <5>1, <5>2
      <4> QED
        BY <4>1, <4>2
    <3>4. genesis'[n] = genbz'
      BY <2>1, <3>2
    <3>5. toml'[n].timeout_commit =
            (IF "timeout_commit" \in cfg'.custom THEN "custom" ELSE "default")
      BY <2>1, <2>5, <3>2
    <3> HIDE DEF CustomSeedMode, IInv
    <3> QED
      BY <3>1, <3>3, <3>4, <3>5 DEF Written
  <2> QED
    BY <2>1, <2>7, <2>8
<1>4. ASSUME NEW n \in Nodes, SetPersistentPeers(n) PROVE TomlInv'
  <2> DEFINE m == [persistent_peers |-> PersistentPeers]
  <2>1. /\ pc = "configure" /\ pc' = "configure" /\ g[n] = 4
        /\ g' = [g EXCEPT ![n] = 5]
        /\ cfg' = cfg /\ vals' = vals /\ fulls' = fulls /\ genesis' = genesis /\ genbz' = genbz
    BY <1>4 DEF SetPersistentPeers, ModifyToml, Advance
  <2>2. DOMAIN m = {"persistent_peers"}
    BY DEF TomlKeys
  <2>3. m.persistent_peers = PersistentPeers
    BY DEF TomlKeys
  <2>4. /\ \A k \in Nodes \ {n} : toml'[k] = toml[k]
        /\ \A x \in DOMAIN m : toml'[n][x] = m[x]
        /\ \A x \in TomlKeys \ DOMAIN m : toml'[n][x] = toml[n][x]
    <3>1. DOMAIN toml = Nodes /\ \A k \in Nodes : DOMAIN toml[k] = TomlKeys
      OBVIOUS
    <3>2. DOMAIN m \subseteq TomlKeys /\ toml' = [toml EXCEPT ![n] = recursiveModifyToml(@, m)]
      BY <1>4, <2>2 DEF SetPersistentPeers, ModifyToml, TomlKeys
    <3> HIDE DEF m, IInv
    <3> QED
      BY <3>1, <3>2, TomlUpdate
  <2> HIDE DEF m
  <2>5. /\ toml'[n].timeout_commit = toml[n].timeout_commit
        /\ toml'[n].persistent_peers = PersistentPeers
        /\ toml'[n].seeds = toml[n].seeds
        /\ toml'[n].seed_mode = toml[n].seed_mode
        /\ toml'[n].bootstrap_peers = toml[n].bootstrap_peers
    BY <2>2, <2>3, <2>4 DEF TomlKeys
  <2>6. /\ Seeds' = Seeds /\ PersistentPeers' = PersistentPeers
        /\ composeLibP2PBootstrapPeers' = composeLibP2PBootstrapPeers
    BY <2>1, PeersUnchanged
  <2>7. ASSUME NEW k \in Nodes, k # n PROVE Written(k)'
    BY <2>1, <2>4, <2>6, <2>7 DEF Written, CustomSeedMode
  <2>8. Written(n)'
    BY <2>1, <2>5, <2>6 DEF Written, CustomSeedMode
  <2> QED
    BY <2>1, <2>7, <2>8
<1>5. ASSUME NEW n \in Nodes, SetSeedNode(n) PROVE TomlInv'
  <2> DEFINE m == [seeds |-> Seeds]
  <2>1. /\ pc = "configure" /\ pc' = "configure" /\ g[n] = 5
        /\ g' = [g EXCEPT ![n] = IF cfg.libp2p THEN 6 ELSE OK]
        /\ cfg' = cfg /\ vals' = vals /\ fulls' = fulls /\ genesis' = genesis /\ genbz' = genbz
    BY <1>5 DEF SetSeedNode, ModifyToml, Advance
  <2>2. DOMAIN m = {"seeds"}
    BY DEF TomlKeys
  <2>3. m.seeds = Seeds
    BY DEF TomlKeys
  <2>4. /\ \A k \in Nodes \ {n} : toml'[k] = toml[k]
        /\ \A x \in DOMAIN m : toml'[n][x] = m[x]
        /\ \A x \in TomlKeys \ DOMAIN m : toml'[n][x] = toml[n][x]
    <3>1. DOMAIN toml = Nodes /\ \A k \in Nodes : DOMAIN toml[k] = TomlKeys
      OBVIOUS
    <3>2. DOMAIN m \subseteq TomlKeys /\ toml' = [toml EXCEPT ![n] = recursiveModifyToml(@, m)]
      BY <1>5, <2>2 DEF SetSeedNode, ModifyToml, TomlKeys
    <3> HIDE DEF m, IInv
    <3> QED
      BY <3>1, <3>2, TomlUpdate
  <2> HIDE DEF m
  <2>5. /\ toml'[n].timeout_commit = toml[n].timeout_commit
        /\ toml'[n].persistent_peers = toml[n].persistent_peers
        /\ toml'[n].seeds = Seeds
        /\ toml'[n].seed_mode = toml[n].seed_mode
        /\ toml'[n].bootstrap_peers = toml[n].bootstrap_peers
    BY <2>2, <2>3, <2>4 DEF TomlKeys
  <2>6. /\ Seeds' = Seeds /\ PersistentPeers' = PersistentPeers
        /\ composeLibP2PBootstrapPeers' = composeLibP2PBootstrapPeers
    BY <2>1, PeersUnchanged
  <2>7. ASSUME NEW k \in Nodes, k # n PROVE Written(k)'
    BY <2>1, <2>4, <2>6, <2>7 DEF Written, CustomSeedMode
  <2>8. Written(n)'
    BY <2>1, <2>5, <2>6 DEF Written, CustomSeedMode
  <2> QED
    BY <2>1, <2>7, <2>8
<1>6. ASSUME NEW n \in Nodes, SetLibP2PBootstrapPeers(n) PROVE TomlInv'
  <2> DEFINE m == [bootstrap_peers |-> composeLibP2PBootstrapPeers]
  <2>1. /\ pc = "configure" /\ pc' = "configure" /\ g[n] = 6
        /\ g' = [g EXCEPT ![n] = OK]
        /\ cfg' = cfg /\ vals' = vals /\ fulls' = fulls /\ genesis' = genesis /\ genbz' = genbz
    BY <1>6 DEF SetLibP2PBootstrapPeers, ModifyToml, Advance
  <2>2. DOMAIN m = {"bootstrap_peers"}
    BY DEF TomlKeys
  <2>3. m.bootstrap_peers = composeLibP2PBootstrapPeers
    BY DEF TomlKeys
  <2>4. /\ \A k \in Nodes \ {n} : toml'[k] = toml[k]
        /\ \A x \in DOMAIN m : toml'[n][x] = m[x]
        /\ \A x \in TomlKeys \ DOMAIN m : toml'[n][x] = toml[n][x]
    <3>1. DOMAIN toml = Nodes /\ \A k \in Nodes : DOMAIN toml[k] = TomlKeys
      OBVIOUS
    <3>2. DOMAIN m \subseteq TomlKeys /\ toml' = [toml EXCEPT ![n] = recursiveModifyToml(@, m)]
      BY <1>6, <2>2 DEF SetLibP2PBootstrapPeers, ModifyToml, TomlKeys
    <3> HIDE DEF m, IInv
    <3> QED
      BY <3>1, <3>2, TomlUpdate
  <2> HIDE DEF m
  <2>5. /\ toml'[n].timeout_commit = toml[n].timeout_commit
        /\ toml'[n].persistent_peers = toml[n].persistent_peers
        /\ toml'[n].seeds = toml[n].seeds
        /\ toml'[n].seed_mode = toml[n].seed_mode
        /\ toml'[n].bootstrap_peers = composeLibP2PBootstrapPeers
    BY <2>2, <2>3, <2>4 DEF TomlKeys
  <2>6. /\ Seeds' = Seeds /\ PersistentPeers' = PersistentPeers
        /\ composeLibP2PBootstrapPeers' = composeLibP2PBootstrapPeers
    BY <2>1, PeersUnchanged
  <2>7. ASSUME NEW k \in Nodes, k # n PROVE Written(k)'
    BY <2>1, <2>4, <2>6, <2>7 DEF Written, CustomSeedMode
  <2>8. Written(n)'
    BY <2>1, <2>5, <2>6 DEF Written, CustomSeedMode
  <2> QED
    BY <2>1, <2>7, <2>8
<1>7. ASSUME NEW n \in Nodes, GoroutineFails(n) PROVE TomlInv'
  <2>1. /\ pc' = pc /\ pc # "seedMode" /\ g' = [g EXCEPT ![n] = Err]
        /\ cfg' = cfg /\ vals' = vals /\ fulls' = fulls /\ toml' = toml /\ genbz' = genbz
        /\ genesis' = genesis
    BY <1>7 DEF GoroutineFails, Advance
  <2>2. /\ Seeds' = Seeds /\ PersistentPeers' = PersistentPeers
        /\ composeLibP2PBootstrapPeers' = composeLibP2PBootstrapPeers
    BY <2>1, PeersUnchanged
  <2>3. ASSUME NEW k \in Nodes, pc = "configure" PROVE Written(k)'
    BY <2>1, <2>2, <2>3 DEF Written, CustomSeedMode
  <2> QED
    BY <2>1, <2>3
<1>8. ASSUME NEW n \in Nodes, AddAccounts(n) \/ Start(n) PROVE TomlInv'
  BY <1>8 DEF AddAccounts, Advance, Start
<1>9. ASSUME NEW n \in Nodes, CreateNode(n) PROVE TomlInv'
  BY <1>9 DEF CreateNode, Advance
<1>10. ASSUME NEW n \in Nodes, CreateWallet(n) PROVE TomlInv'
  BY <1>10 DEF CreateWallet, Advance
<1>11. ASSUME NEW n \in Nodes, InitHome(n) PROVE TomlInv'
  BY <1>11 DEF InitHome, Advance
<1>12. ASSUME NEW n \in Nodes, SetClientConfig(n) PROVE TomlInv'
  BY <1>12 DEF SetClientConfig, Advance
<1>13. ASSUME NEW n \in Nodes, RunGenesisScript(n) PROVE TomlInv'
  BY <1>13 DEF RunGenesisScript, Advance
<1>14. ASSUME NEW n \in Nodes, RestoreNode(n) PROVE TomlInv'
  BY <1>14 DEF RestoreNode, Advance
<1>15. CASE ReadGenesis
  <2>1. pc = "read" /\ toml' = toml
    BY <1>15 DEF ReadGenesis
  <2>2. CASE pc' = "failed"
    BY <2>2
  <2>3. CASE pc' = "configure" /\ Spawn(Nodes)
    <3>1. \A n \in Nodes : g'[n] = 1
      BY <2>3 DEF Spawn
    <3>2. \A n \in Nodes : Written(n)'
      BY <2>1, <3>1 DEF Written
    <3> QED
      BY <2>1, <2>3, <3>2
  <2> QED
    BY <1>15, <2>2, <2>3 DEF ReadGenesis
<1>16. CASE ConfigureDone
  <2>1. pc = "configure" /\ toml' = toml /\ cfg' = cfg /\ fulls' = fulls
    BY <1>16 DEF ConfigureDone, Wait
  <2>2. CASE pc' \in {"failed", "start"}
    BY <2>2
  <2>3. CASE pc' = "seedMode"
    <3>1. cfg.seed /\ \A n \in Nodes : g[n] = OK
      BY <1>16, <2>3 DEF ConfigureDone, Wait
    <3> QED
      BY <2>1, <2>3, <3>1 DEF Written, CustomSeedMode, Seeds
  <2> QED
    BY <1>16, <2>2, <2>3 DEF ConfigureDone, Wait
<1>17. CASE SetupDone \/ BuildWallet \/ CopyGenTx \/ CopiedAll
  BY <1>17 DEF SetupDone, Wait, Spawn, BuildWallet, CopyGenTx, CopiedAll
<1>18. CASE executeGenesisOperations \/ AccountsDone \/ SetSeedMode \/ StartDone
  BY <1>18 DEF executeGenesisOperations, Spawn, AccountsDone, Wait, SetSeedMode, StartDone
<1>19. CASE WaitForStartup \/ Fails
  BY <1>19 DEF WaitForStartup, Fails
<1>20. CASE CreateChain
  BY <1>20 DEF CreateChain, Wait, Spawn
<1>21. CASE Serialize
  BY <1>21 DEF Serialize, Spawn
<1>22. CASE RestoreChain
  BY <1>22 DEF RestoreChain, Wait, Spawn
<1>23. CASE Block
  BY <1>23 DEF Block, Written, CustomSeedMode, Seeds, PersistentPeers,
      composeLibP2PBootstrapPeers
<1>24. CASE ContextDone
  BY <1>24 DEF ContextDone, Written, CustomSeedMode, Seeds, PersistentPeers,
      composeLibP2PBootstrapPeers
<1>25. CASE UNCHANGED vars
  BY <1>25 DEF vars, Written, CustomSeedMode, Seeds, PersistentPeers,
      composeLibP2PBootstrapPeers
<1> HIDE DEF IInv, TypeInv, TomlInv, Over, OK, Err, Waiting
<1> QED
  BY <1>1, <1>2, <1>3, <1>4, <1>5, <1>6, <1>7, <1>8, <1>9, <1>10, <1>11, <1>12, <1>13, <1>14,
      <1>15, <1>16, <1>17, <1>18, <1>19, <1>20, <1>21, <1>22, <1>23, <1>24, <1>25
  DEF Next, Main, Goroutine, configureNode, Terminated

\* Every node is ready at the barrier before the start, and stays so.
LEMMA ReadyStep == ASSUME IInv, [Next]_vars PROVE ReadyInv'
<1> USE DEF IInv, TypeInv, SliceInv, ReadyInv, Ready, Seeded, CustomSeedMode, Over, OK, Err,
    Waiting, chainVars, fileVars
<1>1. ASSUME NEW n \in Nodes, Start(n) PROVE ReadyInv'
  <2>1. /\ pc = "start" /\ pc' = "start" /\ up' = up \cup {n}
        /\ UNCHANGED <<cfg, toml, genesis, genbz>>
    BY <1>1 DEF Start
  <2>2. \A k \in Nodes : Ready(k)'
    BY <2>1
  <2> QED
    BY <2>1, <2>2 DEF Seeded
<1>2. ASSUME NEW n \in Nodes, AddAccounts(n) \/ OverwriteGenesisFile(n) \/ SetChainConfigs(n) \/
    ApplyCustomConfigs(n) PROVE ReadyInv'
  BY <1>2 DEF AddAccounts, Advance, OverwriteGenesisFile, SetChainConfigs, ModifyToml,
      ApplyCustomConfigs
<1>3. ASSUME NEW n \in Nodes, SetPersistentPeers(n) \/ SetSeedNode(n) \/
    SetLibP2PBootstrapPeers(n) PROVE ReadyInv'
  BY <1>3 DEF SetPersistentPeers, Advance, ModifyToml, SetSeedNode, SetLibP2PBootstrapPeers
<1>4. ASSUME NEW n \in Nodes, CreateNode(n) PROVE ReadyInv'
  BY <1>4 DEF CreateNode, Advance
<1>5. ASSUME NEW n \in Nodes, CreateWallet(n) PROVE ReadyInv'
  BY <1>5 DEF CreateWallet, Advance
<1>6. ASSUME NEW n \in Nodes, InitHome(n) PROVE ReadyInv'
  BY <1>6 DEF InitHome, Advance
<1>7. ASSUME NEW n \in Nodes, SetClientConfig(n) PROVE ReadyInv'
  BY <1>7 DEF SetClientConfig, Advance
<1>8. ASSUME NEW n \in Nodes, RunGenesisScript(n) PROVE ReadyInv'
  BY <1>8 DEF RunGenesisScript, Advance
<1>9. ASSUME NEW n \in Nodes, RestoreNode(n) PROVE ReadyInv'
  BY <1>9 DEF RestoreNode, Advance
<1>10. ASSUME NEW n \in Nodes, GoroutineFails(n) PROVE ReadyInv'
  BY <1>10 DEF GoroutineFails, Advance
<1>11. CASE ConfigureDone
  <2>1. /\ pc = "configure" /\ pc' \in {"failed", "seedMode", "start"}
        /\ UNCHANGED <<cfg, toml, genesis, genbz, up>>
    BY <1>11 DEF ConfigureDone, Wait
  <2>2. up = {}
    BY <2>1
  <2>3. CASE pc' = "failed"
    BY <2>1, <2>2, <2>3
  <2>4. CASE pc' # "failed"
    <3>1. \A n \in Nodes : g[n] = OK
      BY <1>11, <2>4 DEF ConfigureDone, Wait
    <3>2. /\ Members(PersistentPeers) = (IF cfg.persistent THEN Nodes ELSE {})
          /\ cfg.persistent => Members(composeLibP2PBootstrapPeers) = Nodes
      BY <2>1, PeersFacts
    <3>3. ASSUME NEW n \in Nodes PROVE Ready(n)
      BY <2>1, <3>1, <3>2 DEF TomlInv, Written
    <3>4. \A n \in Nodes : Ready(n)'
      BY <2>1, <3>3
    <3>5. pc' = "start" => ~cfg.seed
      BY <1>11 DEF ConfigureDone, Wait
    <3> QED
      BY <2>1, <2>2, <3>4, <3>5
  <2> QED
    BY <2>3, <2>4
<1>12. CASE SetSeedMode
  <2> DEFINE m == [seed_mode |-> TRUE, seeds |-> <<>>]
             s == fulls[1]
  <2>1. /\ pc = "seedMode" /\ pc' = "start" /\ UNCHANGED <<cfg, genesis, genbz, up>>
        /\ toml' = [toml EXCEPT ![s] = recursiveModifyToml(@, m)]
    BY <1>12 DEF SetSeedMode
  <2>2. s \in FullNodes /\ s \in Nodes
    BY <2>1, SliceFacts DEF TomlInv, Nodes
  <2>3. DOMAIN m = {"seed_mode", "seeds"} /\ m["seed_mode"] = TRUE /\ m["seeds"] = <<>>
    OBVIOUS
  <2>4. /\ \A k \in Nodes \ {s} : toml'[k] = toml[k]
        /\ \A x \in DOMAIN m : toml'[s][x] = m[x]
        /\ \A x \in TomlKeys \ DOMAIN m : toml'[s][x] = toml[s][x]
    <3>1. DOMAIN toml = Nodes /\ \A k \in Nodes : DOMAIN toml[k] = TomlKeys
      OBVIOUS
    <3>2. DOMAIN m \subseteq TomlKeys /\ toml' = [toml EXCEPT ![s] = recursiveModifyToml(@, m)]
      BY <2>1, <2>3 DEF TomlKeys
    <3> HIDE DEF m, s, IInv
    <3> QED
      BY <2>2, <3>1, <3>2, TomlUpdate
  <2> HIDE DEF m
  <2>5. /\ toml'[s].seed_mode = TRUE /\ toml'[s].seeds = <<>>
        /\ toml'[s].persistent_peers = toml[s].persistent_peers
        /\ toml'[s].bootstrap_peers = toml[s].bootstrap_peers
        /\ toml'[s].timeout_commit = toml[s].timeout_commit
    BY <2>3, <2>4 DEF TomlKeys
  <2>6. \A n \in Nodes : Ready(n)'
    BY <2>1, <2>4, <2>5
  <2>7. \A n \in Nodes \ {s} : toml'[n].seed_mode = CustomSeedMode /\ toml'[n].seeds = <<s>>
    BY <2>1, <2>4 DEF TomlInv, Seeds
  <2>8. Seeded'
    <3>1. CustomSeedMode' = CustomSeedMode
      BY <2>1
    <3> HIDE DEF IInv, CustomSeedMode
    <3> QED
      BY <2>2, <2>5, <2>7, <3>1
  <2>9. up' = {}
    BY <2>1
  <2> QED
    BY <2>1, <2>6, <2>8, <2>9
<1>13. CASE SetupDone \/ BuildWallet \/ CopyGenTx \/ CopiedAll
  <2>1. CASE SetupDone
    BY <2>1 DEF SetupDone, Wait, Spawn
  <2>2. CASE BuildWallet
    BY <2>2 DEF BuildWallet
  <2>3. CASE CopyGenTx \/ CopiedAll
    BY <2>3 DEF CopyGenTx, CopiedAll
  <2> QED
    BY <1>13, <2>1, <2>2, <2>3
<1>14. CASE executeGenesisOperations \/ AccountsDone \/ ReadGenesis \/ StartDone
  <2>1. CASE executeGenesisOperations \/ ReadGenesis
    BY <2>1 DEF executeGenesisOperations, Spawn, ReadGenesis
  <2>2. CASE AccountsDone
    BY <2>2 DEF AccountsDone, Wait, Spawn
  <2>3. CASE StartDone
    BY <2>3 DEF StartDone, Wait, Spawn
  <2> QED
    BY <1>14, <2>1, <2>2, <2>3
<1>15. CASE WaitForStartup \/ Fails
  BY <1>15 DEF WaitForStartup, Fails
<1>16. CASE CreateChain
  BY <1>16 DEF CreateChain, Wait, Spawn
<1>17. CASE Serialize
  BY <1>17 DEF Serialize, Spawn
<1>18. CASE RestoreChain
  BY <1>18 DEF RestoreChain, Wait, Spawn
<1>19. CASE Block
  BY <1>19 DEF Block
<1>20. CASE ContextDone
  BY <1>20 DEF ContextDone
<1>21. CASE UNCHANGED vars
  BY <1>21 DEF vars
<1> HIDE DEF IInv, TypeInv, SliceInv, ReadyInv, Ready, Seeded, CustomSeedMode, Over, OK, Err,
    Waiting
<1> QED
  BY <1>1, <1>2, <1>3, <1>4, <1>5, <1>6, <1>7, <1>8, <1>9, <1>10, <1>11, <1>12, <1>13, <1>14,
      <1>15, <1>16, <1>17, <1>18, <1>19, <1>20, <1>21
  DEF Next, Main, Goroutine, configureNode, Terminated

LEMMA InitInv == Init => IInv
<1> SUFFICES ASSUME Init PROVE IInv
  OBVIOUS
<1> USE DEF Init
<1>1. NoGenesis \in GenesisFiles
  BY DEF NoGenesis, GenesisFiles
<1>2. TypeInv
  <2>1. DOMAIN NoToml = TomlKeys
    BY DEF NoToml, TomlKeys
  <2>2. DOMAIN toml = Nodes /\ \A n \in Nodes : DOMAIN toml[n] = TomlKeys
    BY <2>1
  <2>3. cfg \in Configs /\ pc \in Phases /\ copied \in Nat /\ up \subseteq Nodes
    BY DEF Phases
  <2>4. g \in [Nodes -> 0 .. 11] /\ gentxs \in [Nodes -> SUBSET Validators]
    OBVIOUS
  <2>5. genesis \in [Nodes -> GenesisFiles] /\ genbz \in GenesisFiles
    BY <1>1
  <2> QED
    BY <2>2, <2>3, <2>4, <2>5 DEF TypeInv
<1>3. SliceInv
  <2>1. saved.vals = <<>> /\ pc = "create"
    BY DEF NoSave
  <2>2. vals \in Seq(Validators) /\ fulls \in Seq(FullNodes)
    OBVIOUS
  <2>3. \A n \in Nodes : g[n] # OK
    BY DEF OK
  <2> QED
    BY <2>1, <2>2, <2>3 DEF SliceInv, Nodes
<1>4. WalletInv
  BY DEF WalletInv, NoSave
<1>5. GenesisInv
  BY DEF GenesisInv
<1>6. Balanced(NoGenesis)
  <2> DEFINE u == GenesisBalance(cfg)
  <2>1. u \in Nat
    BY BalanceIsNat
  <2> HIDE DEF u
  <2>2. 0 = (0 + 0) * u
    BY <2>1
  <2> QED
    BY <2>2, FS_EmptySet DEF Balanced, NoGenesis, u
<1>7. SupplyInv
  BY <1>6 DEF SupplyInv
<1>8. TomlInv
  BY DEF TomlInv, NoToml
<1>9. ReadyInv
  BY DEF ReadyInv
<1> QED
  BY <1>2, <1>3, <1>4, <1>5, <1>7, <1>8, <1>9 DEF IInv

LEMMA Invariance == Spec => []IInv
<1>1. IInv /\ [Next]_vars => IInv'
  <2> SUFFICES ASSUME IInv, [Next]_vars PROVE IInv'
    OBVIOUS
  <2>1. /\ TypeInv' /\ SliceInv' /\ WalletInv' /\ GenesisInv' /\ SupplyInv' /\ TomlInv'
        /\ ReadyInv'
    BY TypeStep, SliceStep, WalletStep, GenesisStep, SupplyStep, TomlStep, ReadyStep
  <2> QED
    BY <2>1 DEF IInv
<1> QED
  BY <1>1, InitInv, PTL DEF Spec

-------------------------------------------------------------------------------
(* Theorems *)

\* The wallets of a chain are in the order of its validators, whichever order the goroutines
\* of CreateChain and SetupValidator end in, and again after Serialize and RestoreChain.
THEOREM WalletsInOrder == Spec => []WalletsMatchValidators
<1>1. IInv => WalletsMatchValidators
  <2> SUFFICES ASSUME IInv, NEW i \in DOMAIN wallets, wallets[i] # Unset
               PROVE  wallets[i] = (IF vals[i] = Unset THEN saved.vals[i] ELSE vals[i])
    BY DEF WalletsMatchValidators
  <2>1. CASE saved.vals = <<>>
    <3>1. vals \in Seq(Validators) /\ i \in DOMAIN vals /\ wallets[i] = vals[i]
      BY <2>1 DEF IInv, SliceInv, WalletInv
    <3>2. vals[i] \in Validators
      BY <3>1
    <3> QED
      BY <3>1, <3>2, NamesAssumption DEF Unset, Nodes
  <2>2. CASE saved.vals # <<>>
    BY <2>2 DEF IInv, SliceInv, WalletInv
  <2> QED
    BY <2>1, <2>2
<1> QED
  BY <1>1, Invariance, PTL

\* Every node that Init starts has the one genesis file, with the account and gentx of every
\* validator, the faucet and as many additional accounts as the configuration asks for.
THEOREM GenesisAgreed == Spec => []StartedNodesAgree
<1>1. IInv => StartedNodesAgree
  <2> SUFFICES ASSUME IInv PROVE StartedNodesAgree
    OBVIOUS
  <2>1. cfg \in Configs
    BY DEF IInv, TypeInv
  <2>2. Cardinality(buildAccounts(cfg)) = cfg.extra
    BY <2>1, buildAccountsFacts
  <2>3. \A n \in up : genesis[n] = genbz
    BY DEF IInv, ReadyInv, Ready
  <2>4. up # {} => Complete(genbz)
    BY DEF IInv, GenesisInv
  <2> QED
    BY <2>2, <2>3, <2>4 DEF StartedNodesAgree, Complete, Collected
<1> QED
  BY <1>1, Invariance, PTL

\* In every node's genesis file, at every point of Init, the supply is the sum of what the
\* accounts hold, for every number of validators and of additional accounts.
THEOREM SupplyBalanced == Spec => []SupplyIsSumOfBalances
<1>1. IInv => SupplyIsSumOfBalances
  BY DEF IInv, SupplyInv, Balanced, SupplyIsSumOfBalances
<1> QED
  BY <1>1, Invariance, PTL

\* No node is started before its config.toml names every peer the configuration gives it, and
\* the custom settings have won over the defaults.
THEOREM StartsConfigured == Spec => []StartedNodesConfigured
<1>1. IInv => StartedNodesConfigured
  BY DEF IInv, ReadyInv, Ready, StartedNodesConfigured
<1> QED
  BY <1>1, Invariance, PTL

\* When the nodes have been started, one of them runs as the seed and asks no other, and it is
\* the one every other node asks, whatever the custom settings say of seeds; it is the only one
\* in seed mode unless the custom settings put every node into it.
THEOREM SeedUnique == Spec => []OneSeed
<1>1. IInv => OneSeed
  BY DEF IInv, ReadyInv, Seeded, CustomSeedMode, OneSeed
<1> QED
  BY <1>1, Invariance, PTL
===============================================================================

------------------------------- MODULE MCChain -------------------------------
EXTENDS Chain

Config(s, p, l, e, x, m, c) ==
    [seed |-> s, persistent |-> p, libp2p |-> l, evm |-> e, extra |-> x, mnemonic |-> m,
     custom |-> c]

\* A seed with custom peers, an EVM chain over libp2p with prefunded accounts, prefunded
\* accounts without a mnemonic, and a seed without persistent peers among nodes that the
\* custom settings put into seed mode.
MCConfigs == {
    Config(TRUE, TRUE, FALSE, FALSE, 0, FALSE, {"timeout_commit", "persistent_peers"}),
    Config(FALSE, TRUE, TRUE, TRUE, 2, TRUE, {}),
    Config(FALSE, TRUE, FALSE, FALSE, 1, FALSE, {}),
    Config(TRUE, FALSE, FALSE, FALSE, 0, FALSE, {"seed_mode", "seeds", "persistent_peers"})}
==============================================================================

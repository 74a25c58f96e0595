-------------------------- MODULE MCWorkflowRequests --------------------------
(* Instances of WorkflowRequests for TLC: requests that have every kind of text, each with *)
(* a rule of Validate that it obeys or breaks.                                             *)
EXTENDS WorkflowRequests

Plain ==
    [sha |-> "", runner |-> "docker", evm |-> FALSE, long |-> FALSE, lb |-> FALSE,
     duration |-> "", mnemonic |-> "own", catalyst |-> "v2", spec |-> "", chain |-> TRUE,
     name |-> "simapp", version |-> "v1", peers |-> TRUE, custom |-> "json", genesis |-> NoText]

NoChain == [Plain EXCEPT !.chain = FALSE, !.name = "", !.version = "", !.peers = FALSE,
                         !.custom = ""]

MCRequests ==
    {NoChain,
     [Plain EXCEPT !.genesis = Text("num", 1), !.spec = "broken", !.mnemonic = ""],
     [Plain EXCEPT !.genesis = Text("exp", 1), !.spec = "other", !.custom = "broken", !.sha = "a"],
     [Plain EXCEPT !.genesis = Text("json", 1), !.spec = "cosmos", !.long = TRUE],
     [Plain EXCEPT !.genesis = Text("word", 2), !.runner = "digitalocean", !.lb = TRUE,
                   !.spec = "eth", !.evm = TRUE, !.duration = "bad"]}
===============================================================================

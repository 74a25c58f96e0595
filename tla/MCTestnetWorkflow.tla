--------------------------- MODULE MCTestnetWorkflow ---------------------------
(* Instances of TestnetWorkflow for TLC. *)
EXTENDS TestnetWorkflow

RequestsOf(runners, longRunning) ==
    [runner : runners, longRunning : longRunning, loadBalancer : BOOLEAN, loadTest : BOOLEAN]

DockerRequests == RequestsOf({"docker"}, BOOLEAN)
DigitalOceanRequests == RequestsOf({"digitalocean"}, BOOLEAN)
AllRequests == DockerRequests \cup DigitalOceanRequests

===============================================================================

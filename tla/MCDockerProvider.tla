-------------------------- MODULE MCDockerProvider ---------------------------
EXTENDS DockerProvider

\* A node of the chain, and the load test's task.
MCTasks == {"node", "catalyst"}

MCUses == [t \in MCTasks |->
             IF t = "node" THEN {"RunCommand", "Start", "Stop"}
                           ELSE {"WriteFile", "ReadFile", "Destroy"}]
==============================================================================

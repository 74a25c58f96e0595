--------------------------- MODULE MCReportRunner ---------------------------
(* Flag combinations of the report runner: the default run, a run that stops  *)
(* Catalyst, and the branches that skip parts of it.                          *)
EXTENDS ReportRunner

Default == [runner |-> "testnet", skipBuild |-> FALSE, keep |-> FALSE, bench |-> FALSE,
            evm |-> FALSE, blocks |-> 1, txs |-> 2, percent |-> 100, min |-> 0,
            drain |-> FALSE, stop |-> FALSE, profiles |-> FALSE,
            verify |-> FALSE, audit |-> FALSE, nullIndexer |-> FALSE, dry |-> FALSE]

MCConfigs ==
    {[Default EXCEPT !.stop = TRUE, !.min = 2, !.percent = 50, !.drain = TRUE],
     [Default EXCEPT !.stop = TRUE, !.audit = TRUE, !.skipBuild = TRUE],
     [Default EXCEPT !.evm = TRUE, !.keep = TRUE, !.profiles = TRUE],
     [Default EXCEPT !.bench = TRUE, !.verify = TRUE],
     [Default EXCEPT !.txs = 0, !.audit = TRUE, !.nullIndexer = TRUE],
     [Default EXCEPT !.runner = "celestia"],
     [Default EXCEPT !.runner = "celestia", !.dry = TRUE]}

MCActivities == {{}, {"commit", "check_tx"}}
============================================================================

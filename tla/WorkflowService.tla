---------------------------- MODULE WorkflowService ----------------------------
(***************************************************************************)
(* The gRPC service of server/services/workflow over the SQLite table of   *)
(* server/db, and the background updater of server/grpc_server.go.         *)
(*                                                                         *)
(* The truth about a run is Temporal's; the table is a copy that four      *)
(* actors write without a transaction between them: the handler that       *)
(* creates a run (it starts the run first and inserts the row after), the  *)
(* handler that executes a template (it adds the template to the row), the *)
(* activities that report what they launched, and the updater, which works *)
(* through a snapshot of the table.  The server may die at any point.      *)
(***************************************************************************)
EXTENDS Naturals, FiniteSets

CONSTANTS
    Workflows,  \* workflow ids
    Templates,  \* template ids
    None,       \* no template, no row
    Reports,    \* what activities report: LaunchTestnet's nodes, LaunchLoadBalancer's
    EvmReports, \* the reports whose nodes also have EVM endpoints
    Outcomes,   \* how runs may close
    Limit       \* how many rows the updater lists

ASSUME WorkflowsAssumption == IsFiniteSet(Workflows)
ASSUME NoneAssumption == None \notin Templates \cup Workflows
ASSUME LimitAssumption == Limit \in Nat \ {0}

Closed == {"completed", "failed", "canceled", "terminated"}

ASSUME EvmAssumption == EvmReports \subseteq Reports
ASSUME OutcomesAssumption == Outcomes \subseteq Closed

\* isWorkflowTerminal.
isWorkflowTerminal(s) == s \in Closed

VARIABLES
    temporal,   \* the status of each run as Temporal knows it
    templates,  \* the rows of workflow_templates
    handler,    \* the handler that created the run: its step, and its template
    created,    \* the created_at column: the place of a row in the order of inserts, or 0
    status,     \* the status column
    data,       \* the columns the activities have reported, with the endpoints they hold
    template,   \* the template_id column
    report,     \* what became of each report of each run
    snapshot,   \* the rows the updater has listed and not yet handled
    described   \* the row it is about to update, with the status Temporal gave

table == <<created, status, data, template>>
updater == <<snapshot, described>>
vars == <<temporal, templates, handler, table, report, updater>>

\* A row as the updater keeps it in memory.
NoRow == [id |-> None, status |-> "none", data |-> {}]
RowOf(w) == [id |-> w, status |-> status[w], data |-> data[w]]

Rows == {w \in Workflows : created[w] > 0}

Init ==
    /\ temporal = [w \in Workflows |-> "none"]
    /\ templates = {}
    /\ handler = [w \in Workflows |-> [step |-> "none", template |-> None]]
    /\ created = [w \in Workflows |-> 0]
    /\ status = [w \in Workflows |-> "none"]
    /\ data = [w \in Workflows |-> {}]
    /\ template = [w \in Workflows |-> None]
    /\ report = [w \in Workflows |-> [f \in Reports |-> "none"]]
    /\ snapshot = {}
    /\ described = NoRow

-------------------------------------------------------------------------------
(* Creating runs *)

\* Mutant: the row is inserted even when the run could not be started.
ExecuteWorkflowLogsError(w, t) ==
    /\ handler[w].step = "none"
    /\ t = None \/ t \in templates
    /\ temporal' \in {temporal, [temporal EXCEPT ![w] = "running"]}
    /\ handler' = [handler EXCEPT ![w] = [step |-> "insert", template |-> t]]
    /\ UNCHANGED <<templates, table, report, updater>>

\* CreateWorkflow and ExecuteWorkflowTemplate start the run.  When ExecuteWorkflow returns
\* an error the handler returns it, though the run may have been started.
ExecuteWorkflow(w, t) ==
    /\ handler[w].step = "none"
    /\ t = None \/ t \in templates
    /\ \/ /\ temporal' = [temporal EXCEPT ![w] = "running"]
          /\ handler' = [handler EXCEPT ![w] = [step |-> "insert", template |-> t]]
       \/ /\ temporal' \in {temporal, [temporal EXCEPT ![w] = "running"]}
          /\ handler' = [handler EXCEPT ![w] = [step |-> "failed", template |-> t]]
    /\ UNCHANGED <<templates, table, report, updater>>

\* What the handler does after the insert: reply, or first add the template to the row.
AfterInsert(w) == IF handler[w].template = None THEN "replied" ELSE "template"

\* Mutant: the row starts with Temporal's zero status, "unspecified".
InsertUnspecified(w) ==
    /\ handler[w].step = "insert"
    /\ handler' = [handler EXCEPT ![w].step = AfterInsert(w)]
    /\ created' = [created EXCEPT ![w] = Cardinality(Rows) + 1]
    /\ status' = [status EXCEPT ![w] = "unspecified"]
    /\ UNCHANGED <<temporal, templates, data, template, report, updater>>

\* db.CreateWorkflow: a new row, always with status RUNNING.  An error is only logged.
InsertRow(w) ==
    /\ handler[w].step = "insert"
    /\ handler' = [handler EXCEPT ![w].step = AfterInsert(w)]
    /\ \/ /\ created' = [created EXCEPT ![w] = Cardinality(Rows) + 1]
          /\ status' = [status EXCEPT ![w] = "running"]
       \/ UNCHANGED <<created, status>>
    /\ UNCHANGED <<temporal, templates, data, template, report, updater>>

\* ExecuteWorkflowTemplate's own update of the row; a failure is only a warning.
SetTemplate(w) ==
    /\ handler[w].step = "template"
    /\ handler' = [handler EXCEPT ![w].step = "replied"]
    /\ \/ w \in Rows /\ template' = [template EXCEPT ![w] = handler[w].template]
       \/ UNCHANGED template
    /\ UNCHANGED <<temporal, templates, created, status, data, report, updater>>

CreateWorkflowTemplate(t) ==
    /\ t \notin templates
    /\ templates' = templates \cup {t}
    /\ UNCHANGED <<temporal, handler, table, report, updater>>

\* DeleteWorkflowTemplate does not look at the runs of the template.
DeleteWorkflowTemplate(t) ==
    /\ t \in templates
    /\ templates' = templates \ {t}
    /\ UNCHANGED <<temporal, handler, table, report, updater>>

-------------------------------------------------------------------------------
(* The run and its activities *)

\* The workflow closes (TestnetWorkflow, or an operator terminates it).
RunCloses(w) ==
    /\ temporal[w] = "running"
    /\ temporal' \in {[temporal EXCEPT ![w] = s] : s \in Outcomes}
    /\ UNCHANGED <<templates, handler, table, report, updater>>

Endpoints == {"cosmos", "evm"}

\* The endpoints of the nodes in a report, as the activity sends them.
Sent(f) == IF f \in EvmReports THEN Endpoints ELSE {"cosmos"}

\* convertProtoNodes copies the name, the address and the Rpc, Lcd and Grpc endpoints of each
\* node; Evmrpc and Evmws are dropped.
convertProtoNodes(ends) == ends \cap {"cosmos"}

\* UpdateWorkflowData from an activity, which may outlive its run.  Only the columns of the
\* report are written; without a row it is an error, which the activity only logs.  The
\* acknowledgement of a report that was stored may be lost.
UpdateWorkflowData(w, f) ==
    LET stored == [data EXCEPT ![w] = @ \cup ({f} \X convertProtoNodes(Sent(f)))] IN
    /\ temporal[w] # "none"
    /\ report[w][f] = "none"
    /\ \/ /\ w \in Rows
          /\ data' = stored
          /\ report' \in {[report EXCEPT ![w][f] = a] : a \in {"stored", "lost"}}
       \/ /\ report' = [report EXCEPT ![w][f] = "lost"]
          /\ UNCHANGED data
    /\ UNCHANGED <<temporal, templates, handler, created, status, template, updater>>

-------------------------------------------------------------------------------
(* The status updater *)

\* Mutant: the newest first, whatever the status.
NewerRowFirst(v, w) == created[v] > created[w]

\* The order of db.ListWorkflows: running rows first, the newest first among each kind.
ListedBefore(v, w) ==
    IF (status[v] = "running") = (status[w] = "running") THEN created[v] > created[w]
                                                         ELSE status[v] = "running"

\* db.ListWorkflows: the first n rows in that order.
ListWorkflows(n) == {w \in Rows : Cardinality({v \in Rows : ListedBefore(v, w)}) < n}

\* The ticker fires: the rows are listed, and those that are terminal are passed over.  A
\* failed listing skips the tick.
UpdateWorkflowStatuses ==
    /\ snapshot = {}
    /\ described = NoRow
    /\ snapshot' = {RowOf(w) : w \in {v \in ListWorkflows(Limit) : ~isWorkflowTerminal(status[v])}}
    /\ UNCHANGED <<temporal, templates, handler, table, report, described>>

\* Mutant: a run that cannot be described is taken for failed.
DescribeOrFail(w) ==
    /\ described = NoRow
    /\ \E row \in snapshot :
         /\ row.id = w
         /\ snapshot' = snapshot \ {row}
         /\ \E s \in {temporal[w], "failed"} : described' = [row EXCEPT !.status = s]
    /\ UNCHANGED <<temporal, templates, handler, table, report>>

\* DescribeWorkflowExecution for a row of the snapshot (in any order); the row is to be
\* updated if its status has changed since it was listed.
DescribeWorkflowExecution(w) ==
    /\ described = NoRow
    /\ \E row \in snapshot :
         /\ row.id = w
         /\ snapshot' = snapshot \ {row}
         /\ described' = IF temporal[w] = row.status THEN NoRow
                                                     ELSE [row EXCEPT !.status = temporal[w]]
    /\ UNCHANGED <<temporal, templates, handler, table, report>>

\* Mutant: the whole row of the snapshot is written back.
UpdateWholeRow(w) ==
    /\ described.id = w
    /\ status' = [status EXCEPT ![w] = described.status]
    /\ data' = [data EXCEPT ![w] = described.data]
    /\ described' = NoRow
    /\ UNCHANGED <<temporal, templates, handler, created, template, report, snapshot>>

\* db.UpdateWorkflow, of the status only.
UpdateStatus(w) ==
    /\ described.id = w
    /\ status' = [status EXCEPT ![w] = described.status]
    /\ described' = NoRow
    /\ UNCHANGED <<temporal, templates, handler, created, data, template, report, snapshot>>

\* The call to Temporal or the write to the table fails: logged, on to the next row.
UpdaterError ==
    /\ \/ /\ described = NoRow
          /\ \E row \in snapshot : snapshot' = snapshot \ {row}
          /\ UNCHANGED described
       \/ /\ described # NoRow
          /\ described' = NoRow
          /\ UNCHANGED snapshot
    /\ UNCHANGED <<temporal, templates, handler, table, report>>

-------------------------------------------------------------------------------

\* The server dies with its handlers and its updater; the table stays.
ServerCrash ==
    /\ handler' = [w \in Workflows |->
                     IF handler[w].step \in {"insert", "template"}
                       THEN [handler[w] EXCEPT !.step = "dead"] ELSE handler[w]]
    /\ snapshot' = {}
    /\ described' = NoRow
    /\ UNCHANGED <<temporal, templates, table, report>>

Updater ==
    \/ UpdateWorkflowStatuses
    \/ \E w \in Workflows : DescribeWorkflowExecution(w) \/ UpdateStatus(w)
    \/ UpdaterError

Next ==
    \/ \E w \in Workflows :
         \/ \E t \in Templates \cup {None} : ExecuteWorkflow(w, t)
         \/ InsertRow(w) \/ SetTemplate(w) \/ RunCloses(w)
         \/ \E f \in Reports : UpdateWorkflowData(w, f)
    \/ \E t \in Templates : CreateWorkflowTemplate(t) \/ DeleteWorkflowTemplate(t)
    \/ Updater \/ ServerCrash

Spec == Init /\ [][Next]_vars

\* The ticker keeps firing and a tick goes on to its end.  Failures do not last: a call that
\* is made again and again succeeds at some tick, and some day the server stops crashing (a
\* step that is also one of the updater's is none).
Fairness ==
    /\ WF_vars(Updater)
    /\ \A w \in Workflows : SF_vars(DescribeWorkflowExecution(w)) /\ SF_vars(UpdateStatus(w))
    /\ <>[][ServerCrash => Updater]_vars

FairSpec == Spec /\ Fairness

-------------------------------------------------------------------------------
(* Properties *)

Statuses == {"none", "running"} \cup Closed
Handlers == [step : {"none", "insert", "template", "replied", "failed", "dead"},
             template : Templates \cup {None}]
RowRecords == [id : Workflows, status : Statuses, data : SUBSET (Reports \X Endpoints)]

\* Every variable keeps its type.
TypeOK ==
    /\ temporal \in [Workflows -> Statuses]
    /\ templates \subseteq Templates
    /\ handler \in [Workflows -> Handlers]
    /\ created \in [Workflows -> Nat]
    /\ status \in [Workflows -> Statuses]
    /\ data \in [Workflows -> SUBSET (Reports \X Endpoints)]
    /\ template \in [Workflows -> Templates \cup {None}]
    /\ report \in [Workflows -> [Reports -> {"none", "stored", "lost"}]]
    /\ snapshot \subseteq RowRecords
    /\ described \in RowRecords \cup {NoRow}

\* UpdateWorkflowStatuses never looks at a terminal row again, so a terminal status must be
\* Temporal's: no stale snapshot, late insert or crash makes it anything else.
TerminalRowsAreTrue ==
    \A w \in Workflows : isWorkflowTerminal(status[w]) => temporal[w] = status[w]

\* A report that UpdateWorkflowData acknowledged stays in the row but for the EVM endpoints of
\* its nodes, which convertProtoNodes drops, whatever the updater does with the copy of the row
\* it listed before.
AcknowledgedReportsKept ==
    \A w \in Workflows : \A f \in Reports : \A e \in Sent(f) \ {"evm"} :
        report[w][f] = "stored" => <<f, e>> \in data[w]

\* Every row is of a run that Temporal knows, so GetWorkflow can describe what is listed.
RowsAreRuns == \A w \in Workflows : w \in Rows => temporal[w] # "none"

OpenRows == {w \in Workflows : w \in Rows /\ ~isWorkflowTerminal(status[w])}

\* The status of a closed run reaches its row if from some time on no more rows are open
\* than the updater lists: running rows come first, so rows of closed runs do not use up
\* the limit.
StatusConverges ==
    <>[](Cardinality(OpenRows) <= Limit)
        => \A w \in Workflows :
             w \in Rows /\ isWorkflowTerminal(temporal[w]) ~> status[w] = temporal[w]

===============================================================================

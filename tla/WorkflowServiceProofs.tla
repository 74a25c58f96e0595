------------------------- MODULE WorkflowServiceProofs -------------------------
(***************************************************************************)
(* WorkflowService's safety invariants hold for every finite set of runs,  *)
(* any templates and reports and any listing limit.  To be inductive they  *)
(* need two facts more: a handler inserts a row only for a run that was    *)
(* started (HandlerInv), and a terminal status that the updater is about   *)
(* to write is still Temporal's (UpdaterInv).                              *)
(***************************************************************************)
EXTENDS WorkflowService, FiniteSetTheorems, TLAPS

HandlerInv ==
    \A w \in Workflows : /\ handler[w].step = "none" => temporal[w] = "none"
                         /\ handler[w].step = "insert" => temporal[w] # "none"

UpdaterInv ==
    described.id \in Workflows /\ isWorkflowTerminal(described.status)
        => temporal[described.id] = described.status

IInv ==
    /\ TypeOK
    /\ HandlerInv
    /\ UpdaterInv
    /\ TerminalRowsAreTrue
    /\ AcknowledgedReportsKept
    /\ RowsAreRuns

-------------------------------------------------------------------------------
USE WorkflowsAssumption, NoneAssumption, OutcomesAssumption
USE DEF IInv, TypeOK, HandlerInv, UpdaterInv, TerminalRowsAreTrue, AcknowledgedReportsKept,
        RowsAreRuns, Statuses, Closed, isWorkflowTerminal, NoRow, Rows, table, updater

\* The first state satisfies the invariant.
LEMMA InitInv == Init => IInv
BY DEF Init, Handlers

\* A new row comes after all rows there are.
LEMMA NextPlace == Cardinality(Rows) + 1 \in Nat \ {0}
<1>1. Rows \subseteq Workflows
    OBVIOUS
<1>2. IsFiniteSet(Rows)
    BY <1>1, FS_Subset
<1> QED
    BY <1>2, FS_CardinalityType

\* A handler's record at another step.
LEMMA SetStep ==
    ASSUME NEW h \in Handlers, NEW s \in {"replied", "template"}
    PROVE  [h EXCEPT !.step = s] \in Handlers /\ [h EXCEPT !.step = s].step = s
BY DEF Handlers

\* A row's record with another status.
LEMMA SetRowStatus ==
    ASSUME NEW row \in RowRecords, NEW s \in Statuses
    PROVE  LET new == [row EXCEPT !.status = s]
           IN  new \in RowRecords /\ new.id = row.id /\ new.status = s
BY DEF RowRecords

\* A step of a handler, of a run or of an activity preserves the invariant.
LEMMA RunStep ==
    ASSUME IInv, NEW w \in Workflows,
           \/ \E t \in Templates \cup {None} : ExecuteWorkflow(w, t)
           \/ InsertRow(w) \/ SetTemplate(w) \/ RunCloses(w)
           \/ \E f \in Reports : UpdateWorkflowData(w, f)
    PROVE  IInv'
<1>1. ASSUME NEW t \in Templates \cup {None}, ExecuteWorkflow(w, t) PROVE IInv'
    <2>1. PICK s \in {"insert", "failed"} :
             /\ handler' = [handler EXCEPT ![w] = [step |-> s, template |-> t]]
             /\ s = "insert" => temporal' = [temporal EXCEPT ![w] = "running"]
        BY <1>1 DEF ExecuteWorkflow
    <2>2. temporal[w] = "none" /\ temporal' \in {temporal, [temporal EXCEPT ![w] = "running"]}
        BY <1>1 DEF ExecuteWorkflow
    <2>3. UNCHANGED <<templates, table, report, updater>>
        BY <1>1 DEF ExecuteWorkflow
    <2>7. /\ handler' \in [Workflows -> Handlers]
          /\ handler'[w].step = s
          /\ \A v \in Workflows \ {w} : handler'[v] = handler[v]
        <3> DEFINE h == [step |-> s, template |-> t]
        <3>1. h \in Handlers /\ h.step = s
            BY DEF Handlers
        <3>2. handler \in [Workflows -> Handlers]
            OBVIOUS
        <3>3. handler' = [handler EXCEPT ![w] = h]
            BY <2>1
        <3> HIDE DEF IInv, h
        <3> QED
            BY <3>1, <3>2, <3>3
    <2>8. /\ temporal' \in [Workflows -> Statuses]
          /\ \A v \in Workflows \ {w} : temporal'[v] = temporal[v]
        <3>1. temporal \in [Workflows -> Statuses]
            OBVIOUS
        <3> HIDE DEF IInv
        <3>2. CASE temporal' = temporal
            BY <3>1, <3>2
        <3>3. CASE temporal' = [temporal EXCEPT ![w] = "running"]
            BY <3>1, <3>3
        <3> QED
            BY <2>2, <3>2, <3>3
    <2>4. TypeOK'
        BY <2>3, <2>7, <2>8
    <2>9. s = "insert" => temporal'[w] = "running"
        BY <2>1
    <2>5. HandlerInv'
        BY <2>7, <2>8, <2>9
    <2>6. UpdaterInv' /\ TerminalRowsAreTrue' /\ AcknowledgedReportsKept' /\ RowsAreRuns'
        BY <2>2, <2>3
    <2> QED
        BY <2>4, <2>5, <2>6
<1>2. CASE InsertRow(w)
    <2> DEFINE place == Cardinality(Rows) + 1
    <2>1. place \in Nat \ {0}
        BY NextPlace
    <2>2. /\ handler' = [handler EXCEPT ![w].step = AfterInsert(w)]
          /\ AfterInsert(w) \in {"replied", "template"}
          /\ created' = [created EXCEPT ![w] = place] \/ created' = created
          /\ status' = [status EXCEPT ![w] = "running"] \/ status' = status
          /\ temporal[w] # "none"
          /\ UNCHANGED <<temporal, templates, data, template, report, updater>>
        BY <1>2 DEF InsertRow, AfterInsert
    <2> HIDE DEF place
    <2>7. [handler[w] EXCEPT !.step = AfterInsert(w)] \in Handlers
        BY <2>2, SetStep
    <2>8. handler' \in [Workflows -> Handlers]
        BY <2>2, <2>7
    <2>9. created' \in [Workflows -> Nat] /\ status' \in [Workflows -> Statuses]
        <3>1. created \in [Workflows -> Nat] /\ status \in [Workflows -> Statuses]
            OBVIOUS
        <3> HIDE DEF IInv
        <3> QED
            BY <2>1, <2>2, <3>1
    <2>3. TypeOK'
        BY <2>2, <2>8, <2>9
    <2>4. HandlerInv' /\ UpdaterInv'
        BY <2>2
    <2>5. TerminalRowsAreTrue' /\ AcknowledgedReportsKept'
        BY <2>2
    <2>6. RowsAreRuns'
        BY <2>1, <2>2
    <2> QED
        BY <2>3, <2>4, <2>5, <2>6
<1>3. CASE SetTemplate(w)
    <2>1. [handler[w] EXCEPT !.step = "replied"] \in Handlers
        BY SetStep
    <2>2. handler' = [handler EXCEPT ![w] = [handler[w] EXCEPT !.step = "replied"]]
        BY <1>3 DEF SetTemplate
    <2>3. /\ template' \in [Workflows -> Templates \cup {None}]
          /\ UNCHANGED <<temporal, templates, created, status, data, report, updater>>
        BY <1>3 DEF SetTemplate, Handlers
    <2>4. [handler[w] EXCEPT !.step = "replied"].step = "replied"
        BY SetStep
    <2> QED
        BY <2>1, <2>2, <2>3, <2>4
<1>4. CASE RunCloses(w)
    <2>1. PICK s \in Outcomes : temporal' = [temporal EXCEPT ![w] = s]
        BY <1>4 DEF RunCloses
    <2> QED
        BY <1>4, <2>1 DEF RunCloses
<1>5. ASSUME NEW f \in Reports, UpdateWorkflowData(w, f) PROVE IInv'
    <2> DEFINE r(v) == [report[w] EXCEPT ![f] = v]
    <2> DEFINE new == {f} \X convertProtoNodes(Sent(f))
    <2>1. /\ UNCHANGED <<temporal, templates, handler, created, status, template, updater>>
          /\ \/ /\ data' = [data EXCEPT ![w] = @ \cup new]
                /\ \/ report' = [report EXCEPT ![w] = r("stored")]
                   \/ report' = [report EXCEPT ![w] = r("lost")]
             \/ data' = data /\ report' = [report EXCEPT ![w] = r("lost")]
        BY <1>5 DEF UpdateWorkflowData
    <2>7. /\ new \subseteq Reports \X Endpoints
          /\ \A e \in Sent(f) \ {"evm"} : <<f, e>> \in new
        BY DEF convertProtoNodes, Sent, Endpoints
    <2> HIDE DEF new
    <2>2. \A v \in {"stored", "lost"} :
             /\ r(v) \in [Reports -> {"none", "stored", "lost"}]
             /\ \A g \in Reports : r(v)[g] = IF g = f THEN v ELSE report[w][g]
        OBVIOUS
    <2> HIDE DEF r
    <2>6. /\ report' \in [Workflows -> [Reports -> {"none", "stored", "lost"}]]
          /\ data' \in [Workflows -> SUBSET (Reports \X Endpoints)]
        <3>1. /\ report \in [Workflows -> [Reports -> {"none", "stored", "lost"}]]
              /\ data \in [Workflows -> SUBSET (Reports \X Endpoints)]
            OBVIOUS
        <3> HIDE DEF IInv
        <3>2. report' \in [Workflows -> [Reports -> {"none", "stored", "lost"}]]
            BY <2>1, <2>2, <3>1
        <3>3. data' \in [Workflows -> SUBSET (Reports \X Endpoints)]
            BY <2>1, <2>7, <3>1
        <3> QED
            BY <3>2, <3>3
    <2>3. TypeOK'
        BY <2>1, <2>6
    <2>4. AcknowledgedReportsKept'
        <3>1. SUFFICES ASSUME NEW v \in Workflows, NEW g \in Reports, NEW e \in Sent(g) \ {"evm"},
                              report'[v][g] = "stored"
                       PROVE  <<g, e>> \in data'[v]
            BY DEF Sent
        <3>2. CASE v = w /\ g = f
            BY <2>1, <2>2, <2>7, <3>1, <3>2
        <3>4. CASE v = w /\ g # f
            <4>1. report[v][g] = "stored" /\ data[v] \subseteq data'[v]
                BY <2>1, <2>2, <3>1, <3>4
            <4> QED
                BY <4>1
        <3>3. CASE v # w
            BY <2>1, <3>1, <3>3
        <3> QED
            BY <3>2, <3>3, <3>4
    <2>5. HandlerInv' /\ UpdaterInv' /\ TerminalRowsAreTrue' /\ RowsAreRuns'
        BY <2>1
    <2> QED
        BY <2>3, <2>4, <2>5
<1> QED
    BY <1>1, <1>2, <1>3, <1>4, <1>5

\* A step of the updater preserves the invariant.
LEMMA UpdaterStep ==
    ASSUME IInv, Updater
    PROVE  IInv'
<1>1. CASE UpdateWorkflowStatuses
    <2>1. \A w \in Workflows : RowOf(w) \in RowRecords
        BY DEF RowOf, RowRecords
    <2>2. ListWorkflows(Limit) \subseteq Workflows
        BY DEF ListWorkflows
    <2>3. snapshot' \subseteq RowRecords
        BY <1>1, <2>1, <2>2 DEF UpdateWorkflowStatuses
    <2> QED
        BY <1>1, <2>3 DEF UpdateWorkflowStatuses
<1>2. ASSUME NEW w \in Workflows, DescribeWorkflowExecution(w) PROVE IInv'
    <2>1. PICK row \in snapshot :
             /\ row.id = w
             /\ snapshot' = snapshot \ {row}
             /\ described' \in {NoRow, [row EXCEPT !.status = temporal[w]]}
        BY <1>2 DEF DescribeWorkflowExecution
    <2> DEFINE new == [row EXCEPT !.status = temporal[w]]
    <2>2. new \in RowRecords /\ new.id = w /\ new.status = temporal[w]
        BY <2>1, SetRowStatus
    <2> HIDE DEF new
    <2>3. /\ UNCHANGED <<temporal, templates, handler, table, report>>
          /\ described' = NoRow \/ described' = new
        BY <1>2, <2>1 DEF DescribeWorkflowExecution, new
    <2>4. TypeOK'
        BY <2>1, <2>2, <2>3
    <2>5. UpdaterInv'
        BY <2>2, <2>3
    <2> QED
        BY <2>3, <2>4, <2>5
<1>3. ASSUME NEW w \in Workflows, UpdateStatus(w) PROVE IInv'
    <2>1. described.status \in Statuses
        BY DEF RowRecords
    <2> QED
        BY <1>3, <2>1 DEF UpdateStatus
<1>4. CASE UpdaterError
    BY <1>4 DEF UpdaterError
<1> QED
    BY <1>1, <1>2, <1>3, <1>4 DEF Updater

\* Every step preserves the invariant.
LEMMA NextInv ==
    ASSUME IInv, [Next]_vars
    PROVE  IInv'
<1>1. ASSUME NEW t \in Templates, CreateWorkflowTemplate(t) \/ DeleteWorkflowTemplate(t)
      PROVE  IInv'
    BY <1>1 DEF CreateWorkflowTemplate, DeleteWorkflowTemplate
<1>2. CASE ServerCrash
    <2>1. handler' \in [Workflows -> Handlers]
        BY <1>2 DEF ServerCrash, Handlers
    <2>2. \A w \in Workflows : handler'[w] = handler[w] \/ handler'[w].step = "dead"
        BY <1>2 DEF ServerCrash, Handlers
    <2>3. TypeOK'
        BY <1>2, <2>1 DEF ServerCrash
    <2>4. HandlerInv'
        BY <1>2, <2>2 DEF ServerCrash
    <2> QED
        BY <1>2, <2>3, <2>4 DEF ServerCrash
<1>3. CASE UNCHANGED vars
    BY <1>3 DEF vars
<1> QED
    BY <1>1, <1>2, <1>3, RunStep, UpdaterStep DEF Next

\* The invariant holds in every reachable state.
LEMMA Invariance == Spec => []IInv
<1> HIDE DEF IInv
<1> QED
    BY InitInv, NextInv, PTL DEF Spec

\* The variables of the service keep their types.
THEOREM ServiceTypeCorrect == Spec => []TypeOK
<1>1. IInv => TypeOK
    OBVIOUS
<1> HIDE DEF IInv, TypeOK
<1> QED
    BY <1>1, Invariance, PTL

\* A row whose status isWorkflowTerminal accepts, and that UpdateWorkflowStatuses will never
\* look at again, has the status Temporal has.
THEOREM TerminalTrue == Spec => []TerminalRowsAreTrue
<1>1. IInv => TerminalRowsAreTrue
    OBVIOUS
<1> HIDE DEF IInv, TerminalRowsAreTrue
<1> QED
    BY <1>1, Invariance, PTL

\* No write loses a report that UpdateWorkflowData has acknowledged.
THEOREM ReportsKept == Spec => []AcknowledgedReportsKept
<1>1. IInv => AcknowledgedReportsKept
    OBVIOUS
<1> HIDE DEF IInv, AcknowledgedReportsKept
<1> QED
    BY <1>1, Invariance, PTL

\* CreateWorkflow inserts no row without a run.
THEOREM NoPhantomRows == Spec => []RowsAreRuns
<1>1. IInv => RowsAreRuns
    OBVIOUS
<1> HIDE DEF IInv, RowsAreRuns
<1> QED
    BY <1>1, Invariance, PTL
===============================================================================

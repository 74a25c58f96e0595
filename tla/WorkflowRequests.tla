--------------------------- MODULE WorkflowRequests ---------------------------
(***************************************************************************)
(* What the workflow service makes of a request.  A request comes as a     *)
(* protobuf message, is turned into the workflow's own type by one of two  *)
(* functions that differ (CreateWorkflow for a run,                        *)
(* convertProtoToWorkflowRequest for a template), stored as JSON, and      *)
(* turned back by one of two others (GetWorkflow for a run,                *)
(* convertWorkflowRequestToProto for a template).  A template is executed  *)
(* by turning it back and creating a run from that; a user edits a         *)
(* template, or clones a run, by sending back what the service showed.     *)
(*                                                                         *)
(* Texts are abstracted to their kind: what the parsers tell apart.        *)
(***************************************************************************)
EXTENDS Integers, Sequences, FiniteSets

CONSTANTS
    Templates,      \* template ids
    Requests,       \* the protobuf requests of users
    Shas,           \* the commits a template is executed for
    None,           \* no template, no call in progress
    MaxRuns,        \* bound: rows of the table that are no clones
    MaxRows,        \* bound: rows of the table
    HistoryLimit    \* rows that GetTemplateRunHistory returns

\* The text of a genesis modification's value: digits ("num"), a number that encoding/json
\* writes with digits only, such as 1e6 ("exp"), any other JSON text but a string ("json"), or
\* text that is not JSON ("word"); and how often it is put in quotes, as JSON strings are.
Text(kind, quotes) == [kind |-> kind, quotes |-> quotes]
GenesisTexts == [kind : {"num", "exp", "json", "word"}, quotes : Nat]
NoText == Text("none", 0)

\* A request in protobuf form.  "chain" tells whether it has a chain configuration at all;
\* without one the fields of it are empty.
ProtoRequests ==
    [sha : {""} \cup Shas, runner : {"docker", "digitalocean", "other"}, evm : BOOLEAN,
     long : BOOLEAN, lb : BOOLEAN, duration : {"", "1h", "bad"}, mnemonic : {"", "default", "own"},
     catalyst : {"", "v2"}, spec : {"", "eth", "cosmos", "other", "broken"}, chain : BOOLEAN,
     name : {"", "simapp"}, version : {"", "v1"}, peers : BOOLEAN,
     custom : {"", "json", "broken"}, genesis : {NoText} \cup GenesisTexts]

ASSUME RequestsAssumption ==
    /\ Requests \subseteq ProtoRequests
    /\ \A r \in Requests :
         r.chain \/ (r.name = "" /\ r.version = "" /\ ~r.peers /\ r.custom = "" /\ r.genesis = NoText)
ASSUME BoundsAssumption == MaxRuns \in Nat /\ MaxRows \in Nat /\ HistoryLimit \in Nat \ {0}
ASSUME NoneAssumption == None \notin Templates

VARIABLES
    templates,  \* the stored configuration of each template, or None
    written,    \* history: the request each template is meant to be
    read,       \* what one call has read of a template: an editor's copy, or the copy of
                \* ExecuteWorkflowTemplate before it starts the run
    runs        \* the rows of the table, in the order of inserts

vars == <<templates, written, read, runs>>

-------------------------------------------------------------------------------
(* Conversions *)

\* A value of a genesis modification: a string, or a decoded JSON value.
String(text) == [type |-> "string", text |-> text]
Decoded(text) == [type |-> "json", text |-> text]

\* Digits, dots and a leading minus, with or without one pair of quotes around them.
isNumericString(text) == text.kind = "num" /\ text.quotes \leq 1

\* json.Unmarshal, of text that it can decode: a quoted text is a string without the quotes.
Unmarshal(text) ==
    IF text.quotes > 0 THEN String(Text(text.kind, text.quotes - 1)) ELSE Decoded(text)

\* json.Marshal of a decoded value: a number loses its exponent.
Marshal(text) == IF text.kind = "exp" THEN Text("num", 0) ELSE text

\* Mutant: every text that is JSON is decoded, numbers too.
genesisValueDecodesNumbers(text) == IF text = Text("word", 0) THEN String(text) ELSE Unmarshal(text)

\* CreateWorkflow keeps numeric texts and decodes what else is JSON.
genesisValue(text) ==
    IF isNumericString(text) \/ text = Text("word", 0) THEN String(text) ELSE Unmarshal(text)

parseJSONConfig(text) == IF text = "json" THEN "map" ELSE "nil"
marshalJSONConfig(config) == IF config = "map" THEN "json" ELSE ""

\* decodeLoadTestSpec: the specification counts if its kind is one of two.
decodeLoadTestSpec(text) == IF text \in {"eth", "cosmos"} THEN text ELSE "nil"
encodeLoadTestSpec(spec) == IF spec = "nil" THEN "" ELSE spec

\* The fields that both directions copy as they are.
Copied(r) ==
    [sha |-> r.sha, runner |-> r.runner, evm |-> r.evm, long |-> r.long, lb |-> r.lb,
     duration |-> r.duration, name |-> r.name, peers |-> r.peers]

Union2(f, h) == [k \in DOMAIN f \cup DOMAIN h |-> IF k \in DOMAIN f THEN f[k] ELSE h[k]]

\* What CreateWorkflow makes of a request.
workflowReq(r) ==
    Union2(Copied(r),
           [mnemonic |-> IF r.mnemonic = "" THEN "default" ELSE r.mnemonic,
            catalyst |-> r.catalyst, version |-> r.version,
            custom |-> parseJSONConfig(r.custom), spec |-> decodeLoadTestSpec(r.spec),
            genesis |-> IF r.genesis = NoText THEN <<>> ELSE <<genesisValue(r.genesis)>>])

\* TestnetWorkflowRequest.Validate, and what CreateWorkflow itself refuses.
Validate(q) ==
    /\ q.sha # ""
    /\ q.name # ""
    /\ q.runner \in {"docker", "digitalocean"}
    /\ ~(q.long /\ q.duration # "")
    /\ q.peers
    /\ ~(q.runner = "docker" /\ q.lb)
    /\ IF q.evm THEN q.spec # "cosmos" ELSE q.spec # "eth"

Accepts(r) == r.duration # "bad" /\ r.spec # "broken" /\ Validate(workflowReq(r))

\* Mutant: a template decodes its genesis values as CreateWorkflow does.
convertDecodesGenesis(r) ==
    Union2(Copied(r),
           [mnemonic |-> "", catalyst |-> "", version |-> "",
            custom |-> parseJSONConfig(r.custom), spec |-> decodeLoadTestSpec(r.spec),
            genesis |-> IF r.genesis = NoText THEN <<>> ELSE <<genesisValue(r.genesis)>>])

\* The template form: no mnemonic, catalyst version or chain version, genesis values as they
\* came, a broken load test specification only logged, nothing validated.
convertProtoToWorkflowRequest(r) ==
    Union2(Copied(r),
           [mnemonic |-> "", catalyst |-> "", version |-> "",
            custom |-> parseJSONConfig(r.custom), spec |-> decodeLoadTestSpec(r.spec),
            genesis |-> IF r.genesis = NoText THEN <<>> ELSE <<String(r.genesis)>>])

\* A value as text: a string as it is, anything else as JSON.
genesisText(values) ==
    IF values = <<>> THEN NoText
    ELSE IF values[1].type = "string" THEN values[1].text ELSE Marshal(values[1].text)

\* Mutant: the peer settings of the chain are forgotten.
convertDropsPeers(q) ==
    [Union2(Copied(q),
            [mnemonic |-> "", catalyst |-> "", version |-> "", chain |-> TRUE,
             custom |-> marshalJSONConfig(q.custom), spec |-> encodeLoadTestSpec(q.spec),
             genesis |-> genesisText(q.genesis)]) EXCEPT !.peers = FALSE]

\* Back to protobuf, of a template: always with a chain configuration.
convertWorkflowRequestToProto(q) ==
    Union2(Copied(q),
           [mnemonic |-> "", catalyst |-> "", version |-> "", chain |-> TRUE,
            custom |-> marshalJSONConfig(q.custom), spec |-> encodeLoadTestSpec(q.spec),
            genesis |-> genesisText(q.genesis)])

\* Back to protobuf, of a run: the Config of GetWorkflow's answer.
GetWorkflow(q) ==
    Union2(Copied(q),
           [mnemonic |-> q.mnemonic, catalyst |-> q.catalyst, version |-> q.version, chain |-> TRUE,
            custom |-> marshalJSONConfig(q.custom), spec |-> encodeLoadTestSpec(q.spec),
            genesis |-> genesisText(q.genesis)])

-------------------------------------------------------------------------------
(* Handlers *)

Init ==
    /\ templates = [t \in Templates |-> None]
    /\ written = [t \in Templates |-> None]
    /\ read = None
    /\ runs = <<>>

Existing == {t \in Templates : templates[t] # None}

\* The row of a run that was accepted: what was asked for, the template, the run it clones,
\* and how many clones lie between it and the run that was asked for.
Insert(r, asked, t, of) ==
    /\ Len(runs) < MaxRows
    /\ of # 0 \/ Cardinality({i \in DOMAIN runs : runs[i].of = 0}) < MaxRuns
    /\ Accepts(r)
    /\ runs' = Append(runs, [config |-> workflowReq(r), asked |-> asked, template |-> t, of |-> of,
                             gen |-> IF of = 0 THEN 0 ELSE runs[of].gen + 1])

\* CreateWorkflow; a request it refuses changes nothing.
CreateWorkflow(r) ==
    /\ Insert(r, r, None, 0)
    /\ UNCHANGED <<templates, written, read>>

\* The stored configuration of a template, and what it is meant to be.
Store(t, r, asked) ==
    /\ templates' = [templates EXCEPT ![t] = convertProtoToWorkflowRequest(r)]
    /\ written' = [written EXCEPT ![t] = asked]

\* A new template; an id that is taken is an error.
CreateWorkflowTemplate(t, r) ==
    /\ templates[t] = None
    /\ Store(t, r, r)
    /\ UNCHANGED <<read, runs>>

\* An existing template is replaced.
UpdateWorkflowTemplate(t, r) ==
    /\ t \in Existing
    /\ Store(t, r, r)
    /\ UNCHANGED <<read, runs>>

\* An editor gets a template ...
GetWorkflowTemplate(t) ==
    /\ read = None
    /\ t \in Existing
    /\ read' = [for |-> "edit", template |-> t, asked |-> written[t],
                data |-> convertWorkflowRequestToProto(templates[t])]
    /\ UNCHANGED <<templates, written, runs>>

\* ... and sends it back with another duration: what others wrote since is lost.  A template
\* that is gone is an error.
EditWorkflowTemplate(d) ==
    /\ read # None /\ read.for = "edit"
    /\ IF read.template \in Existing
         THEN Store(read.template, [read.data EXCEPT !.duration = d],
                    [read.asked EXCEPT !.duration = d])
         ELSE UNCHANGED <<templates, written>>
    /\ read' = None
    /\ UNCHANGED runs

\* Runs of the template, and a call that has read it, do not stop it.
DeleteWorkflowTemplate(t) ==
    /\ t \in Existing
    /\ templates' = [templates EXCEPT ![t] = None]
    /\ written' = [written EXCEPT ![t] = None]
    /\ UNCHANGED <<read, runs>>

\* ExecuteWorkflowTemplate reads the template and puts the commit into it ...
ExecuteWorkflowTemplate(t, sha) ==
    /\ read = None
    /\ t \in Existing
    /\ read' = [for |-> "exec", template |-> t, asked |-> [written[t] EXCEPT !.sha = sha],
                data |-> [templates[t] EXCEPT !.sha = sha]]
    /\ UNCHANGED <<templates, written, runs>>

\* ... and creates a run from it, whose row then gets the template's id; that update may
\* fail.  A request that CreateWorkflow refuses is the caller's error.
CreateFromTemplate ==
    /\ read # None /\ read.for = "exec"
    /\ LET r == convertWorkflowRequestToProto(read.data) IN
         \/ \E t \in {read.template, None} : Insert(r, read.asked, t, 0)
         \/ ~Accepts(r) /\ UNCHANGED runs
    /\ read' = None
    /\ UNCHANGED <<templates, written>>

\* A user clones a run: what GetWorkflow shows is sent to CreateWorkflow.
CloneWorkflow(i) ==
    /\ Insert(GetWorkflow(runs[i].config), runs[i].asked, None, i)
    /\ UNCHANGED <<templates, written, read>>

\* The rows of a template: the newest ones, also those of a deleted template with its id.
ListTemplateWorkflows(t, limit) ==
    {i \in DOMAIN runs :
        /\ runs[i].template = t
        /\ Cardinality({j \in DOMAIN runs : j > i /\ runs[j].template = t}) < limit}

\* What GetTemplateRunHistory answers.
GetTemplateRunHistory(t) == ListTemplateWorkflows(t, HistoryLimit)

Next ==
    \/ \E r \in Requests :
         \/ CreateWorkflow(r)
         \/ \E t \in Templates : CreateWorkflowTemplate(t, r) \/ UpdateWorkflowTemplate(t, r)
    \/ \E t \in Templates : \/ GetWorkflowTemplate(t) \/ DeleteWorkflowTemplate(t)
                            \/ \E sha \in Shas : ExecuteWorkflowTemplate(t, sha)
    \/ \E d \in {"", "1h"} : EditWorkflowTemplate(d)
    \/ CreateFromTemplate
    \/ \E i \in DOMAIN runs : CloneWorkflow(i)

Spec == Init /\ [][Next]_vars

-------------------------------------------------------------------------------
(* Properties *)

\* What a template cannot carry: convertProtoToWorkflowRequest drops three fields, and a
\* load test specification it cannot decode.
Carried(r) ==
    [r EXCEPT !.mnemonic = "", !.catalyst = "", !.version = "",
              !.spec = IF @ = "broken" THEN "" ELSE @]

\* A run in a template's history is the run CreateWorkflow would have made of the request
\* the template stood for when it was executed, apart from what a template cannot carry,
\* after any number of edits and through four conversions.
TemplateRunsAsWritten ==
    \A t \in Templates : \A i \in GetTemplateRunHistory(t) :
        runs[i].config = workflowReq(Carried(runs[i].asked))

\* A template is never checked when it is written, yet one whose request CreateWorkflow
\* accepts can be executed, however often it was edited.
TemplatesStayRunnable ==
    \A t \in Existing :
        \A sha \in Shas :
            Accepts([written[t] EXCEPT !.sha = sha])
                => Accepts(convertWorkflowRequestToProto([templates[t] EXCEPT !.sha = sha]))

\* How many clones in a row differ from their originals when the value was asked for with
\* this text: every clone takes one pair of quotes off, but for those around a number, and one
\* more writes a number without its exponent.
Clonings(text) ==
    text.quotes + CASE text.kind = "num" -> -2
                    [] text.kind = "word" -> -1
                    [] text.kind = "exp" -> 1
                    [] OTHER -> 0

\* A clone, and a clone of a clone, asks for the run it was cloned from, except for a genesis
\* value that does not survive GetWorkflow and CreateWorkflow, and such a value settles: after
\* as many clones as its text has layers to lose, every further clone is its original.
ClonesMatch ==
    \A i \in DOMAIN runs : LET j == runs[i].of IN
        j # 0 => /\ \A f \in DOMAIN runs[j].config \ {"genesis"} :
                       runs[i].config[f] = runs[j].config[f]
                 /\ runs[j].gen < Clonings(runs[j].asked.genesis)
                      \/ runs[i].config = runs[j].config
===============================================================================

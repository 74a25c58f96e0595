------------------------ MODULE WorkflowRequestsProofs ------------------------
(***************************************************************************)
(* What a template or a clone makes of a request, for every set of         *)
(* templates, requests and commits and for any number of edits.  The four  *)
(* conversions are first written out field by field; then three facts      *)
(* about their composition carry the invariant: to store what an editor    *)
(* was shown is to store what was written (Restored), a run of a template  *)
(* is a run of what the template can carry (Executed), and a clone is its  *)
(* original but for the genesis value (Cloned), whose text loses a layer   *)
(* with every clone until none is left (GenesisSettles).                   *)
(***************************************************************************)
EXTENDS WorkflowRequests, TLAPS

-------------------------------------------------------------------------------
(* The conversions, field by field *)

\* The genesis values of a request with this text.
Genesis(text) == IF text = NoText THEN <<>> ELSE <<genesisValue(text)>>

\* CreateWorkflow's conversion.
LEMMA workflowReqFields ==
    ASSUME NEW r
    PROVE  workflowReq(r) =
             [sha |-> r.sha, runner |-> r.runner, evm |-> r.evm, long |-> r.long, lb |-> r.lb,
              duration |-> r.duration, name |-> r.name, peers |-> r.peers,
              mnemonic |-> IF r.mnemonic = "" THEN "default" ELSE r.mnemonic,
              catalyst |-> r.catalyst, version |-> r.version,
              custom |-> parseJSONConfig(r.custom), spec |-> decodeLoadTestSpec(r.spec),
              genesis |-> Genesis(r.genesis)]
<1> DEFINE g == Genesis(r.genesis)
           m == IF r.mnemonic = "" THEN "default" ELSE r.mnemonic
           c == parseJSONConfig(r.custom)
           s == decodeLoadTestSpec(r.spec)
<1>1. workflowReq(r) = Union2(Copied(r), [mnemonic |-> m, catalyst |-> r.catalyst,
                                          version |-> r.version, custom |-> c, spec |-> s,
                                          genesis |-> g])
  BY Zenon DEF workflowReq, Genesis
<1> HIDE DEF g, m, c, s
<1> QED
  BY <1>1 DEF Union2, Copied, g, m, c, s

\* The conversion that stores a template.
LEMMA convertProtoFields ==
    ASSUME NEW r
    PROVE  convertProtoToWorkflowRequest(r) =
             [sha |-> r.sha, runner |-> r.runner, evm |-> r.evm, long |-> r.long, lb |-> r.lb,
              duration |-> r.duration, name |-> r.name, peers |-> r.peers,
              mnemonic |-> "", catalyst |-> "", version |-> "",
              custom |-> parseJSONConfig(r.custom), spec |-> decodeLoadTestSpec(r.spec),
              genesis |-> IF r.genesis = NoText THEN <<>> ELSE <<String(r.genesis)>>]
<1> DEFINE g == IF r.genesis = NoText THEN <<>> ELSE <<String(r.genesis)>>
           c == parseJSONConfig(r.custom)
           s == decodeLoadTestSpec(r.spec)
<1>1. convertProtoToWorkflowRequest(r) =
        Union2(Copied(r), [mnemonic |-> "", catalyst |-> "", version |-> "", custom |-> c,
                           spec |-> s, genesis |-> g])
  BY Zenon DEF convertProtoToWorkflowRequest
<1> HIDE DEF g, c, s
<1> QED
  BY <1>1 DEF Union2, Copied, g, c, s

\* The conversion that shows or executes a template.
LEMMA convertWorkflowFields ==
    ASSUME NEW q
    PROVE  convertWorkflowRequestToProto(q) =
             [sha |-> q.sha, runner |-> q.runner, evm |-> q.evm, long |-> q.long, lb |-> q.lb,
              duration |-> q.duration, name |-> q.name, peers |-> q.peers,
              mnemonic |-> "", catalyst |-> "", version |-> "", chain |-> TRUE,
              custom |-> marshalJSONConfig(q.custom), spec |-> encodeLoadTestSpec(q.spec),
              genesis |-> genesisText(q.genesis)]
<1> DEFINE g == genesisText(q.genesis)
           c == marshalJSONConfig(q.custom)
           s == encodeLoadTestSpec(q.spec)
<1>1. convertWorkflowRequestToProto(q) =
        Union2(Copied(q), [mnemonic |-> "", catalyst |-> "", version |-> "", chain |-> TRUE,
                           custom |-> c, spec |-> s, genesis |-> g])
  BY Zenon DEF convertWorkflowRequestToProto
<1> HIDE DEF g, c, s
<1> QED
  BY <1>1 DEF Union2, Copied, g, c, s

\* The conversion that shows a run.
LEMMA GetWorkflowFields ==
    ASSUME NEW q
    PROVE  GetWorkflow(q) =
             [sha |-> q.sha, runner |-> q.runner, evm |-> q.evm, long |-> q.long, lb |-> q.lb,
              duration |-> q.duration, name |-> q.name, peers |-> q.peers,
              mnemonic |-> q.mnemonic, catalyst |-> q.catalyst, version |-> q.version,
              chain |-> TRUE,
              custom |-> marshalJSONConfig(q.custom), spec |-> encodeLoadTestSpec(q.spec),
              genesis |-> genesisText(q.genesis)]
<1> DEFINE g == genesisText(q.genesis)
           c == marshalJSONConfig(q.custom)
           s == encodeLoadTestSpec(q.spec)
<1>1. GetWorkflow(q) =
        Union2(Copied(q), [mnemonic |-> q.mnemonic, catalyst |-> q.catalyst,
                           version |-> q.version, chain |-> TRUE, custom |-> c, spec |-> s,
                           genesis |-> g])
  BY Zenon DEF GetWorkflow
<1> HIDE DEF g, c, s
<1> QED
  BY <1>1 DEF Union2, Copied, g, c, s

-------------------------------------------------------------------------------
(* What comes back from a conversion and its inverse *)

\* Configurations, specifications and genesis texts survive the way out and in again.
LEMMA TextsReturn ==
    ASSUME NEW r \in ProtoRequests
    PROVE  /\ parseJSONConfig(marshalJSONConfig(parseJSONConfig(r.custom))) = parseJSONConfig(r.custom)
           /\ decodeLoadTestSpec(encodeLoadTestSpec(decodeLoadTestSpec(r.spec)))
                = decodeLoadTestSpec(r.spec)
           /\ encodeLoadTestSpec(decodeLoadTestSpec(r.spec)) # "broken"
           /\ genesisText(IF r.genesis = NoText THEN <<>> ELSE <<String(r.genesis)>>) = r.genesis
<1>1. parseJSONConfig(marshalJSONConfig(parseJSONConfig(r.custom))) = parseJSONConfig(r.custom)
  BY DEF parseJSONConfig, marshalJSONConfig
<1>2. /\ decodeLoadTestSpec(encodeLoadTestSpec(decodeLoadTestSpec(r.spec)))
           = decodeLoadTestSpec(r.spec)
      /\ encodeLoadTestSpec(decodeLoadTestSpec(r.spec)) # "broken"
  BY DEF decodeLoadTestSpec, encodeLoadTestSpec
<1>3. genesisText(IF r.genesis = NoText THEN <<>> ELSE <<String(r.genesis)>>) = r.genesis
  BY DEF genesisText, String
<1> QED
  BY <1>1, <1>2, <1>3

\* What an editor is shown of a template that was written as r.
Shown(r) == convertWorkflowRequestToProto(convertProtoToWorkflowRequest(r))

\* What is shown of a stored request, as a record.
LEMMA ShownFields ==
    ASSUME NEW r \in ProtoRequests
    PROVE  Shown(r) =
             [sha |-> r.sha, runner |-> r.runner, evm |-> r.evm, long |-> r.long, lb |-> r.lb,
              duration |-> r.duration, name |-> r.name, peers |-> r.peers,
              mnemonic |-> "", catalyst |-> "", version |-> "", chain |-> TRUE,
              custom |-> marshalJSONConfig(parseJSONConfig(r.custom)),
              spec |-> encodeLoadTestSpec(decodeLoadTestSpec(r.spec)), genesis |-> r.genesis]
<1> DEFINE q == convertProtoToWorkflowRequest(r)
           c == parseJSONConfig(r.custom)
           s == decodeLoadTestSpec(r.spec)
           g == IF r.genesis = NoText THEN <<>> ELSE <<String(r.genesis)>>
<1>1. q = [sha |-> r.sha, runner |-> r.runner, evm |-> r.evm, long |-> r.long, lb |-> r.lb,
           duration |-> r.duration, name |-> r.name, peers |-> r.peers,
           mnemonic |-> "", catalyst |-> "", version |-> "", custom |-> c, spec |-> s,
           genesis |-> g]
  BY convertProtoFields
<1>2. genesisText(g) = r.genesis
  BY TextsReturn
<1> HIDE DEF q, c, s, g
<1>3. /\ q.sha = r.sha /\ q.runner = r.runner /\ q.evm = r.evm /\ q.long = r.long /\ q.lb = r.lb
      /\ q.duration = r.duration /\ q.name = r.name /\ q.peers = r.peers
      /\ q.custom = c /\ q.spec = s /\ q.genesis = g
  BY <1>1
<1>4. convertWorkflowRequestToProto(q) =
             [sha |-> q.sha, runner |-> q.runner, evm |-> q.evm, long |-> q.long, lb |-> q.lb,
              duration |-> q.duration, name |-> q.name, peers |-> q.peers,
              mnemonic |-> "", catalyst |-> "", version |-> "", chain |-> TRUE,
              custom |-> marshalJSONConfig(q.custom), spec |-> encodeLoadTestSpec(q.spec),
              genesis |-> genesisText(q.genesis)]
  BY convertWorkflowFields
<1>5. Shown(r) = convertWorkflowRequestToProto(q)
  BY DEF Shown, q
<1> QED
  BY <1>2, <1>3, <1>4, <1>5 DEF c, s

\* The fields of a request.
ProtoFields == {"sha", "runner", "evm", "long", "lb", "duration", "mnemonic", "catalyst", "spec",
                "chain", "name", "version", "peers", "custom", "genesis"}

\* The same, field by field.
LEMMA ShownFacts ==
    ASSUME NEW r \in ProtoRequests
    PROVE  LET e == Shown(r)
           IN /\ DOMAIN e = ProtoFields
              /\ e.sha = r.sha /\ e.runner = r.runner /\ e.evm = r.evm /\ e.long = r.long
              /\ e.lb = r.lb /\ e.duration = r.duration /\ e.name = r.name /\ e.peers = r.peers
              /\ e.mnemonic = "" /\ e.catalyst = "" /\ e.version = "" /\ e.chain
              /\ e.custom = marshalJSONConfig(parseJSONConfig(r.custom))
              /\ e.spec = encodeLoadTestSpec(decodeLoadTestSpec(r.spec))
              /\ e.genesis = r.genesis
<1> DEFINE e == Shown(r)
           c == marshalJSONConfig(parseJSONConfig(r.custom))
           s == encodeLoadTestSpec(decodeLoadTestSpec(r.spec))
<1>1. e = [sha |-> r.sha, runner |-> r.runner, evm |-> r.evm, long |-> r.long, lb |-> r.lb,
           duration |-> r.duration, name |-> r.name, peers |-> r.peers,
           mnemonic |-> "", catalyst |-> "", version |-> "", chain |-> TRUE,
           custom |-> c, spec |-> s, genesis |-> r.genesis]
  BY ShownFields
<1> HIDE DEF e, c, s
<1>2. DOMAIN e = ProtoFields
  BY <1>1 DEF ProtoFields
<1>3. /\ e.sha = r.sha /\ e.runner = r.runner /\ e.evm = r.evm /\ e.long = r.long
      /\ e.lb = r.lb /\ e.duration = r.duration /\ e.name = r.name /\ e.peers = r.peers
      /\ e.mnemonic = "" /\ e.catalyst = "" /\ e.version = "" /\ e.chain
      /\ e.custom = c /\ e.spec = s /\ e.genesis = r.genesis
  BY <1>1
<1> QED
  BY <1>2, <1>3 DEF e, c, s

\* EditWorkflowTemplate stores what was written, with the new duration.
LEMMA Restored ==
    ASSUME NEW r \in ProtoRequests, NEW d
    PROVE  convertProtoToWorkflowRequest([Shown(r) EXCEPT !.duration = d])
             = convertProtoToWorkflowRequest([r EXCEPT !.duration = d])
<1> DEFINE c == parseJSONConfig(r.custom)
           s == decodeLoadTestSpec(r.spec)
           h == Shown(r)
           e == [h EXCEPT !.duration = d]
           w == [r EXCEPT !.duration = d]
<1>1. parseJSONConfig(marshalJSONConfig(c)) = c /\ decodeLoadTestSpec(encodeLoadTestSpec(s)) = s
  BY TextsReturn
<1>2. /\ e.sha = r.sha /\ e.runner = r.runner /\ e.evm = r.evm /\ e.long = r.long /\ e.lb = r.lb
      /\ e.duration = d /\ e.name = r.name /\ e.peers = r.peers
      /\ e.custom = marshalJSONConfig(c) /\ e.spec = encodeLoadTestSpec(s)
      /\ e.genesis = r.genesis
  <2>1. /\ DOMAIN h = ProtoFields
        /\ h.sha = r.sha /\ h.runner = r.runner /\ h.evm = r.evm /\ h.long = r.long
        /\ h.lb = r.lb /\ h.duration = r.duration /\ h.name = r.name /\ h.peers = r.peers
        /\ h.custom = marshalJSONConfig(c) /\ h.spec = encodeLoadTestSpec(s)
        /\ h.genesis = r.genesis
    BY ShownFacts
  <2> HIDE DEF h, c, s
  <2> QED
    BY <2>1 DEF ProtoFields
<1>3. /\ w.sha = r.sha /\ w.runner = r.runner /\ w.evm = r.evm /\ w.long = r.long /\ w.lb = r.lb
      /\ w.duration = d /\ w.name = r.name /\ w.peers = r.peers
      /\ w.custom = r.custom /\ w.spec = r.spec /\ w.genesis = r.genesis
  BY DEF ProtoRequests
<1> HIDE DEF e, w
<1> DEFINE f(x) == [sha |-> x.sha, runner |-> x.runner, evm |-> x.evm, long |-> x.long,
                    lb |-> x.lb, duration |-> x.duration, name |-> x.name, peers |-> x.peers,
                    mnemonic |-> "", catalyst |-> "", version |-> "",
                    custom |-> parseJSONConfig(x.custom), spec |-> decodeLoadTestSpec(x.spec),
                    genesis |-> IF x.genesis = NoText THEN <<>> ELSE <<String(x.genesis)>>]
<1>4. convertProtoToWorkflowRequest(e) = f(e) /\ convertProtoToWorkflowRequest(w) = f(w)
  BY convertProtoFields
<1>5. parseJSONConfig(e.custom) = parseJSONConfig(w.custom)
      /\ decodeLoadTestSpec(e.spec) = decodeLoadTestSpec(w.spec)
  BY <1>1, <1>2, <1>3
<1>6. f(e) = f(w)
  BY <1>2, <1>3, <1>5
<1> QED
  BY <1>4, <1>6 DEF e, w, h

\* The stored form with another commit.
LEMMA CommitFields ==
    ASSUME NEW r, NEW commit
    PROVE  [convertProtoToWorkflowRequest(r) EXCEPT !.sha = commit] =
             [sha |-> commit, runner |-> r.runner, evm |-> r.evm, long |-> r.long, lb |-> r.lb,
              duration |-> r.duration, name |-> r.name, peers |-> r.peers,
              mnemonic |-> "", catalyst |-> "", version |-> "",
              custom |-> parseJSONConfig(r.custom), spec |-> decodeLoadTestSpec(r.spec),
              genesis |-> IF r.genesis = NoText THEN <<>> ELSE <<String(r.genesis)>>]
<1> DEFINE q == convertProtoToWorkflowRequest(r)
           empty == ""
           c == parseJSONConfig(r.custom)
           s == decodeLoadTestSpec(r.spec)
           g == IF r.genesis = NoText THEN <<>> ELSE <<String(r.genesis)>>
<1>1. q = [sha |-> r.sha, runner |-> r.runner, evm |-> r.evm, long |-> r.long, lb |-> r.lb,
           duration |-> r.duration, name |-> r.name, peers |-> r.peers,
           mnemonic |-> empty, catalyst |-> empty, version |-> empty, custom |-> c, spec |-> s,
           genesis |-> g]
  BY convertProtoFields
<1> HIDE DEF q, c, s, g, empty
<1>2. [q EXCEPT !.sha = commit] =
        [sha |-> commit, runner |-> r.runner, evm |-> r.evm, long |-> r.long, lb |-> r.lb,
         duration |-> r.duration, name |-> r.name, peers |-> r.peers,
         mnemonic |-> empty, catalyst |-> empty, version |-> empty, custom |-> c, spec |-> s,
         genesis |-> g]
  BY <1>1
<1> QED
  BY <1>2, Zenon DEF q, c, s, g, empty

\* ExecuteWorkflowTemplate puts the commit into the stored form as if it had been written there.
LEMMA CommitSet ==
    ASSUME NEW r \in ProtoRequests, NEW commit
    PROVE  [convertProtoToWorkflowRequest(r) EXCEPT !.sha = commit]
             = convertProtoToWorkflowRequest([r EXCEPT !.sha = commit])
<1> DEFINE w == [r EXCEPT !.sha = commit]
<1>1. /\ w.sha = commit /\ w.runner = r.runner /\ w.evm = r.evm /\ w.long = r.long /\ w.lb = r.lb
      /\ w.duration = r.duration /\ w.name = r.name /\ w.peers = r.peers
      /\ w.custom = r.custom /\ w.spec = r.spec /\ w.genesis = r.genesis
  BY DEF ProtoRequests
<1> HIDE DEF w
<1>2. convertProtoToWorkflowRequest(w) =
        [sha |-> commit, runner |-> r.runner, evm |-> r.evm, long |-> r.long, lb |-> r.lb,
         duration |-> r.duration, name |-> r.name, peers |-> r.peers,
         mnemonic |-> "", catalyst |-> "", version |-> "",
         custom |-> parseJSONConfig(r.custom), spec |-> decodeLoadTestSpec(r.spec),
         genesis |-> IF r.genesis = NoText THEN <<>> ELSE <<String(r.genesis)>>]
  BY <1>1, convertProtoFields
<1> QED
  BY <1>2, CommitFields DEF w

\* The run of a template is the run of what the template can carry.
LEMMA Executed ==
    ASSUME NEW r \in ProtoRequests
    PROVE  workflowReq(Shown(r)) = workflowReq(Carried(r))
<1> DEFINE c == parseJSONConfig(r.custom)
           s == decodeLoadTestSpec(r.spec)
           e == Shown(r)
           w == Carried(r)
<1>1. parseJSONConfig(marshalJSONConfig(c)) = c /\ decodeLoadTestSpec(encodeLoadTestSpec(s)) = s
  BY TextsReturn
<1>2. /\ e.sha = r.sha /\ e.runner = r.runner /\ e.evm = r.evm /\ e.long = r.long /\ e.lb = r.lb
      /\ e.duration = r.duration /\ e.name = r.name /\ e.peers = r.peers
      /\ e.mnemonic = "" /\ e.catalyst = "" /\ e.version = ""
      /\ e.custom = marshalJSONConfig(c) /\ e.spec = encodeLoadTestSpec(s)
      /\ e.genesis = r.genesis
  BY ShownFacts
<1>3. /\ w.sha = r.sha /\ w.runner = r.runner /\ w.evm = r.evm /\ w.long = r.long /\ w.lb = r.lb
      /\ w.duration = r.duration /\ w.name = r.name /\ w.peers = r.peers
      /\ w.mnemonic = "" /\ w.catalyst = "" /\ w.version = ""
      /\ w.custom = r.custom /\ w.genesis = r.genesis
      /\ w.spec = IF r.spec = "broken" THEN "" ELSE r.spec
  BY DEF ProtoRequests, Carried
<1>4. decodeLoadTestSpec(w.spec) = s
  BY <1>3 DEF decodeLoadTestSpec
<1> HIDE DEF e, w
<1> DEFINE f(x) == [sha |-> x.sha, runner |-> x.runner, evm |-> x.evm, long |-> x.long,
                    lb |-> x.lb, duration |-> x.duration, name |-> x.name, peers |-> x.peers,
                    mnemonic |-> IF x.mnemonic = "" THEN "default" ELSE x.mnemonic,
                    catalyst |-> x.catalyst, version |-> x.version,
                    custom |-> parseJSONConfig(x.custom), spec |-> decodeLoadTestSpec(x.spec),
                    genesis |-> Genesis(x.genesis)]
<1>5. workflowReq(e) = f(e) /\ workflowReq(w) = f(w)
  BY workflowReqFields
<1>6. parseJSONConfig(e.custom) = parseJSONConfig(w.custom)
      /\ decodeLoadTestSpec(e.spec) = decodeLoadTestSpec(w.spec)
  BY <1>1, <1>2, <1>3, <1>4
<1>7. f(e) = f(w)
  BY <1>2, <1>3, <1>6
<1> HIDE DEF f
<1>8. workflowReq(e) = workflowReq(w)
  BY <1>5, <1>7
<1> QED
  BY <1>8 DEF e, w

\* A request that CreateWorkflow accepts is accepted again when it comes back from a template.
LEMMA Runnable ==
    ASSUME NEW r \in ProtoRequests, Accepts(r)
    PROVE  Accepts(Shown(r))
<1> DEFINE s == decodeLoadTestSpec(r.spec)
           e == Shown(r)
<1>1. /\ e.sha = r.sha /\ e.runner = r.runner /\ e.evm = r.evm /\ e.long = r.long /\ e.lb = r.lb
      /\ e.duration = r.duration /\ e.name = r.name /\ e.peers = r.peers
      /\ e.spec = encodeLoadTestSpec(s)
  BY ShownFacts
<1>2. encodeLoadTestSpec(s) # "broken" /\ decodeLoadTestSpec(encodeLoadTestSpec(s)) = s
  BY TextsReturn
<1> HIDE DEF e, s
<1> DEFINE q == workflowReq(r)
           p == workflowReq(e)
<1>3. /\ q.sha = r.sha /\ q.runner = r.runner /\ q.evm = r.evm /\ q.long = r.long /\ q.lb = r.lb
      /\ q.duration = r.duration /\ q.name = r.name /\ q.peers = r.peers
      /\ q.spec = s
  BY workflowReqFields DEF s
<1>4. /\ p.sha = e.sha /\ p.runner = e.runner /\ p.evm = e.evm /\ p.long = e.long /\ p.lb = e.lb
      /\ p.duration = e.duration /\ p.name = e.name /\ p.peers = e.peers
      /\ p.spec = decodeLoadTestSpec(e.spec)
  BY workflowReqFields
<1>5. r.duration # "bad" /\ Validate(q)
  BY DEF Accepts
<1> HIDE DEF q, p
<1>6. Validate(p)
  <2>1. /\ p.sha = q.sha /\ p.runner = q.runner /\ p.evm = q.evm /\ p.long = q.long
        /\ p.lb = q.lb /\ p.duration = q.duration /\ p.name = q.name /\ p.peers = q.peers
        /\ p.spec = q.spec
    BY <1>1, <1>2, <1>3, <1>4
  <2> QED
    BY <1>5, <2>1 DEF Validate
<1>7. Accepts(e)
  BY <1>1, <1>2, <1>5, <1>6 DEF Accepts, p
<1> QED
  BY <1>7 DEF e

\* A configuration with the fields and defaults of those CreateWorkflow makes.
Built(q) ==
    /\ q = [sha |-> q.sha, runner |-> q.runner, evm |-> q.evm, long |-> q.long, lb |-> q.lb,
            duration |-> q.duration, name |-> q.name, peers |-> q.peers, mnemonic |-> q.mnemonic,
            catalyst |-> q.catalyst, version |-> q.version, custom |-> q.custom, spec |-> q.spec,
            genesis |-> q.genesis]
    /\ "genesis" \in DOMAIN q
    /\ q.mnemonic # "" /\ q.custom \in {"map", "nil"} /\ q.spec \in {"eth", "cosmos", "nil"}

\* Every configuration CreateWorkflow stores is built.
LEMMA BuiltFacts ==
    ASSUME NEW r
    PROVE  Built(workflowReq(r)) /\ workflowReq(r).genesis = Genesis(r.genesis)
<1> DEFINE q == workflowReq(r)
           c == parseJSONConfig(r.custom)
           s == decodeLoadTestSpec(r.spec)
           m == IF r.mnemonic = "" THEN "default" ELSE r.mnemonic
           g == Genesis(r.genesis)
<1>1. q = [sha |-> r.sha, runner |-> r.runner, evm |-> r.evm, long |-> r.long, lb |-> r.lb,
           duration |-> r.duration, name |-> r.name, peers |-> r.peers, mnemonic |-> m,
           catalyst |-> r.catalyst, version |-> r.version, custom |-> c, spec |-> s,
           genesis |-> g]
  BY workflowReqFields
<1>2. m # "" /\ c \in {"map", "nil"} /\ s \in {"eth", "cosmos", "nil"}
  BY DEF parseJSONConfig, decodeLoadTestSpec
<1> HIDE DEF q, c, s, m, g
<1>3. Built(q) /\ q.genesis = g
  BY <1>1, <1>2 DEF Built
<1> QED
  BY <1>3 DEF q, g

\* A clone differs from its original in the genesis values at most.
LEMMA Cloned ==
    ASSUME NEW q, Built(q)
    PROVE  workflowReq(GetWorkflow(q)) = [q EXCEPT !.genesis = Genesis(genesisText(q.genesis))]
<1> DEFINE e == GetWorkflow(q)
           c == marshalJSONConfig(q.custom)
           s == encodeLoadTestSpec(q.spec)
           g == Genesis(genesisText(q.genesis))
<1>1. /\ e.sha = q.sha /\ e.runner = q.runner /\ e.evm = q.evm /\ e.long = q.long /\ e.lb = q.lb
      /\ e.duration = q.duration /\ e.name = q.name /\ e.peers = q.peers
      /\ e.mnemonic = q.mnemonic /\ e.catalyst = q.catalyst /\ e.version = q.version
      /\ e.custom = c /\ e.spec = s /\ e.genesis = genesisText(q.genesis)
  BY GetWorkflowFields
<1>2. parseJSONConfig(c) = q.custom /\ decodeLoadTestSpec(s) = q.spec /\ q.mnemonic # ""
  BY DEF Built, parseJSONConfig, marshalJSONConfig, decodeLoadTestSpec, encodeLoadTestSpec
<1> HIDE DEF e, c, s
<1>3. workflowReq(e) =
             [sha |-> e.sha, runner |-> e.runner, evm |-> e.evm, long |-> e.long, lb |-> e.lb,
              duration |-> e.duration, name |-> e.name, peers |-> e.peers,
              mnemonic |-> IF e.mnemonic = "" THEN "default" ELSE e.mnemonic,
              catalyst |-> e.catalyst, version |-> e.version,
              custom |-> parseJSONConfig(e.custom), spec |-> decodeLoadTestSpec(e.spec),
              genesis |-> Genesis(e.genesis)]
  BY workflowReqFields
<1>4. Genesis(e.genesis) = g
  BY <1>1
<1> HIDE DEF g
<1>5. workflowReq(e) = [sha |-> q.sha, runner |-> q.runner, evm |-> q.evm, long |-> q.long,
            lb |-> q.lb,
            duration |-> q.duration, name |-> q.name, peers |-> q.peers, mnemonic |-> q.mnemonic,
            catalyst |-> q.catalyst, version |-> q.version, custom |-> q.custom, spec |-> q.spec,
            genesis |-> g]
  BY <1>1, <1>2, <1>3, <1>4
<1>6. [q EXCEPT !.genesis = g] =
           [sha |-> q.sha, runner |-> q.runner, evm |-> q.evm, long |-> q.long, lb |-> q.lb,
            duration |-> q.duration, name |-> q.name, peers |-> q.peers, mnemonic |-> q.mnemonic,
            catalyst |-> q.catalyst, version |-> q.version, custom |-> q.custom, spec |-> q.spec,
            genesis |-> g]
  <2> DEFINE sha == q.sha  runner == q.runner  evm == q.evm  long == q.long  lb == q.lb
             duration == q.duration  name == q.name  peers == q.peers  mnemonic == q.mnemonic
             catalyst == q.catalyst  version == q.version  custom == q.custom  spec == q.spec
             genesis == q.genesis
  <2>1. q = [sha |-> sha, runner |-> runner, evm |-> evm, long |-> long, lb |-> lb,
             duration |-> duration, name |-> name, peers |-> peers, mnemonic |-> mnemonic,
             catalyst |-> catalyst, version |-> version, custom |-> custom, spec |-> spec,
             genesis |-> genesis]
    BY DEF Built
  <2> HIDE DEF sha, runner, evm, long, lb, duration, name, peers, mnemonic, catalyst, version,
               custom, spec, genesis
  <2>2. [q EXCEPT !.genesis = g] =
             [sha |-> sha, runner |-> runner, evm |-> evm, long |-> long, lb |-> lb,
             duration |-> duration, name |-> name, peers |-> peers, mnemonic |-> mnemonic,
             catalyst |-> catalyst, version |-> version, custom |-> custom, spec |-> spec,
             genesis |-> g]
    BY <2>1
  <2> QED
    BY <2>2 DEF sha, runner, evm, long, lb, duration, name, peers, mnemonic, catalyst, version,
               custom, spec, genesis
<1> QED
  BY <1>5, <1>6 DEF e, g

\* A value of a request with this text comes back as the value of the same text, or of one
\* that fewer clones change; a text that no clone changes stays so.
LEMMA GenesisSettles ==
    ASSUME NEW text \in {NoText} \cup GenesisTexts
    PROVE  LET shown == genesisText(Genesis(text))
           IN /\ shown \in {NoText} \cup GenesisTexts
              /\ Clonings(text) \in Int
              /\ Clonings(text) \leq 0 => Genesis(shown) = Genesis(text) /\ Clonings(shown) \leq 0
              /\ Clonings(text) > 0 => Clonings(shown) \leq 0 \/ Clonings(shown) = Clonings(text) - 1
<1> DEFINE shown == genesisText(Genesis(text))
<1> USE DEF GenesisTexts, Text, Clonings
<1>1. CASE text = NoText
  BY <1>1 DEF NoText, Genesis, genesisText
<1>2. CASE text \in GenesisTexts
  <2>1. text.kind \in {"num", "exp", "json", "word"} /\ text.quotes \in Nat /\ text # NoText
        /\ text = Text(text.kind, text.quotes)
    BY <1>2 DEF NoText
  <2>2. Genesis(text) = <<genesisValue(text)>>
    BY <2>1 DEF Genesis
  <2>3. CASE isNumericString(text) \/ text = Text("word", 0)
    <3>1. shown = text
      BY <2>2, <2>3 DEF genesisText, genesisValue, String
    <3> QED
      BY <2>1, <2>3, <3>1 DEF isNumericString
  <2>4. CASE ~(isNumericString(text) \/ text = Text("word", 0)) /\ text.quotes > 0
    <3> DEFINE less == Text(text.kind, text.quotes - 1)
    <3>1. shown = less
      BY <2>2, <2>4 DEF genesisText, genesisValue, Unmarshal, String
    <3>2. less \in GenesisTexts /\ less.kind = text.kind /\ less.quotes = text.quotes - 1
      BY <2>1, <2>4
    <3>3. Clonings(less) = Clonings(text) - 1 /\ Clonings(text) \in Int
      BY <2>1, <3>2
    <3>4. Clonings(text) \leq 0 => \/ text.kind = "num" /\ text.quotes = 2
                                   \/ text.kind = "word" /\ text.quotes = 1
      BY <2>1, <2>4 DEF isNumericString
    <3>5. ASSUME Clonings(text) \leq 0 PROVE Genesis(less) = Genesis(text)
      <4>1. isNumericString(less) \/ less = Text("word", 0)
        BY <3>2, <3>4, <3>5 DEF isNumericString
      <4>2. genesisValue(less) = String(less) /\ genesisValue(text) = String(less)
        BY <2>4, <4>1 DEF genesisValue, Unmarshal
      <4>3. less # NoText
        BY <2>1 DEF NoText
      <4> QED
        BY <2>2, <4>2, <4>3 DEF Genesis
    <3> QED
      BY <3>1, <3>2, <3>3, <3>5
  <2>5. CASE ~(isNumericString(text) \/ text = Text("word", 0)) /\ text.quotes = 0
    <3>1. text.kind \in {"exp", "json"}
      BY <2>1, <2>5 DEF isNumericString
    <3>2. shown = Marshal(text)
      BY <2>2, <2>5 DEF genesisText, genesisValue, Unmarshal, Decoded
    <3>3. CASE text.kind = "exp"
      BY <2>1, <2>5, <3>2, <3>3 DEF Marshal
    <3>4. CASE text.kind = "json"
      BY <2>1, <2>5, <3>2, <3>4 DEF Marshal
    <3> QED
      BY <3>1, <3>3, <3>4
  <2> QED
    BY <2>1, <2>3, <2>4, <2>5
<1> QED
  BY <1>1, <1>2

-------------------------------------------------------------------------------
(* The invariant *)

\* What is stored of a template is what was written, converted once, however it was edited.
TemplateInv ==
    /\ DOMAIN templates = Templates /\ DOMAIN written = Templates
    /\ \A t \in Templates : templates[t] # None =>
         /\ written[t] \in ProtoRequests
         /\ templates[t] = convertProtoToWorkflowRequest(written[t])

\* A call holds what it read as it was written then, though others may write since.
ReadInv ==
    read # None =>
      /\ read.template \in Templates /\ read.asked \in ProtoRequests
      /\ read.for \in {"edit", "exec"}
      /\ read.for = "edit" => read.data = Shown(read.asked)
      /\ read.for = "exec" => read.data = convertProtoToWorkflowRequest(read.asked)

\* The genesis value of a row is the value of some text, one that no clone changes or that
\* has lost a layer with every clone since it was asked for.
Settling(g, n, asked) ==
    \E text \in {NoText} \cup GenesisTexts :
        /\ g = Genesis(text)
        /\ Clonings(text) \leq 0 \/ Clonings(text) + n \leq Clonings(asked)

\* What is known of a row of the table.
Row(i) ==
    /\ Built(runs[i].config)
    /\ runs[i].asked \in ProtoRequests
    /\ runs[i].template # None => runs[i].config = workflowReq(Carried(runs[i].asked))
    /\ runs[i].gen \in Nat
    /\ Settling(runs[i].config.genesis, runs[i].gen, runs[i].asked.genesis)

\* A clone comes after its original and asks for the same.
Clone(i) == LET j == runs[i].of IN
    j # 0 => /\ j \in DOMAIN runs
             /\ \A f \in DOMAIN runs[j].config \ {"genesis"} :
                   runs[i].config[f] = runs[j].config[f]
             /\ runs[j].gen < Clonings(runs[j].asked.genesis) \/ runs[i].config = runs[j].config

RunsInv ==
    /\ runs \in Seq({runs[i] : i \in DOMAIN runs})
    /\ \A i \in DOMAIN runs : Row(i) /\ Clone(i)

IInv == TemplateInv /\ ReadInv /\ RunsInv

\* A sequence that grows by one element.
LEMMA AppendFacts ==
    ASSUME NEW s, s \in Seq({s[i] : i \in DOMAIN s}), NEW x
    PROVE  LET a == Append(s, x)
           IN /\ a \in Seq({a[i] : i \in DOMAIN a})
              /\ DOMAIN a = DOMAIN s \cup {Len(s) + 1} /\ Len(s) + 1 \notin DOMAIN s
              /\ \A i \in DOMAIN s : a[i] = s[i]
              /\ a[Len(s) + 1] = x
<1> DEFINE S == {s[i] : i \in DOMAIN s}
           a == Append(s, x)
           R == {a[i] : i \in DOMAIN a}
<1>1. s \in Seq(S)
  OBVIOUS
<1> HIDE DEF S
<1>2. /\ DOMAIN a = DOMAIN s \cup {Len(s) + 1} /\ Len(s) + 1 \notin DOMAIN s
      /\ \A i \in DOMAIN s : a[i] = s[i]
      /\ a[Len(s) + 1] = x
      /\ Len(a) = Len(s) + 1 /\ Len(s) \in Nat
  BY <1>1
<1>3. DOMAIN a = 1 .. Len(a)
  BY <1>1
<1>4. a \in Seq(S \cup {x})
  BY <1>1
<1>5. \A i \in 1 .. Len(a) : a[i] \in R
  BY <1>3
<1>6. a \in Seq(R)
  <2> HIDE DEF a, R
  <2> QED
    BY <1>3, <1>4, <1>5
<1> QED
  BY <1>2, <1>6

\* The row that Insert appends.
LEMMA InsertFacts ==
    ASSUME RunsInv, NEW r, NEW asked \in ProtoRequests, NEW t, NEW of, Insert(r, asked, t, of),
           t # None => workflowReq(r) = workflowReq(Carried(asked)),
           of = 0 => r.genesis = asked.genesis,
           of # 0 => /\ of \in DOMAIN runs /\ r = GetWorkflow(runs[of].config)
                     /\ asked = runs[of].asked
    PROVE  RunsInv'
<1> DEFINE q == workflowReq(r)
           g == IF of = 0 THEN 0 ELSE runs[of].gen + 1
           row == [config |-> q, asked |-> asked, template |-> t, of |-> of, gen |-> g]
<1>0. PICK n : n = Len(runs) + 1
  OBVIOUS
<1>1. runs' = Append(runs, row)
  BY DEF Insert
<1>2. runs \in Seq({runs[i] : i \in DOMAIN runs})
  BY DEF RunsInv
<1>3. row.config = q /\ row.asked = asked /\ row.template = t /\ row.of = of /\ row.gen = g
  OBVIOUS
<1>4. Built(q) /\ q.genesis = Genesis(r.genesis)
  BY BuiltFacts
<1>5. of = 0 => g = 0 /\ q.genesis = Genesis(asked.genesis)
  BY <1>4
<1>11. of # 0 => g = runs[of].gen + 1
  OBVIOUS
<1> HIDE DEF row, q, g
<1>6. /\ runs' \in Seq({runs'[i] : i \in DOMAIN runs'})
      /\ DOMAIN runs' = DOMAIN runs \cup {n} /\ n \notin DOMAIN runs
      /\ \A i \in DOMAIN runs : runs'[i] = runs[i]
      /\ runs'[n] = row
  <2> DEFINE a == Append(runs, row)
  <2>1. /\ a \in Seq({a[i] : i \in DOMAIN a})
        /\ DOMAIN a = DOMAIN runs \cup {Len(runs) + 1} /\ Len(runs) + 1 \notin DOMAIN runs
        /\ \A i \in DOMAIN runs : a[i] = runs[i]
        /\ a[Len(runs) + 1] = row
    BY <1>2, AppendFacts, Zenon
  <2>2. runs' = a
    BY <1>1
  <2> HIDE DEF a
  <2> QED
    BY <1>0, <2>1, <2>2, Zenon
<1>7. ASSUME of # 0
      PROVE  /\ g \in Nat /\ Settling(q.genesis, g, asked.genesis)
             /\ \A f \in DOMAIN runs[of].config \ {"genesis"} : q[f] = runs[of].config[f]
             /\ runs[of].gen < Clonings(asked.genesis) \/ q = runs[of].config
  <2> DEFINE p == runs[of].config
             k == runs[of].gen
  <2>1. Row(of) /\ runs[of].asked = asked
    BY <1>7 DEF RunsInv
  <2>2. Built(p) /\ k \in Nat /\ Settling(p.genesis, k, asked.genesis) /\ g = k + 1
    BY <1>7, <1>11, <2>1 DEF Row
  <2>3. PICK text \in {NoText} \cup GenesisTexts :
               /\ p.genesis = Genesis(text)
               /\ Clonings(text) \leq 0 \/ Clonings(text) + k \leq Clonings(asked.genesis)
    BY <2>2 DEF Settling
  <2> DEFINE shown == genesisText(Genesis(text))
             v == Genesis(shown)
  <2>4. q = [p EXCEPT !.genesis = v]
    BY <1>7, <2>2, <2>3, Cloned DEF q
  <2>5. /\ shown \in {NoText} \cup GenesisTexts
        /\ Clonings(text) \in Int
        /\ Clonings(text) \leq 0 => v = Genesis(text) /\ Clonings(shown) \leq 0
        /\ Clonings(text) > 0 => Clonings(shown) \leq 0 \/ Clonings(shown) = Clonings(text) - 1
    BY GenesisSettles
  <2>6. "genesis" \in DOMAIN p
    BY <2>2 DEF Built
  <2>7. asked.genesis \in {NoText} \cup GenesisTexts
    BY DEF ProtoRequests
  <2>8. Clonings(asked.genesis) \in Int
    BY <2>7, GenesisSettles
  <2> HIDE DEF p, k, v, shown
  <2>9. q.genesis = v /\ \A f \in DOMAIN p \ {"genesis"} : q[f] = p[f]
    BY <2>4, <2>6
  <2>10. Clonings(shown) \leq 0 \/ Clonings(shown) + g \leq Clonings(asked.genesis)
    BY <2>2, <2>3, <2>5, <2>8
  <2>11. Settling(q.genesis, g, asked.genesis)
    BY <2>5, <2>9, <2>10 DEF Settling, v
  <2>12. k < Clonings(asked.genesis) \/ q = p
    <3>1. CASE Clonings(text) \leq 0
      <4>1. v = p.genesis
        BY <2>3, <2>5, <3>1
      <4>2. q = p
        BY <2>2, <2>4, <4>1 DEF Built
      <4> QED
        BY <4>2
    <3>2. CASE Clonings(text) > 0
      BY <2>2, <2>3, <2>5, <2>8, <3>2
    <3> QED
      BY <2>5, <3>1, <3>2
  <2> QED
    BY <2>2, <2>9, <2>11, <2>12 DEF p, k
<1>12. g \in Nat /\ Settling(q.genesis, g, asked.genesis)
  <2>1. CASE of # 0
    BY <1>7, <2>1
  <2>2. CASE of = 0
    <3>1. asked.genesis \in {NoText} \cup GenesisTexts
      BY DEF ProtoRequests
    <3>2. Clonings(asked.genesis) \in Int
      BY <3>1, GenesisSettles
    <3>3. Clonings(asked.genesis) + 0 \leq Clonings(asked.genesis)
      BY <3>2
    <3> QED
      BY <1>5, <2>2, <3>1, <3>3 DEF Settling
  <2> QED
    BY <2>1, <2>2
<1>8. ASSUME NEW i \in DOMAIN runs PROVE Row(i)' /\ Clone(i)'
  <2>1. Row(i) /\ Clone(i)
    BY DEF RunsInv
  <2>2. runs'[i] = runs[i]
    BY <1>6
  <2>3. Row(i)'
    BY <2>1, <2>2 DEF Row
  <2>4. Clone(i)'
    BY <1>6, <2>1, <2>2 DEF Clone
  <2> QED
    BY <2>3, <2>4
<1>9. Row(n)'
  BY <1>3, <1>4, <1>6, <1>12 DEF Row, q
<1>10. Clone(n)'
  <2>1. of # 0 => of \in DOMAIN runs /\ runs'[of] = runs[of] /\ runs[of].asked = asked
    BY <1>6
  <2> QED
    BY <1>3, <1>6, <1>7, <2>1 DEF Clone
<1> QED
  BY <1>6, <1>8, <1>9, <1>10 DEF RunsInv

\* The requests users may send, and what a commit or a duration makes of one.
LEMMA RequestFacts ==
    /\ Requests \subseteq ProtoRequests
    /\ \A r \in ProtoRequests :
         /\ \A sha \in Shas : [r EXCEPT !.sha = sha] \in ProtoRequests
         /\ \A d \in {"", "1h"} : [r EXCEPT !.duration = d] \in ProtoRequests
<1>1. ASSUME NEW r \in ProtoRequests, NEW sha \in Shas PROVE [r EXCEPT !.sha = sha] \in ProtoRequests
  BY DEF ProtoRequests
<1>2. ASSUME NEW r \in ProtoRequests, NEW d \in {"", "1h"}
      PROVE  [r EXCEPT !.duration = d] \in ProtoRequests
  BY DEF ProtoRequests
<1> QED
  BY <1>1, <1>2, RequestsAssumption

-------------------------------------------------------------------------------
(* The handlers *)

\* An empty database.
LEMMA InitInv == Init => IInv
BY DEF Init, IInv, TemplateInv, ReadInv, RunsInv

\* Storing what was written keeps the templates' part.
LEMMA StoreFacts ==
    ASSUME TemplateInv, NEW t \in Templates, NEW r, NEW asked \in ProtoRequests,
           convertProtoToWorkflowRequest(r) = convertProtoToWorkflowRequest(asked),
           Store(t, r, asked)
    PROVE  TemplateInv'
<1> DEFINE q == convertProtoToWorkflowRequest(asked)
<1>1. /\ templates' = [templates EXCEPT ![t] = q]
      /\ written' = [written EXCEPT ![t] = asked]
  BY DEF Store
<1>2. ASSUME NEW u \in Templates, templates'[u] # None
      PROVE  /\ written'[u] \in ProtoRequests
             /\ templates'[u] = convertProtoToWorkflowRequest(written'[u])
  <2>1. CASE u = t
    BY <1>1, <2>1 DEF TemplateInv
  <2>2. CASE u # t
    BY <1>1, <1>2, <2>2 DEF TemplateInv
  <2> QED
    BY <2>1, <2>2
<1>3. DOMAIN templates' = Templates /\ DOMAIN written' = Templates
  BY <1>1 DEF TemplateInv
<1> QED
  BY <1>2, <1>3 DEF TemplateInv

\* Every handler keeps the templates what was written.
LEMMA TemplateStep == ASSUME IInv, [Next]_vars PROVE TemplateInv'
<1> USE DEF IInv
<1>1. ASSUME NEW r \in Requests, NEW t \in Templates,
             CreateWorkflowTemplate(t, r) \/ UpdateWorkflowTemplate(t, r)
      PROVE  TemplateInv'
  BY <1>1, StoreFacts, RequestFacts DEF CreateWorkflowTemplate, UpdateWorkflowTemplate
<1>2. ASSUME NEW d \in {"", "1h"}, EditWorkflowTemplate(d) PROVE TemplateInv'
  <2>1. CASE UNCHANGED <<templates, written>>
    BY <2>1 DEF TemplateInv
  <2>2. CASE Store(read.template, [read.data EXCEPT !.duration = d],
                   [read.asked EXCEPT !.duration = d])
    <3> DEFINE a == [read.asked EXCEPT !.duration = d]
               e == [read.data EXCEPT !.duration = d]
    <3>1. /\ read.template \in Templates /\ read.asked \in ProtoRequests
          /\ read.data = Shown(read.asked)
      BY <1>2 DEF EditWorkflowTemplate, ReadInv
    <3>2. a \in ProtoRequests
      BY <3>1, RequestFacts
    <3>3. convertProtoToWorkflowRequest(e) = convertProtoToWorkflowRequest(a)
      BY <3>1, Restored
    <3>4. Store(read.template, e, a)
      BY <2>2
    <3> HIDE DEF e, a
    <3> QED
      BY <3>1, <3>2, <3>3, <3>4, StoreFacts
  <2> QED
    BY <1>2, <2>1, <2>2 DEF EditWorkflowTemplate
<1>3. ASSUME NEW t \in Templates, DeleteWorkflowTemplate(t) PROVE TemplateInv'
  BY <1>3 DEF DeleteWorkflowTemplate, TemplateInv
<1>4. CASE UNCHANGED <<templates, written>>
  BY <1>4 DEF TemplateInv
<1> QED
  BY <1>1, <1>2, <1>3, <1>4
  DEF Next, vars, CreateWorkflow, GetWorkflowTemplate, ExecuteWorkflowTemplate,
      CreateFromTemplate, CloneWorkflow

\* A call that reads a template holds it as it was written.
LEMMA ReadStep == ASSUME IInv, [Next]_vars PROVE ReadInv'
<1> USE DEF IInv
<1>1. ASSUME NEW t \in Templates, GetWorkflowTemplate(t) PROVE ReadInv'
  <2> DEFINE c == convertWorkflowRequestToProto(templates[t])
  <2>1. /\ written[t] \in ProtoRequests /\ c = Shown(written[t])
        /\ read' = [for |-> "edit", template |-> t, asked |-> written[t], data |-> c]
    BY <1>1 DEF GetWorkflowTemplate, Existing, TemplateInv, Shown
  <2> HIDE DEF c
  <2>2. /\ read'.for = "edit" /\ read'.template = t /\ read'.asked = written[t]
        /\ read'.data = c
    BY <2>1
  <2> QED
    BY <2>1, <2>2 DEF ReadInv
<1>2. ASSUME NEW t \in Templates, NEW sha \in Shas, ExecuteWorkflowTemplate(t, sha)
      PROVE  ReadInv'
  <2> DEFINE a == [written[t] EXCEPT !.sha = sha]
             c == [templates[t] EXCEPT !.sha = sha]
  <2>1. /\ written[t] \in ProtoRequests
        /\ templates[t] = convertProtoToWorkflowRequest(written[t])
        /\ read' = [for |-> "exec", template |-> t, asked |-> a, data |-> c]
    BY <1>2 DEF ExecuteWorkflowTemplate, Existing, TemplateInv
  <2>2. a \in ProtoRequests
    BY <2>1, RequestFacts
  <2>3. c = convertProtoToWorkflowRequest(a)
    BY <2>1, CommitSet
  <2> HIDE DEF a, c
  <2>4. read'.for = "exec" /\ read'.template = t /\ read'.asked = a /\ read'.data = c
    BY <2>1
  <2> QED
    BY <2>2, <2>3, <2>4 DEF ReadInv
<1>3. CASE read' = None
  BY <1>3 DEF ReadInv
<1>4. CASE UNCHANGED read
  BY <1>4 DEF ReadInv
<1> QED
  BY <1>1, <1>2, <1>3, <1>4
  DEF Next, vars, CreateWorkflow, CreateWorkflowTemplate, UpdateWorkflowTemplate,
      EditWorkflowTemplate, DeleteWorkflowTemplate, CreateFromTemplate, CloneWorkflow

\* Every row keeps its place, its configuration and its original.
LEMMA RunsStep == ASSUME IInv, [Next]_vars PROVE RunsInv'
<1> USE DEF IInv
<1>1. ASSUME NEW r \in Requests, CreateWorkflow(r) PROVE RunsInv'
  <2>1. Insert(r, r, None, 0) /\ r \in ProtoRequests
    BY <1>1, RequestFacts DEF CreateWorkflow
  <2> QED
    BY <2>1, InsertFacts
<1>2. CASE CreateFromTemplate
  <2> DEFINE r == convertWorkflowRequestToProto(read.data)
  <2>1. /\ read.asked \in ProtoRequests
        /\ r = Shown(read.asked)
    BY <1>2 DEF CreateFromTemplate, ReadInv, Shown
  <2>2. workflowReq(r) = workflowReq(Carried(read.asked))
    BY <2>1, Executed
  <2>3. r.genesis = read.asked.genesis
    BY <2>1, ShownFacts
  <2> HIDE DEF r
  <2>4. ASSUME NEW t, Insert(r, read.asked, t, 0) PROVE RunsInv'
    BY <2>1, <2>2, <2>3, <2>4, InsertFacts
  <2>5. CASE UNCHANGED runs
    BY <2>5 DEF RunsInv, Row, Clone
  <2> QED
    BY <1>2, <2>4, <2>5 DEF CreateFromTemplate, r
<1>3. ASSUME NEW i \in DOMAIN runs, CloneWorkflow(i) PROVE RunsInv'
  <2> DEFINE r == GetWorkflow(runs[i].config)
  <2>1. Insert(r, runs[i].asked, None, i) /\ r = GetWorkflow(runs[i].config)
    BY <1>3 DEF CloneWorkflow
  <2>2. runs[i].asked \in ProtoRequests
    BY DEF RunsInv, Row
  <2>3. i # 0
    BY DEF RunsInv
  <2> HIDE DEF r
  <2> QED
    BY <2>1, <2>2, <2>3, InsertFacts
<1>4. CASE UNCHANGED runs
  BY <1>4 DEF RunsInv, Row, Clone
<1> QED
  BY <1>1, <1>2, <1>3, <1>4
  DEF Next, vars, CreateWorkflowTemplate, UpdateWorkflowTemplate, GetWorkflowTemplate,
      EditWorkflowTemplate, DeleteWorkflowTemplate, ExecuteWorkflowTemplate

\* IInv is an invariant of the service.
LEMMA Invariance == Spec => []IInv
<1>1. IInv /\ [Next]_vars => IInv'
  BY TemplateStep, ReadStep, RunsStep DEF IInv
<1> QED
  BY InitInv, <1>1, PTL DEF Spec

-------------------------------------------------------------------------------
(* Theorems *)

\* A run in a template's history is the run CreateWorkflow would have made of the request the
\* template stood for, apart from what a template cannot carry, after any number of edits.
THEOREM RunsAsWritten == Spec => []TemplateRunsAsWritten
<1>1. IInv => TemplateRunsAsWritten
  BY NoneAssumption DEF IInv, RunsInv, Row, TemplateRunsAsWritten, GetTemplateRunHistory,
                        ListTemplateWorkflows
<1> QED
  BY <1>1, Invariance, PTL

\* A template that was written with a request CreateWorkflow accepts can be executed for any
\* commit, however often it was edited and though nothing checks it when it is stored.
THEOREM StaysRunnable == Spec => []TemplatesStayRunnable
<1>1. IInv => TemplatesStayRunnable
  <2> SUFFICES ASSUME IInv, NEW t \in Existing, NEW sha \in Shas,
                      Accepts([written[t] EXCEPT !.sha = sha])
               PROVE  Accepts(convertWorkflowRequestToProto([templates[t] EXCEPT !.sha = sha]))
    BY DEF TemplatesStayRunnable
  <2> DEFINE a == [written[t] EXCEPT !.sha = sha]
             c == [templates[t] EXCEPT !.sha = sha]
  <2>1. written[t] \in ProtoRequests /\ templates[t] = convertProtoToWorkflowRequest(written[t])
    BY DEF IInv, TemplateInv, Existing
  <2>2. a \in ProtoRequests
    BY <2>1, RequestFacts
  <2>3. c = convertProtoToWorkflowRequest(a)
    BY <2>1, CommitSet
  <2>4. Accepts(a)
    OBVIOUS
  <2> HIDE DEF a, c
  <2>5. Accepts(convertWorkflowRequestToProto(c))
    BY <2>2, <2>3, <2>4, Runnable DEF Shown
  <2> QED
    BY <2>5 DEF c
<1> QED
  BY <1>1, Invariance, PTL

\* A clone asks for the run it was cloned from, but for a genesis value with quotes or an
\* exponent to lose, and after as many clones as there are such layers nothing changes any more.
THEOREM ClonesAgree == Spec => []ClonesMatch
<1>1. IInv => ClonesMatch
  BY DEF IInv, RunsInv, Clone, ClonesMatch
<1> QED
  BY <1>1, Invariance, PTL
===============================================================================

------------------------------ MODULE Gateway -------------------------------
(***************************************************************************)
(* Whether an answer is the answer of the model that was asked for         *)
(* (gw-providers serving_profile consistency.rs, gateway.rs, validity.rs;  *)
(* gw-schema model_identity/execution.rs).  A prepared request goes out in *)
(* attempts, replicas restart and reload, measure what they have loaded,   *)
(* answer late and out of order; the caller then compares one request, one *)
(* answer and what evidence it holds, along three axes.                    *)
(* Documents are compared field by field, an identity is the document.     *)
(***************************************************************************)
EXTENDS Integers, FiniteSets, FiniteSetsExt

CONSTANTS None, Unknown,
          Prepared,  \* the prepared request: [semantics, endpoint, body]
          Artifacts, \* identities, each [base, parents, settled, tokenizer, template]
          Loads,     \* what a replica may come up with: [semantics, loaded, endpoint], and what its
                     \* report leaves open: [method, verifier, hidden, lasting, revocable]
          Replicas, Attempts,
          MaxTime,   \* bound: the clock
          MaxReadings, \* bound: revocation interpretations
          MaxReloads  \* bound: reloads of a replica

VARIABLES now,
          replicas,  \* per replica: [incarnation, load, evidence]
          documents, \* deployment evidence published so far
          snapshots, \* revocation interpretations published so far
          sent,      \* requests by attempt
          answers    \* [response, replica, load]: what came back, and from what
vars == <<now, replicas, documents, snapshots, sent, answers>>

\* The parts of a declaration that may be unknown, and those that may not.
Declared == {"artifact", "additional", "tokenizer", "template", "profile", "runtime"}
Fixed == {"operation", "adapter"}

--------------------------------------------------------------------------
(* An axis is the worst of its findings: 0 consistent, 1 unknown, 2        *)
(* mismatch (ConsistencyAxis::note, aggregate).                            *)

worst(findings) == Max(findings \cup {0})
Mismatched(test) == IF test THEN 2 ELSE 0
Missing(test) == IF test THEN 1 ELSE 0
\* compare: an unknown side is unknown, whatever the other says.
compare(a, b) == IF a = Unknown \/ b = Unknown THEN 1 ELSE Mismatched(a # b)

\* semantics_complete, declaration.
semantics_complete(s) ==
    (\A f \in Declared : s[f] # Unknown) /\ (s.template = None => s.operation # "chat")
declaration(s) ==
    {Missing(~semantics_complete(s)), Mismatched(s.operation = "chat" /\ s.template = None),
     Mismatched(s.profile # Unknown /\ s.profile # s.adapter)}
Primary(s) == IF s.artifact = Unknown THEN {} ELSE {s.artifact}
Additional(s) == IF s.additional = Unknown THEN {} ELSE s.additional
\* required_artifacts, loaded_artifacts.
required_artifacts(s) ==
    IF s.artifact = Unknown \/ s.additional = Unknown THEN Unknown ELSE {s.artifact} \cup s.additional
loaded_artifacts(s, loaded) == compare(required_artifacts(s), loaded)
\* resolve: the artifacts named and everything behind them, from the supplied ones.
Behind(ids, supplied) ==
    LET Step[n \in Nat] == IF n = 0 THEN ids
                           ELSE Step[n - 1] \cup UNION {Artifacts[i].parents : i \in Step[n - 1] \cap supplied}
    IN Step[Cardinality(DOMAIN Artifacts)]
resolve(s, supplied) ==
    LET ids == Behind(Primary(s) \cup Additional(s), supplied)
        pinned == Primary(s) \cap supplied
        unused == s.template = None /\ s.operation # "chat"
    IN {Missing(s.artifact = Unknown \/ s.additional = Unknown), Missing(ids \ supplied # {}),
        Missing(\E i \in ids \cap supplied : Artifacts[i].settled = Unknown),
        Mismatched(\E i \in ids \cap supplied : Artifacts[i].settled = FALSE)}
       \cup {compare(s.tokenizer, Artifacts[i].tokenizer) : i \in pinned}
       \cup {IF unused THEN 0 ELSE compare(s.template, Artifacts[i].template) : i \in pinned}
\* semantics: requested against effective.
semantics(requested, d, supplied) ==
    declaration(requested) \cup resolve(requested, supplied)
    \cup (IF d = None THEN {1}
          ELSE declaration(d.effective) \cup resolve(d.effective, supplied)
               \cup {Mismatched(\E f \in Fixed : requested[f] # d.effective[f])}
               \cup {compare(requested[f], d.effective[f]) : f \in Declared}
               \cup {loaded_artifacts(requested, d.loaded)})

\* binding, but for the attempt.
BoundElse(q, r, d) ==
    {Mismatched(q.target # Prepared.semantics), Mismatched(r.target \notin {Unknown, q.target}),
     Missing(r.target = Unknown), Mismatched(q.body # Prepared.body \/ q.body # r.body),
     Mismatched(q.endpoint # r.endpoint \/ q.endpoint # Prepared.endpoint)}
    \cup (IF d = None THEN {1}
          ELSE {Mismatched(d.method # "loaded_generation"), Missing(d.verifier = Unknown),
                Mismatched(d.endpoint # q.endpoint),
                Mismatched(q.constraint # None /\ q.constraint # <<d.instance, d.incarnation>>),
                Missing(r.deployment = Unknown), Mismatched(r.deployment # Unknown /\ r.deployment # d)})
\* Mutated: any attempt of the same body will do.
binding_of_any_attempt(q, r, d) == BoundElse(q, r, d)
\* check_gateway_consistency: correlation and attempt are one here.
binding(q, r, d) == BoundElse(q, r, d) \cup {Mismatched(q.attempt # r.attempt)}

\* validity::check: both intervals end before their last instant.
validity(d, v) ==
    IF d = None THEN {1}
    ELSE {Mismatched(now < d.from), Missing(d.until = None), Mismatched(d.until # None /\ now >= d.until)}
         \cup (IF v = None THEN {1}
               ELSE {Mismatched(v.deployment # d), Mismatched(now < v.observed \/ now >= v.until),
                     Missing(d.revocation = Unknown), Mismatched(d.revocation \notin {Unknown, v.observed}),
                     Missing(v.revoked = Unknown), Mismatched(v.revoked = TRUE)})
\* aggregate: every axis is consistent, the worst of the three.
Consistent(q, r, d, supplied, v) ==
    worst(binding(q, r, d)) = 0 /\ worst(validity(d, v)) = 0 /\ worst(semantics(q.target, d, supplied)) = 0

--------------------------------------------------------------------------
\* A replica that has come up and has not been measured.
Up(load, n) == [incarnation |-> n, load |-> load, evidence |-> None]
Init ==
    /\ now = 0 /\ documents = {} /\ snapshots = {} /\ answers = {}
    /\ sent = [a \in Attempts |-> None]
    /\ replicas \in [Replicas -> {Up(l, 0) : l \in Loads}]

Tick == now < MaxTime /\ now' = now + 1 /\ UNCHANGED <<replicas, documents, snapshots, sent, answers>>
\* A restart or reload is another incarnation.
Reload(r, load) ==
    /\ replicas[r].incarnation < MaxReloads
    /\ replicas' = [replicas EXCEPT ![r] = Up(load, @.incarnation + 1)]
    /\ UNCHANGED <<now, documents, snapshots, sent, answers>>
\* ModelDeploymentEvidence of what is loaded; some of it may stay unsaid.
Evidence(r) ==
    LET load == replicas[r].load IN
    [method |-> load.method, verifier |-> load.verifier, endpoint |-> load.endpoint,
     instance |-> r, incarnation |-> replicas[r].incarnation,
     loaded |-> IF "loaded" \in load.hidden THEN Unknown ELSE load.loaded,
     effective |-> [load.semantics EXCEPT !.artifact = IF "artifact" \in load.hidden THEN Unknown ELSE @],
     from |-> now, until |-> IF load.lasting THEN None ELSE now + 2,
     revocation |-> IF load.revocable THEN now ELSE Unknown]
Measure(r) ==
    /\ replicas[r].evidence = None
    /\ replicas' = [replicas EXCEPT ![r].evidence = Evidence(r)]
    /\ documents' = documents \cup {Evidence(r)}
    /\ UNCHANGED <<now, snapshots, sent, answers>>
\* SuppliedValiditySnapshot: the owner's reading of a revocation document.
Snapshot(d, revoked) == [deployment |-> d, observed |-> now, revoked |-> revoked, until |-> now + 1]
Interpret(d) ==
    /\ Cardinality(snapshots) < MaxReadings
    /\ \E revoked \in {TRUE, FALSE, Unknown} : snapshots' = snapshots \cup {Snapshot(d, revoked)}
    /\ UNCHANGED <<now, replicas, documents, sent, answers>>
\* GatewayRequest::from_prepared: each retry is an attempt of its own.
Send(a) ==
    /\ sent[a] = None /\ \A b \in Attempts : b < a => sent[b] # None
    /\ \E constraint \in {None} \cup {<<d.instance, d.incarnation>> : d \in documents} :
          sent' = [sent EXCEPT ![a] = [target |-> Prepared.semantics, endpoint |-> Prepared.endpoint,
                                       body |-> Prepared.body, attempt |-> a, constraint |-> constraint]]
    /\ UNCHANGED <<now, replicas, documents, snapshots, answers>>
\* GatewayResponseEvidence: the evidence of the generation that answers.
Response(a, e) == [target |-> sent[a].target, deployment |-> IF e = None THEN Unknown ELSE e,
                   endpoint |-> sent[a].endpoint, body |-> sent[a].body, attempt |-> a]
Answer(a, r) ==
    /\ sent[a] # None /\ \A x \in answers : x.response.attempt # a
    /\ answers' = answers \cup {[replica |-> r, load |-> replicas[r].load,
                                 response |-> Response(a, replicas[r].evidence)]}
    /\ UNCHANGED <<now, replicas, documents, snapshots, sent>>
Next == \/ Tick
        \/ \E r \in Replicas : Measure(r) \/ (\E load \in Loads : Reload(r, load)) \/ (\E a \in Attempts : Answer(a, r))
        \/ \E d \in documents : Interpret(d)
        \/ \E a \in Attempts : Send(a)
Spec == Init /\ [][Next]_vars

--------------------------------------------------------------------------
\* Whichever request, answer, evidence, artifacts and revocation reading the caller brings together:
\* if the aggregate is consistent, the answer was given to this very attempt by a generation that had
\* loaded exactly the artifacts asked for and behaved as asked, every ancestor is supplied, it is
\* the replica it was pinned to if it was, and it is neither expired nor read as revoked at this
\* instant - retries, restarts, reloads and late documents notwithstanding.
ConsistentMeansThisAnswer ==
    \A a \in {b \in Attempts : sent[b] # None}, x \in answers, d \in documents \cup {None},
       v \in snapshots \cup {None}, gone \in {{}} \cup {{i} : i \in DOMAIN Artifacts} :
       Consistent(sent[a], x.response, d, DOMAIN Artifacts \ gone, v) =>
          LET s == Prepared.semantics
          IN /\ x.response.attempt = a
             /\ x.load.loaded = {s.artifact} \cup s.additional /\ x.load.semantics = s
             /\ Behind(x.load.loaded, DOMAIN Artifacts) \cap gone = {}
             /\ sent[a].constraint \in {None, <<x.replica, d.incarnation>>}
             /\ now \in d.from..(d.until - 1) /\ v.deployment = d /\ v.revoked = FALSE /\ now < v.until
=============================================================================

------------------------------ MODULE MCCorpora ------------------------------
(* The life of a record: two writers race on one record, with lost         *)
(* acknowledgments, retries, crashes and publication acknowledgments in    *)
(* between (RecordStore, with the variables of its module); then what it   *)
(* is worth: its grading, what its judges were asked, the gates over       *)
(* evaluation results, and the pairs made of graded records.               *)
EXTENDS RecordStore, Integers, FiniteSets, TLC
CONSTANTS NaN, Absent, r1, r2, w1, w2, plain, admit, art1, art2,
          \* Pairs: the records, what they hold at first, what they and the policies may be
          PairRecords, PairInitial, PairBodies, PairGrades, PairChanges, PairPolicies,
          \* Graded: the tests of contracts, panels, their scores and correlations
          GradeTests, GradeJudges, GradeScores, GradeRhos,
          \* Votes: panels, what they are asked and what they answer, and the bounds
          VotePanels, VotePrompts, VoteDeltas, VoteParts, VoteAttempts, VoteLaunches

VARIABLES scenario, \* the component the behaviour is about; the others stay idle
          area, contract, revised, state, facts, judging, decision,
          judges, prompt, version, launches, cache, attempts, panel, call,
          assessed, stage,
          input, report,
          prefer_records, prefer_assessed, prepared, changes

MCRecordIds == {r1}
MCWriters == {w1, w2}
MCRecordBodies == {plain, admit}
MCAdmitBodies == {admit}
MCArtifacts == {art1, art2}
Symmetry == Permutations(MCWriters)

------------------------------------------------------------------------------
(* Panels of up to three judges over a contract of two tests.              *)
MCTests == {"t1", "t2"}
MCScores == {5, 7, 90, 200, None}
MCRhos == {0, 40, 100}
Graded == INSTANCE Grading WITH
    Tests <- GradeTests, MaxJudges <- GradeJudges, RawScores <- GradeScores,
    Rhos <- GradeRhos
ASSUME GradesAssumption == Graded!GradingConstants
grade_vars == <<area, contract, revised, state, facts, judging, decision>>

------------------------------------------------------------------------------
(* Panels of two judges that differ in name, cap, temperature or rubric    *)
(* name, or not at all; two requests over two launches, of two prompts.    *)
Judge(slug, name, temperature, cap, mode, n) ==
    [slug |-> slug, rubric_id |-> name, temperature |-> temperature, max_tokens |-> cap,
     reasoning |-> IF mode = None THEN None ELSE [mode |-> mode, n |-> n]]
MCJudge == Judge("m", "r", "zero", 35, "tokens", 20)
MCConfigurations ==
    {<<MCJudge, other>> : other \in {MCJudge, Judge("n", "r", "zero", 35, "effort", 0),
         Judge("m", "r", "zero", 20, "tokens", 20), Judge("m", "r", "minus_zero", 35, "tokens", 20),
         Judge("m", "s", "zero", 35, "tokens", 20), Judge("m", "r", "odd", 35, None, 0),
         Judge("m", "r", "nan", 35, None, 0), Judge("m", "r", "zero", 35, "tokens", 0),
         Judge("m", "r", "zero", 0, None, 0)}}
MCDeltas == {[text |-> x, finish |-> None, native |-> None] : x \in {"open", "prose"}}
            \cup {[text |-> "close", finish |-> "stop", native |-> None],
                  [text |-> "blank", finish |-> None, native |-> "length"],
                  [text |-> "open", finish |-> "length", native |-> None]}
MCPrompts == {"p", "q"}
Votes == INSTANCE JudgeRequest WITH
    Configurations <- VotePanels, Prompts <- VotePrompts, Deltas <- VoteDeltas,
    MaxDeltas <- VoteParts, MaxAttempts <- VoteAttempts, MaxLaunches <- VoteLaunches
ASSUME VotesAssumption == Votes!RequestConstants
vote_vars == <<judges, prompt, version, launches, cache, attempts, panel,
               call, assessed, stage>>

------------------------------------------------------------------------------
(* Measurements of three sizes, NaN, an infinite and an absent one.        *)
MCNumbers == {-2, 0, 1}
\* Audits of four records under one or two prompts, whose completion indices run against
\* the scan; the doubts are those of confidence levels of about 0.05 and 0.08, low
\* enough for two prompts to qualify.  Then audits with one slip each.
Audited(prompts, scores, values, cfg) ==
    [rows |-> [n \in 1 .. 4 |-> [id |-> n, version |-> 1, prompt |-> prompts[n], passed |-> TRUE,
                                 score |-> scores[n], index |-> 5 - n]],
     evidence |-> [sound |-> TRUE, corpus |-> [n \in 1 .. 4 |-> [id |-> n, version |-> 1]],
                   labels |-> [n \in 1 .. 4 |-> [id |-> n, version |-> 1, value |-> values[n]]]],
     cfg |-> cfg]
MCGroupings == {<<1, 1, 2, 2>>, <<1, 1, 1, 2>>, <<1, 1, 1, 1>>}
MCStrictness == [doubt : {16, 24}, min_evaluated_prompts : {1, 2}]
MCAudited == {Audited(p, s, v, c) : p \in MCGroupings, s \in [1 .. 4 -> {1, 2}],
                                    v \in [1 .. 4 -> {0, 1}], c \in MCStrictness}
Slips(a) ==
    {[a EXCEPT !.rows = scan] : scan \in
        {Tail(a.rows), Append(a.rows, a.rows[1]),
         Append(a.rows, [a.rows[1] EXCEPT !.id = 5, !.passed = FALSE]),
         [a.rows EXCEPT ![1].version = 2], [a.rows EXCEPT ![1].passed = FALSE],
         [a.rows EXCEPT ![1].score = Absent], [a.rows EXCEPT ![1].score = NaN],
         [a.rows EXCEPT ![1].index = Absent], [a.rows EXCEPT ![1].index = 3]}}
    \cup {[a EXCEPT !.evidence.corpus = corpus] : corpus \in
        {Tail(a.evidence.corpus), Append(a.evidence.corpus, a.evidence.corpus[1])}}
    \cup {[a EXCEPT !.evidence.labels = labels] : labels \in
        {Tail(a.evidence.labels), Append(a.evidence.labels, a.evidence.labels[1]),
         Append(a.evidence.labels, [id |-> 5, version |-> 1, value |-> 1]),
         [a.evidence.labels EXCEPT ![1].version = 2],
         [a.evidence.labels EXCEPT ![1].value = Absent],
         [a.evidence.labels EXCEPT ![1].value = 2], [a.evidence.labels EXCEPT ![1].value = NaN]}}
    \cup {[a EXCEPT !.evidence.sound = FALSE], [a EXCEPT !.evidence = Absent],
          [a EXCEPT !.cfg.doubt = Absent], [a EXCEPT !.cfg.min_evaluated_prompts = 0]}
MCAudits == MCAudited \cup UNION {Slips(a) : a \in
    {x \in MCAudited : [n \in 1 .. 4 |-> x.rows[n].score] \in {<<1, 2, 2, 1>>, <<2, 1, 1, 2>>}
                       /\ x.cfg.doubt = 16}}
Gates == INSTANCE Evaluation WITH
    Huge <- 3, Numbers <- MCNumbers, Benchmarks <- {"x"}, Candidates <- {1, 2, 3},
    Audits <- MCAudits
evaluate_vars == <<input, report>>

------------------------------------------------------------------------------
(* Two records that change twice while pairs of them are captured.         *)
Body(p, a, why, details, tools) ==
    [prompt |-> p, answer |-> a, reasoning |-> why, details |-> details, tools |-> tools]
MCBodies ==
    {Body("p", "x", "why", "", FALSE), Body("p", "x", "", "", FALSE),
     Body("p", "x", None, "", FALSE), Body("p", "y", "why", "why", FALSE),
     Body("q", "y", None, "", FALSE), Body("p", "y", "why", None, FALSE),
     Body("p", "y", None, "", TRUE)}
Graded2(score, verdict, a, d) ==
    [score |-> score, verdict |-> verdict, automatic |-> a, decided |-> d]
MCGrades == {Graded2(2, "admit", TRUE, TRUE), Graded2(1, "admit", TRUE, TRUE),
             Graded2(0, "reject", TRUE, TRUE), Graded2(2, "review", FALSE, TRUE)}
MCInitial == {[body |-> b, hashed |-> None, grade |-> Graded2(2, "admit", TRUE, TRUE),
               outcome |-> "pass", state |-> "admitted"] :
                 b \in {Body("p", "x", "why", "", FALSE), Body("p", "y", "why", "why", FALSE)}}
MCPolicies == {[cot |-> "stripped", margin |-> 0], [cot |-> "supervised", margin |-> 1],
               [cot |-> "supervised", margin |-> 0], [cot |-> "masked", margin |-> 0]}
MCPairRecords == {r1, r2}
Pairs == INSTANCE Preference WITH
    Records <- PairRecords, Initial <- PairInitial, Bodies <- PairBodies,
    Grades <- PairGrades, MaxChanges <- PairChanges, Policies <- PairPolicies,
    records <- prefer_records, assessed <- prefer_assessed
ASSUME PairsAssumption == Pairs!PreferenceConstants
prefer_vars == <<prefer_records, prefer_assessed, prepared, changes>>

------------------------------------------------------------------------------
MCvars == <<scenario, vars, grade_vars, vote_vars, evaluate_vars,
                      prefer_vars>>
grade_idle == /\ area = None /\ contract = None /\ revised = None /\ state = None
              /\ facts = None /\ judging = None /\ decision = None
vote_idle == /\ judges = None /\ prompt = None /\ version = None /\ launches = None
             /\ cache = None /\ attempts = None /\ panel = None /\ call = None
             /\ assessed = None /\ stage = None
evaluate_idle == input = None /\ report = None
prefer_idle == /\ prefer_records = None /\ prefer_assessed = None
               /\ prepared = None /\ changes = None

MCInit ==
    /\ scenario \in {"record", "grade", "vote", "evaluate", "prefer"}
    /\ Init
    /\ IF scenario = "grade" THEN Graded!Init ELSE grade_idle
    /\ IF scenario = "vote" THEN Votes!Init ELSE vote_idle
    /\ IF scenario = "evaluate" THEN Gates!Init ELSE evaluate_idle
    /\ IF scenario = "prefer" THEN Pairs!Init ELSE prefer_idle

\* A step of one component: no other takes one.
Turn(name) ==
    /\ scenario = name /\ UNCHANGED scenario
    /\ IF name = "record" THEN TRUE ELSE UNCHANGED vars
    /\ IF name = "grade" THEN TRUE ELSE UNCHANGED grade_vars
    /\ IF name = "vote" THEN TRUE ELSE UNCHANGED vote_vars
    /\ IF name = "evaluate" THEN TRUE ELSE UNCHANGED evaluate_vars
    /\ IF name = "prefer" THEN TRUE ELSE UNCHANGED prefer_vars
record_step == Turn("record") /\ Next
grade_step == Turn("grade") /\ Graded!Next
vote_step == Turn("vote") /\ Votes!Next
evaluate_step == Turn("evaluate") /\ Gates!Next
prefer_step == Turn("prefer") /\ Pairs!Next
MCNext ==
    \/ record_step \/ grade_step \/ vote_step
    \/ evaluate_step \/ prefer_step
MCSpec == MCInit /\ [][MCNext]_MCvars

------------------------------------------------------------------------------
\* A grade rests on what was observed: evidence is exactly what the contract asks for, a
\* failed authoritative axis overrules every judge, reconciling a stored grading changes
\* nothing, and a panel the preflight lets a run start with can admit (verifier, decision.rs, grader.rs).  The
\* votes are answers to what this panel asks of this candidate, once each, and the ledger
\* holds them as accepted (effective_contract.rs, request_identity.rs, cache.rs).
GradesAreEarned ==
    /\ scenario = "grade" => /\ Graded!EvidenceIsExact /\ Graded!VerifierHasTheLastWord
                             /\ Graded!ReconcileAgrees /\ Graded!PreflightIsSound
    /\ scenario = "vote" => /\ Votes!VotesAreThisPanels /\ Votes!RowsAreAccepted
                            /\ Votes!AssessedIsUsable

\* A gate says what its report shows: a promotion is rederived from its report, less
\* evidence never promotes, an audit names what it measured, and a calibration does
\* not depend on the order of its rows (promote.rs, separation, calibration_fit.rs).
GatesAreHonest == scenario = "evaluate" =>
    /\ Gates!RederiveAgrees /\ Gates!LessBuysNothing
    /\ Gates!AuditIsHonest /\ Gates!FitIsOrderFree

\* No pair prefers both ways, none outlives the records it was made of, and what it
\* teaches differs in the answer (preference.rs of the engine and of the format).
PairsAreSound == scenario = "prefer" =>
    Pairs!NeverBothWays /\ Pairs!PairsAreCurrent /\ Pairs!PairsTeach
==============================================================================

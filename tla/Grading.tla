------------------------------- MODULE Grading -------------------------------
(***************************************************************************)
(* How one record is decided: run_verifier and the evidence rules of       *)
(* gw-judge/src/verifier, HybridGrader and the weighted consensus of       *)
(* grader.rs and consensus.rs, and the decision that reconcile derives     *)
(* again from what judge persisted (gw-engine/src/step.rs, grade.rs),      *)
(* possibly in a later launch.  Scores are tenths, correlations and        *)
(* effective panel sizes hundredths.                                       *)
(***************************************************************************)
EXTENDS Naturals, Integers, Sequences, FiniteSets, SequencesExt, FiniteSetsExt

CONSTANTS Tests,       \* test identifiers
          MaxJudges,   \* bound: positions of the panel
          RawScores,   \* scores judges reply with, in tenths, or None
          Rhos,        \* correlation priors, in hundredths
          None

VARIABLES area,      \* the run's settings: judges, rho, thresholds, intent, cot
          contract,  \* the task's: answer and execution policies, required tests
          revised,   \* the record carries REVISE_RETRY_TAG
          state,     \* its lifecycle state
          facts,     \* its VerificationInterpretation, or None
          judging,   \* its Judging block, or None
          decision   \* history: what the judging step decided, or None

\* What a configuration and its judges may be: correlations are fractions, scores numbers.
GradingConstants ==
    /\ MaxJudges \in Nat /\ RawScores \subseteq Int \cup {None} /\ Rhos \subseteq 0 .. 100
    /\ None \notin Int

vars == <<area, contract, revised, state, facts, judging, decision>>

Outcome == {"Pass", "Fail", "Unknown"}
Policy == {"Absent", "Advisory", "Authoritative"}

--------------------------------------------------------------------------
(* evidence.rs                                                             *)

Case == [node : Tests, status : {"Passed", "Failed", "Skipped"}]
Report == [binding : {"same", "stale", "foreign"}, outcome : Outcome,
           exit : {0, 1, None}, errors : BOOLEAN,
           cases : UNION {[1 .. n -> Case] : n \in 0 .. 2}]

Having(status, cases) == {cases[n].node : n \in {k \in DOMAIN cases : cases[k].status = status}}

derive_from_detail(e, required) ==
    IF required = {} \/ e.exit = None THEN "Unknown"
    ELSE IF e.errors THEN "Fail"
    ELSE IF e.cases = <<>> \/ \E n, k \in DOMAIN e.cases :
                                 n # k /\ e.cases[n].node = e.cases[k].node THEN "Unknown"
    ELSE IF e.exit # 0 \/ Having("Failed", e.cases) # {} THEN "Fail"
    ELSE IF ~ required \subseteq Having("Passed", e.cases) THEN "Fail" ELSE "Pass"

more_conservative(a, b) ==
    IF "Unknown" \in {a, b} THEN "Unknown" ELSE IF "Fail" \in {a, b} THEN "Fail" ELSE "Pass"

\* Mutated: a report on another completion of the same record counts.
observe_any_patch(e, required) ==
    IF e = None THEN "Unknown"
    ELSE IF e.binding = "foreign" THEN "Fail"
    ELSE more_conservative(e.outcome, derive_from_detail(e, required))
observe(e, required) ==
    IF e = None THEN "Unknown"
    ELSE IF e.binding = "foreign" THEN "Fail"
    ELSE IF e.binding = "stale" THEN "Unknown"
    ELSE more_conservative(e.outcome, derive_from_detail(e, required))

\* What a report, or its absence, can amount to.
Observable == [required \in SUBSET Tests |->
                   {observe(e, required) : e \in Report \cup {None}}]

--------------------------------------------------------------------------
(* The reasoning and answer axes: a text is what it amounts to.            *)

\* A trace, a detail of it and a token count, all three.
reasoning_present_check(flat, detail, tokens) == IF flat /\ detail /\ tokens > 0 THEN "Pass" ELSE "Fail"

\* What the oracle says, if anything: a sandbox may refuse.
resolve_expected(oracle) == oracle = "literal" \/ oracle = "answered"

classify_refusal(text) == CASE text = "matches" -> "Pass" [] text = "differs" -> "Fail"
                            [] text = "unclear" -> "Unknown"

compare_answer(kind, oracle, text) ==
    CASE kind = "RefusalExpected" -> classify_refusal(text)
      [] kind # "RefusalExpected" /\ ~ resolve_expected(oracle) -> "Unknown"
      [] kind \in {"NumericMatch", "SetMatch"} /\ resolve_expected(oracle) ->
             CASE text = "matches" -> "Pass" [] text = "differs" -> "Fail" [] OTHER -> "Unknown"
      [] kind \in {"SchemaShape", "SqlResultMatch"} /\ resolve_expected(oracle) ->
             IF text = "matches" THEN "Pass" ELSE "Unknown"

--------------------------------------------------------------------------
(* VerificationInterpretation::gate over the three axes.                   *)

Axes == {"reasoning", "answer", "execution"}
Authoritative(f, outcome) ==
    \E axis \in Axes : f[axis].policy = "Authoritative" /\ f[axis].outcome = outcome
is_hard_reject(f) == Authoritative(f, "Fail")
blocks_admission(f) == ~ is_hard_reject(f) /\ Authoritative(f, "Unknown")

Axis(policy, outcome) ==
    [policy |-> policy, outcome |-> IF policy = "Absent" THEN None ELSE outcome]

\* run_verifier: an axis is observed when its policy asks for it.
run_verifier(reasoning, answer, execution) ==
    [reasoning |-> Axis(IF area.cot THEN "Authoritative" ELSE "Absent", reasoning),
     answer    |-> Axis(contract.answer, answer),
     execution |-> Axis(contract.execution, execution)]

--------------------------------------------------------------------------
(* consensus.rs and grader.rs.  Without ratings every weight is equal.     *)

\* interpretation.rs: 0..10 scales are divided; what is not finite is nothing.
normalize_score(raw) ==
    IF raw = None THEN 0
    ELSE LET s == IF raw > 10 THEN raw \div 10 ELSE raw
         IN  IF s < 0 THEN 0 ELSE IF s > 10 THEN 10 ELSE s

\* A vote is its score; one that parsed to no verdict is no decisive vote.
Vote == {normalize_score(raw) : raw \in RawScores} \cup {None}

\* effective_n, in hundredths, is 10000 * size^2 / Design.
Design(size) == size * 100 + size * (size - 1) * area.rho
Below(size, least) == 10000 * size * size < least * Design(size)
TooCorrelated(size) ==
    Below(size, area.min_n_eff_ratio * size) \/ Below(size, area.min_n_eff)

band(total, size) ==
    IF total >= area.accept * size THEN "Accept"
    ELSE IF total < area.reject * size THEN "Reject" ELSE "Revise"

with_admission_intent(d, intent) ==
    IF intent = "ReviewOnly" /\ d = "Accept" THEN "Escalate" ELSE d

\* The judging block keeps the decisive count and the aggregate it was decided on.
Judged(d, size, total) ==
    [admission_intent |-> area.intent, decisive_count |-> size, aggregate |-> total,
     verdict |-> d]

\* grade and decide: the verifier's veto, its abstention, then the decisive votes.
grade(f, votes) ==
    LET decisive == {n \in DOMAIN votes : votes[n] # None}
        size == Cardinality(decisive)
        total == MapThenSumSet(LAMBDA n : votes[n], decisive)
        d == with_admission_intent(IF TooCorrelated(size) THEN "Escalate"
                                   ELSE band(total, size), area.intent)
    IN  IF is_hard_reject(f) THEN Judged("Reject", None, None)
        ELSE IF blocks_admission(f) THEN Judged("Escalate", None, None)
        ELSE IF size = 0 THEN Judged("Reject", 0, None)
        ELSE Judged(d, size, total)

\* preflight.rs: some number of decisive judges that are not too correlated.
assess_panel(judges) ==
    /\ judges > 0 /\ (judges > 1 => area.rho > 0)
    /\ area.intent = "Automatic" =>
           \E d \in 1 .. judges :
               /\ 10000 * d >= area.min_n_eff * (100 + (d - 1) * area.rho)
               /\ 10000 >= area.min_n_eff_ratio * (100 + (d - 1) * area.rho)

--------------------------------------------------------------------------
(* decision_from_judging: the second derivation, from the record alone.    *)

rederive_verdict(j) ==
    IF j.aggregate = None THEN j.verdict
    ELSE IF TooCorrelated(j.decisive_count) THEN "Escalate"
    ELSE with_admission_intent(band(j.aggregate, j.decisive_count), j.admission_intent)

decision_from_judging ==
    IF is_hard_reject(facts) \/ blocks_admission(facts) THEN grade(facts, <<>>).verdict
    ELSE with_admission_intent(rederive_verdict(judging), area.intent)

Lifecycle(d) == CASE d = "Accept" -> "Admitted" [] d = "Reject" -> "Rejected"
                  [] d = "Revise" -> "Revising" [] d = "Escalate" -> "NeedsReview"

--------------------------------------------------------------------------
Verify ==
    /\ state = "AssistantGenerated"
    /\ \E reasoning \in {reasoning_present_check(f, d, t) : f, d \in BOOLEAN, t \in {0, 1}},
          answer \in {compare_answer(k, o, t) :
                          k \in {"NumericMatch", "SchemaShape", "RefusalExpected"},
                          o \in {"literal", "answered", "refused"},
                          t \in {"matches", "differs", "unclear"}},
          execution \in Observable[contract.required] :
           facts' = run_verifier(reasoning, answer, execution)
    /\ state' = "Verified"
    /\ UNCHANGED <<area, contract, revised, judging, decision>>

\* A vetoed or undecided record is not shown to the panel.
Judge ==
    /\ state = "Verified"
    /\ \E votes \in [1 .. area.judges -> Vote] :
           /\ judging' = grade(facts, IF is_hard_reject(facts) \/ blocks_admission(facts)
                                      THEN <<>> ELSE votes)
           /\ decision' = judging'.verdict
    /\ state' = "Judged"
    /\ UNCHANGED <<area, contract, revised, facts>>

Reconcile ==
    /\ state = "Judged"
    /\ state' = IF decision_from_judging = "Revise" /\ revised THEN "Rejected"
                ELSE Lifecycle(decision_from_judging)
    /\ UNCHANGED <<area, contract, revised, facts, judging, decision>>

\* AreaConfig, which assess_admission has accepted, and a contract validate accepts.
Init ==
    /\ area \in [judges : 1 .. MaxJudges, rho : Rhos, intent : {"Automatic", "ReviewOnly"},
                 cot : BOOLEAN, accept : {8}, reject : {6},
                 min_n_eff : {100, 150}, min_n_eff_ratio : {60}]
    /\ assess_panel(area.judges)
    /\ contract \in [answer : Policy, execution : Policy, required : SUBSET Tests]
    /\ contract.execution = "Absent" => contract.required = {}
    /\ contract.execution = "Authoritative" => contract.required # {}
    /\ revised \in BOOLEAN /\ state = "AssistantGenerated"
    /\ facts = None /\ judging = None /\ decision = None

Next == Verify \/ Judge \/ Reconcile

Spec == Init /\ [][Next]_vars

--------------------------------------------------------------------------
\* What the tests really showed: a clean run of this very completion, no test
\* of which failed or was reported twice, in which every required test passed.
Corroborated(e, required) ==
    /\ e # None /\ e.binding = "same" /\ e.outcome = "Pass" /\ e.exit = 0 /\ ~ e.errors
    /\ \A t \in required : \E n \in DOMAIN e.cases : e.cases[n] = [node |-> t, status |-> "Passed"]
    /\ \A n \in DOMAIN e.cases :
           /\ e.cases[n].status # "Failed"
           /\ \A k \in DOMAIN e.cases : e.cases[k].node = e.cases[n].node => k = n

ExactFor == [required \in SUBSET Tests |->
    \A e \in Report \cup {None} :
        /\ observe(e, required) = "Pass" <=> Corroborated(e, required) /\ required # {}
        /\ observe(e, required) = "Fail" =>
               \/ e.binding = "foreign" \/ e.errors \/ e.exit = 1 \/ e.outcome = "Fail"
               \/ Having("Failed", e.cases) # {} \/ ~ required \subseteq Having("Passed", e.cases)]

\* Evidence passes exactly when a clean run of this completion covers a nonempty
\* contract, and fails only for a cause: no fact that is missing, stale or
\* contradictory counts as either (observe, classify, derive_from_detail).
EvidenceIsExact == state = "AssistantGenerated" => ExactFor[contract.required]

\* No panel, however it votes, admits what an authoritative axis did not pass: an
\* admitted record passed every axis its policies make authoritative, in a run that
\* admits automatically, on at least one decisive vote, and the decisive votes reach
\* the accept threshold on average (the noisy-OR veto of HybridGrader).
VerifierHasTheLastWord ==
    state = "Admitted" =>
        /\ \A axis \in Axes : facts[axis].policy = "Authoritative" => facts[axis].outcome = "Pass"
        /\ area.intent = "Automatic"
        /\ judging.decisive_count > 0 /\ judging.aggregate >= area.accept * judging.decisive_count

\* What reconcile derives from the persisted record, in this launch or the next,
\* is what the judging step decided (decision_from_judging, rederive_verdict).
ReconcileAgrees ==
    state = "Judged" => decision_from_judging = decision

\* No run that admits automatically pays for judges that cannot admit: once the
\* preflight let it start, some number of its judges, all accepting, would be admitted
\* (assess_panel computes by formula what decide computes from the matrix).
PreflightIsSound ==
    area.intent = "Automatic" =>
        \E d \in 1 .. area.judges : ~ TooCorrelated(d) /\ band(10 * d, d) = "Accept"
=============================================================================

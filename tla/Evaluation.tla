----------------------------- MODULE Evaluation -----------------------------
(***************************************************************************)
(* The three judgements of `gw eval` and of panel calibration, each a pure *)
(* function of files an operator supplies: the promotion gate              *)
(* (gw-eval/src/promote.rs), the outcome audit of the judge's selections   *)
(* (outcomes.rs, outcome_analysis.rs, separation.rs) and the calibration   *)
(* fit (gw-judge/src/calibration_intake.rs, calibration_fit.rs).  Numbers  *)
(* are small integers and NaN; one past Huge overflows.                    *)
(***************************************************************************)
EXTENDS Integers, Sequences, FiniteSets, FiniteSetsExt, SequencesExt

CONSTANTS NaN,        \* a number that is not finite
          Absent,     \* no value
          Huge,       \* the largest finite magnitude
          Numbers,    \* the scores an artifact may hold
          Benchmarks, \* names of benchmarks besides the headline
          Candidates, \* rows of a calibration file (naturals)
          Audits      \* what an operator may have audited: rows, evidence, cfg

Headline == "eval_results.aggregate"
Metrics == Benchmarks \cup {Headline}
Finite(x) == x # NaN
Bounded(x) == IF x \in -Huge .. Huge THEN x ELSE NaN
AtLeast0(x) == IF x < 0 THEN 0 ELSE x

--------------------------------------------------------------------------
(* promote: an artifact maps every metric to a score or Absent.            *)

\* normalize_sigma: a prior that is negative or not finite counts as 0.
sigma_for(cfg, m) == IF Finite(cfg.sigma[m]) THEN AtLeast0(cfg.sigma[m]) ELSE 0

noise_band(min_delta, k, sigma) ==
    IF ~ Finite(min_delta) \/ ~ Finite(k) \/ ~ Finite(Bounded(min_delta + k * sigma))
    THEN NaN ELSE AtLeast0(min_delta + k * sigma)

\* The headline and every benchmark either artifact reports.
Required(b, c) == {m \in Metrics : m = Headline \/ b[m] # Absent \/ c[m] # Absent}

\* Whether evidence for metric m supports a comparison, at these knobs.
Comparable(b, c, cfg, m) ==
    /\ b[m] # Absent /\ c[m] # Absent /\ Finite(b[m]) /\ Finite(c[m])
    /\ Finite(Bounded(c[m] - b[m]))
    /\ Finite(noise_band(cfg.min_delta, cfg.sigma_k, sigma_for(cfg, m)))

\* The report: valid comparisons only, and whether the evidence is whole.
promote(b, c, drift, cfg) ==
    LET compared == {m \in Required(b, c) : Comparable(b, c, cfg, m)}
        delta == [m \in compared |-> c[m] - b[m]]
        band == [m \in compared |-> noise_band(cfg.min_delta, cfg.sigma_k, sigma_for(cfg, m))]
        valid == compared = Required(b, c)
        drift_pass == ~ cfg.drift_must_pass \/ drift = 0
    IN [valid |-> valid, drift_pass |-> drift_pass, delta |-> delta,
        sigma |-> [m \in compared |-> sigma_for(cfg, m)],
        promote |-> /\ drift_pass /\ valid
                    /\ \A m \in compared : ~ delta[m] < - band[m]
                    /\ \E m \in compared : delta[m] > band[m]]

\* Mutated: the drift gate is not sealed in the report.
RederiveAB(r, min_delta, k) ==
    LET band == [m \in DOMAIN r.delta |-> noise_band(min_delta, k, r.sigma[m])] IN
    /\ r.valid
    /\ \A m \in DOMAIN r.delta : Finite(band[m]) /\ ~ r.delta[m] < - band[m]
    /\ \E m \in DOMAIN r.delta : r.delta[m] > band[m]
\* PromotionReport::rederive, at other knobs, from the sealed fields alone.
rederive(r, min_delta, k) ==
    LET band == [m \in DOMAIN r.delta |-> noise_band(min_delta, k, r.sigma[m])] IN
    /\ r.valid /\ r.drift_pass
    /\ \A m \in DOMAIN r.delta : Finite(band[m]) /\ ~ r.delta[m] < - band[m]
    /\ \E m \in DOMAIN r.delta : r.delta[m] > band[m]

--------------------------------------------------------------------------
(* analyze_outcomes: the loaded records [id, version, prompt, passed,      *)
(* score, index] in scan order against the evidence, which declares a      *)
(* corpus of bindings [id, version] and labels some [id, version, value],  *)
(* the value Absent where the outcome is declared unknown.                 *)
(* A version stands for what a binding holds besides the name: run, area,  *)
(* prompt hash and record hash.                                            *)

\* The confidence level must lie strictly between 0 and 1: cfg.doubt is then
\* 288 * -ln(1 - confidence_level), the squared Hoeffding bound in twelfths.
valid_config(cfg) == cfg.doubt # Absent /\ cfg.min_evaluated_prompts > 0

OnlyOnce(s) == \A n, k \in DOMAIN s : s[n].id = s[k].id => n = k
Same(x, y) == x.id = y.id /\ x.version = y.version

\* match_records: the rows of declared members.  Every other row is left alone.
matched(rows, e) == SelectSeq(rows, LAMBDA x : \E m \in ToSet(e.corpus) : Same(x, m))

\* eligible_groups: a prompt whose records all pass, with two usable scores.
eligible_groups(rows) ==
    LET Prompt(p) == SelectSeq(rows, LAMBDA x : x.prompt = p)
        Scored(p) == SelectSeq(Prompt(p), LAMBDA x : x.score # Absent)
    IN {Scored(p) : p \in {q \in {x.prompt : x \in ToSet(rows)} :
            /\ \A x \in ToSet(Prompt(q)) : x.passed
            /\ Len(Scored(q)) >= 2}}

\* What makes evidence invalid rather than incomplete: nobody is declared, loaded or
\* labelled twice, every member is loaded and every label is a member's as declared, and
\* the numbers and the completion indices that selection reads are usable.
valid_evidence(rows, e) ==
    /\ e.sound /\ OnlyOnce(e.corpus) /\ OnlyOnce(rows) /\ OnlyOnce(e.labels)
    /\ \A m \in ToSet(e.corpus) : \E x \in ToSet(rows) : Same(x, m)
    /\ \A l \in ToSet(e.labels) : /\ l.value \in {0, 1, Absent}
                                  /\ \E m \in ToSet(e.corpus) : Same(l, m)
    /\ \A x \in ToSet(matched(rows, e)) : x.score # NaN
    /\ \A g \in eligible_groups(matched(rows, e)) : \A n, k \in DOMAIN g :
          g[n].index # Absent /\ (g[n].index = g[k].index => n = k)

\* The judge's argmax, the lowest completion index among equals.
selected(g) == CHOOSE x \in ToSet(g) : \A y \in ToSet(g) :
    x.score > y.score \/ (x.score = y.score /\ x.index <= y.index)

\* What selection gained over a random pick, in twelfths.
gap(g, outcome) ==
    12 * outcome[selected(g).id]
      - (12 \div Len(g)) * FoldLeft(LAMBDA sum, x : sum + outcome[x.id], 0, g)

\* The mean gap exceeds its Hoeffding radius, sqrt(-2 ln(1 - confidence) / n).
PositiveLowerBound(gs, outcome, cfg) ==
    LET total == FoldSet(LAMBDA g, sum : sum + gap(g, outcome), 0, gs)
    IN total > 0 /\ total * total > cfg.doubt * Cardinality(gs)

\* A missing or unknown outcome of any member ends the analysis before any number is
\* computed.
analyze_outcomes(rows, e, cfg) ==
    LET members == {m.id : m \in ToSet(e.corpus)}
        known == {l \in ToSet(e.labels) : l.value # Absent}
        outcome == [id \in members |-> (CHOOSE l \in known : l.id = id).value]
        gs == eligible_groups(matched(rows, e))
    IN CASE ~ valid_config(cfg) -> "invalid"
         [] e = Absent -> "insufficient"
         [] ~ valid_evidence(rows, e) -> "invalid"
         [] {l.id : l \in known} # members \/ gs = {} -> "insufficient"
         [] OTHER -> IF /\ Cardinality(gs) >= cfg.min_evaluated_prompts
                        /\ PositiveLowerBound(gs, outcome, cfg)
                     THEN "qualified" ELSE "inconclusive"

--------------------------------------------------------------------------
(* fit_calibration: rows [id, group, prompt, label, score] of the fitted   *)
(* partition, in file order, and those of the assessment.                  *)

canonical_evidence(rows) ==
    SortSeq(rows, LAMBDA x, y : x.group < y.group \/ (x.group = y.group /\ x.id < y.id))

\* One prompt is one group, across partitions too, and no group is in both.
validate_intake(fit, assessment) ==
    LET all == fit \o assessment IN
    /\ \A n, k \in DOMAIN all : n # k => all[n].id # all[k].id
    /\ \A n, k \in DOMAIN all : all[n].prompt = all[k].prompt => all[n].group = all[k].group
    /\ \A n \in DOMAIN fit, k \in DOMAIN assessment : fit[n].group # assessment[k].group

\* The squared error of each run of one group, and how many rows it had.
losses(rows) ==
    LET Starts == {n \in DOMAIN rows : n = 1 \/ rows[n].group # rows[n - 1].group}
        Run(n) == {k \in n .. Len(rows) : \A j \in n .. k : rows[j].group = rows[n].group}
        Error(k) == (rows[k].score - rows[k].label) * (rows[k].score - rows[k].label)
    IN [groups |-> Cardinality(Starts),
        means |-> FoldSet(LAMBDA n, sum :
                      sum + (6 * FoldSet(LAMBDA k, s : s + Error(k), 0, Run(n)))
                              \div Cardinality(Run(n)), 0, Starts)]

\* Only complete valid evidence computes anything.
fit_calibration(fit, assessment) ==
    CASE ~ validate_intake(fit, assessment) -> "invalid"
      [] assessment = <<>> \/ \E n \in DOMAIN fit : fit[n].label = Absent -> "incomplete"
      [] OTHER -> losses(canonical_evidence(fit))

--------------------------------------------------------------------------
VARIABLES input, report
vars == <<input, report>>

Artifact == {a \in [Metrics -> Numbers \cup {NaN, Absent}] : a[Headline] # Absent}
Knobs == {0, 1, NaN}
PromotionInput ==
    [kind : {"promote"}, baseline : Artifact, candidate : Artifact, drift : {0, 1},
     cfg : [min_delta : Knobs, sigma_k : {1}, drift_must_pass : BOOLEAN,
            sigma : {[m \in Metrics |-> s] : s \in {-1, 1}}]]
RowsOf(T) == {s \in [1 .. Cardinality(Candidates) -> T] : \A n \in DOMAIN s : s[n].id = n}
AuditInput == {[kind |-> "audit"] @@ audit : audit \in Audits}
FitRow == [id : Candidates, prompt : {1, 2, 3}, group : {1, 2}, label : {0, Absent}, score : {1, 2}]
CalibrationInput ==
    [kind : {"calibrate"}, fit : RowsOf(FitRow),
     assessment : {<<>>} \cup {<<[id |-> 0, prompt |-> p, group |-> g, label |-> 0, score |-> 1]>>
                               : p \in {3, 4}, g \in {2, 3}}]

Init == /\ input \in PromotionInput \cup AuditInput \cup CalibrationInput
        /\ report = Absent

promote_cmd == /\ input.kind = "promote" /\ report = Absent
               /\ report' = promote(input.baseline, input.candidate, input.drift, input.cfg)
               /\ UNCHANGED input
audit_separation == /\ input.kind = "audit" /\ report = Absent
                    /\ report' = analyze_outcomes(input.rows, input.evidence, input.cfg)
                    /\ UNCHANGED input
calibrate == /\ input.kind = "calibrate" /\ report = Absent
             /\ report' = fit_calibration(input.fit, input.assessment)
             /\ UNCHANGED input

Next == promote_cmd \/ audit_separation \/ calibrate
Spec == Init /\ [][Next]_vars

--------------------------------------------------------------------------
Answered(kind) == report # Absent /\ input.kind = kind
Lower(x) == IF x = Absent \/ x = NaN THEN {} ELSE {n \in Numbers : n < x}
Orders(rows) == {[n \in DOMAIN rows |-> rows[p[n]]] :
    p \in {q \in [DOMAIN rows -> DOMAIN rows] : \A n, k \in DOMAIN rows : q[n] = q[k] => n = k}}

\* The sealed report decides at other knobs what the gate itself would decide
\* with them, and never turns invalid evidence into a promotion
\* (PromotionReport::rederive).
RederiveAgrees ==
    Answered("promote") => \A d \in {-1, 0, 1, 2, NaN}, k \in {0, 1, 2, NaN} :
        IF report.valid
        THEN rederive(report, d, k)
               = promote(input.baseline, input.candidate, input.drift,
                         [input.cfg EXCEPT !.min_delta = d, !.sigma_k = k]).promote
        ELSE ~ rederive(report, d, k)

\* A candidate never gains by doing worse: whatever it reports lower, or leaves
\* out that the baseline reports, cannot turn a rejection into a promotion.
LessBuysNothing ==
    Answered("promote") /\ report.valid /\ ~ report.promote =>
        \A m \in Metrics : \A x \in Lower(input.candidate[m]) \cup {NaN, Absent} :
            (x = Absent => input.baseline[m] # Absent /\ m # Headline) =>
            ~ promote(input.baseline, [input.candidate EXCEPT ![m] = x],
                      input.drift, input.cfg).promote

\* Whether the judge's choice qualifies does not depend on the order of the scan or of
\* the labels, nor on records nobody declared.  It never qualifies on part of the labels,
\* on fewer prompts than asked for, or where it never chose a better record than one it
\* passed over, and asking for more never qualifies what was not.
AuditIsHonest ==
    Answered("audit") /\ input.evidence # Absent =>
        LET e == input.evidence
            Audit(rows, labels) == analyze_outcomes(rows, [e EXCEPT !.labels = labels], input.cfg)
            Asking(doubt, prompts) ==
                analyze_outcomes(input.rows, e, [doubt |-> doubt, min_evaluated_prompts |-> prompts])
            Outcome(id) == (CHOOSE l \in ToSet(e.labels) : l.id = id).value
        IN /\ \A rows \in Orders(input.rows) : Audit(rows, e.labels) = report
           /\ \A labels \in Orders(e.labels) : Audit(input.rows, labels) = report
           /\ \A x \in ToSet(input.rows) :
                 Audit(Append(input.rows, [x EXCEPT !.id = 0, !.score = NaN, !.passed = FALSE]),
                       e.labels) = report
           /\ report = "qualified" =>
                 /\ \A n \in DOMAIN e.labels :
                       /\ Audit(input.rows, RemoveAt(e.labels, n)) = "insufficient"
                       /\ Audit(input.rows, [e.labels EXCEPT ![n].value = Absent])
                             = "insufficient"
                 /\ Cardinality({x.prompt : x \in ToSet(matched(input.rows, e))})
                       >= input.cfg.min_evaluated_prompts
                 /\ \E x, y \in ToSet(matched(input.rows, e)) :
                       /\ x.prompt = y.prompt /\ Absent \notin {x.score, y.score}
                       /\ x.score >= y.score
                       /\ Outcome(x.id) > Outcome(y.id)
           /\ report # "qualified" /\ valid_config(input.cfg) =>
                 \A doubt \in {input.cfg.doubt, input.cfg.doubt + 4},
                    more \in {0, 1} :
                       Asking(doubt, input.cfg.min_evaluated_prompts + more) # "qualified"

\* Every prompt group counts once in the fit, however the evidence file is ordered.
FitIsOrderFree ==
    Answered("calibrate") => \A rows \in Orders(input.fit) :
        fit_calibration(rows, input.assessment) = report
=============================================================================

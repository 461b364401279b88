---------------------------- MODULE JudgeRequest ----------------------------
(***************************************************************************)
(* What makes a judge's grade evidence for this candidate: the request     *)
(* that is built for it (gw-judge panel.rs), its contract                  *)
(* (effective_contract.rs) and cache key (request_identity.rs), what its   *)
(* answer amounts to (grade_request, interpretation.rs), the cached row    *)
(* (cache.rs) and the consensus boundary that takes it back.  Requests are *)
(* made one after another here; CachedPanel is about their concurrency.    *)
(***************************************************************************)
EXTENDS Integers, Sequences, FiniteSets, SequencesExt, TLC

CONSTANTS None,
          Configurations, \* panels: a sequence of [slug, rubric_id, temperature, max_tokens, reasoning]
          Prompts,        \* rubric and candidate, as the request holds them
          Deltas,         \* [text, finish, native]: parts of an answer
          MaxDeltas,      \* bound: parts of one answer
          MaxAttempts,    \* bound: requests that are sent
          MaxLaunches     \* bound: launches, each perhaps of a changed program or run

VARIABLES judges,   \* the configured panel
          prompt,   \* what it is asked
          version,  \* JUDGE_INTERPRETATION_VERSION of the program that runs
          launches,
          cache,    \* the rows of one content hash, which the caller may have kept too long
          attempts, \* the ledger: [request, version, interpretation]
          panel,    \* the grade of each position, or None
          call,     \* the request under way: [key, text, finish, native, result], or None
          assessed, \* validate_judge_panel accepted the panel
          stage     \* "start", "collect", "stream", "interpret", "put", "decided" or how it failed
\* None is nothing an attempt can amount to.
RequestConstants == None # "Accepted"
vars == <<judges, prompt, version, launches, cache, attempts, panel, call, assessed, stage>>

--------------------------------------------------------------------------
(* The request.  Tokens are counted in hundreds; a temperature is a name:  *)
(* "minus_zero" equals "zero", and the cache's parser gives "odd" back as  *)
(* the next representable number.                                          *)

MIN_JUDGE_VERDICT_TOKENS == 15
\* A budget of reasoning tokens leaves room for the verdict.
effective_max_tokens(j) ==
    IF j.reasoning # None /\ j.reasoning.mode = "tokens"
       /\ j.reasoning.n + MIN_JUDGE_VERDICT_TOKENS > j.max_tokens
    THEN j.reasoning.n + MIN_JUDGE_VERDICT_TOKENS ELSE j.max_tokens
build_judge_request(j, p) ==
    [model |-> j.slug, prompt |-> p, temperature |-> j.temperature,
     max_tokens |-> effective_max_tokens(j), reasoning |-> j.reasoning]

normalize_zero(t) == IF t = "minus_zero" THEN "zero" ELSE t
cache_float_projection(t) == IF t = "odd" THEN "odd_restored" ELSE t

\* json_score: the contract of a valid request, or None.
json_score(r) ==
    IF r.temperature = "nan" \/ r.max_tokens = 0 \/ r.reasoning = [mode |-> "tokens", n |-> 0]
    THEN None
    ELSE [fingerprint |-> <<[r EXCEPT !.temperature = normalize_zero(@)], version>>,
          model |-> r.model, temperature |-> r.temperature,
          cached_temperature |-> cache_float_projection(r.temperature)]
\* request_fingerprint: to the bit, with the rubric's name.
request_fingerprint(r, rubric_id) == <<r, rubric_id, version>>
Key(j) == <<j.slug, request_fingerprint(build_judge_request(j, prompt), j.rubric_id)>>

Contract(i) == json_score(build_judge_request(judges[i], prompt))
Valid == \A i \in DOMAIN judges : Contract(i) # None
\* validate_unique: no two positions are one observation.
validate_unique(contracts) == IsInjective([i \in DOMAIN contracts |-> contracts[i].fingerprint])
\* validate_judge_panel: before anything is spent (the candidate of each request is the same).
validate_judge_panel == Valid /\ validate_unique([i \in DOMAIN judges |-> Contract(i)])

\* matches_grade: the labels of a grade agree with its contract, live or restored.
matches_grade(c, g) ==
    /\ c.model = g.judge_model /\ g.version = version
    /\ normalize_zero(g.temperature)
         \in {normalize_zero(c.temperature), normalize_zero(c.cached_temperature)}
validate_grade_evidence ==
    /\ \A i \in DOMAIN panel : matches_grade(panel[i].effective_contract, panel[i])
    /\ validate_unique([i \in DOMAIN panel |-> panel[i].effective_contract])

--------------------------------------------------------------------------
(* The answer: parts "open" and "close" of an object, prose or blanks.     *)

hit_length_cap(c) == "length" \in {c.finish, c.native}
\* interpret_judge_response: the outermost braces enclose one object, whatever is around them.
interpret_judge_response(text) ==
    LET visible == SelectSeq(text, LAMBDA part : part # "blank")
        opens == {i \in DOMAIN visible : visible[i] = "open"}
        closes == {i \in DOMAIN visible : visible[i] = "close"}
    IN \E i \in opens : opens = {i} /\ closes = {i + 1}
\* What a complete answer amounts to.
Amounts(c) == CASE interpret_judge_response(c.text) -> "Accepted"
                [] ~ interpret_judge_response(c.text) /\ hit_length_cap(c) -> "Truncated"
                [] OTHER -> "Invalid"
\* parse_grade, labelled with what was asked for.
parse_grade(j) ==
    [judge_model |-> j.slug, temperature |-> j.temperature, version |-> version,
     attempt |-> Len(attempts), effective_contract |-> json_score(build_judge_request(j, prompt))]

\* grade_to_cache_value and grade_from_cache_value.
grade_to_cache_value(g) ==
    [judge_model |-> g.judge_model, temperature |-> g.temperature, version |-> g.version,
     attempt |-> g.attempt]
grade_from_cache_value(row, contract) ==
    [judge_model |-> row.judge_model, version |-> row.version, attempt |-> row.attempt,
     temperature |-> cache_float_projection(row.temperature), effective_contract |-> contract]

--------------------------------------------------------------------------
(* The panel.                                                              *)

Goto(s) == stage' = s
Lasting == <<judges, prompt, version, launches>>
\* The first position without a grade.
Position == CHOOSE i \in DOMAIN panel : panel[i] = None /\ \A k \in 1 .. (i - 1) : panel[k] # None
Missing == \E i \in DOMAIN panel : panel[i] = None
\* Every position of the request gets its grade.
Filled(g) == [i \in DOMAIN panel |-> IF Key(judges[i]) = Key(judges[Position]) THEN g ELSE panel[i]]

\* Assess: the engine validates the panel first.
Assess ==
    /\ stage = "start"
    /\ assessed' = validate_judge_panel
    /\ Goto(IF assessed' THEN "collect" ELSE "refused")
    /\ UNCHANGED <<Lasting, cache, attempts, panel, call>>
\* prepare: a caller that only collects needs valid contracts, not distinct ones.
Prepare ==
    /\ stage = "start"
    /\ Goto(IF Valid THEN "collect" ELSE "refused")
    /\ UNCHANGED <<Lasting, cache, attempts, panel, call, assessed>>
Hit ==
    /\ stage = "collect" /\ Missing
    /\ Key(judges[Position]) \in DOMAIN cache
    /\ panel' = Filled(grade_from_cache_value(cache[Key(judges[Position])], Contract(Position)))
    /\ UNCHANGED <<Lasting, cache, attempts, call, assessed, stage>>
\* observed_chat establishes the stream, or the panel fails.
Dispatch ==
    /\ stage = "collect" /\ Missing /\ Key(judges[Position]) \notin DOMAIN cache
    /\ \/ /\ Len(attempts) < MaxAttempts
          /\ attempts' = Append(attempts, [request |-> build_judge_request(judges[Position], prompt),
                                           version |-> version, interpretation |-> None])
          /\ call' = [text |-> <<>>, finish |-> None, native |-> None, size |-> 0, result |-> None]
          /\ Goto("stream")
       \/ Goto("failed") /\ UNCHANGED <<attempts, call>>
    /\ UNCHANGED <<Lasting, cache, panel, assessed>>
\* DrainedContent::ingest: text is appended, a reason replaces the one before.
Delta(d) ==
    /\ stage = "stream" /\ call.size < MaxDeltas
    /\ call' = [call EXCEPT !.size = @ + 1,
                            !.text = IF d.text = None THEN @ ELSE Append(@, d.text),
                            !.finish = IF d.finish = None THEN @ ELSE d.finish,
                            !.native = IF d.native = None THEN @ ELSE d.native]
    /\ UNCHANGED <<Lasting, cache, attempts, panel, assessed, stage>>
Drained(result) == [text |-> <<>>, finish |-> None, native |-> None, size |-> 0, result |-> result]
End ==
    /\ stage = "stream"
    /\ call' = Drained(Amounts(call)) /\ Goto("interpret")
    /\ UNCHANGED <<Lasting, cache, attempts, panel, assessed>>
\* The stream breaks.  Nothing is said of an attempt whose accounting failed.
Break(error) ==
    /\ stage = "stream"
    /\ IF error = "accounting" THEN call' = None /\ Goto("failed")
       ELSE call' = Drained(IF error = "decode" THEN "Invalid" ELSE "Failed") /\ Goto("interpret")
    /\ UNCHANGED <<Lasting, cache, attempts, panel, assessed>>
\* grade_request records what it made of the answer before it returns a grade.
Interpret ==
    /\ stage = "interpret"
    /\ attempts' = [attempts EXCEPT ![Len(attempts)].interpretation = call.result]
    /\ IF call.result = "Accepted" THEN Goto("put") /\ UNCHANGED call
       ELSE Goto("failed") /\ call' = None
    /\ UNCHANGED <<Lasting, cache, panel, assessed>>
InterpretFails ==
    /\ stage = "interpret" /\ Goto("failed") /\ call' = None
    /\ attempts' \in {attempts, [attempts EXCEPT ![Len(attempts)].interpretation = call.result]}
    /\ UNCHANGED <<Lasting, cache, panel, assessed>>
\* cache_put: the newest row of a key replaces the one before.
CachePut ==
    [k \in DOMAIN cache \cup {Key(judges[Position])} |->
        IF k = Key(judges[Position]) THEN grade_to_cache_value(parse_grade(judges[Position]))
        ELSE cache[k]]
Put ==
    /\ stage = "put" /\ call' = None
    /\ cache' = CachePut
    /\ panel' = Filled(parse_grade(judges[Position]))
    /\ Goto("collect")
    /\ UNCHANGED <<Lasting, attempts, assessed>>
PutFails ==
    /\ stage = "put" /\ call' = None /\ Goto("failed")
    /\ cache' \in {cache, CachePut}
    /\ UNCHANGED <<Lasting, attempts, panel, assessed>>
\* The consensus boundary of HybridGrader::grade.
Consensus ==
    /\ stage = "collect" /\ ~ Missing
    /\ Goto(IF validate_grade_evidence THEN "decided" ELSE "unfit")
    /\ UNCHANGED <<Lasting, cache, attempts, panel, call, assessed>>
\* The process ends anywhere and is launched again: same or other panel, prompt or program.
Relaunch ==
    /\ launches < MaxLaunches /\ launches' = launches + 1
    /\ judges' \in Configurations /\ prompt' \in Prompts /\ version' \in {version, version + 1}
    /\ panel' = [i \in DOMAIN judges' |-> None] /\ call' = None /\ assessed' = FALSE
    /\ Goto("start")
    /\ UNCHANGED <<cache, attempts>>

Init == /\ judges \in Configurations /\ prompt \in Prompts /\ version = 1 /\ launches = 1
        /\ cache = <<>> /\ attempts = <<>> /\ call = None /\ assessed = FALSE
        /\ panel = [i \in DOMAIN judges |-> None] /\ stage = "start"
Next == \/ Assess \/ Prepare \/ Hit \/ Dispatch \/ End \/ Interpret \/ InterpretFails
        \/ Put \/ PutFails \/ Consensus \/ Relaunch
        \/ \E d \in Deltas : Delta(d)
        \/ \E error \in {"accounting", "decode", "transport"} : Break(error)
Spec == Init /\ [][Next]_vars

--------------------------------------------------------------------------
(* Properties.                                                             *)

\* What decides was given for this very request: whatever was cached before, every grade of
\* an accepted panel answers the request its position sends for this candidate now, as this
\* program reads answers, and no two positions asked the same thing under another name
\* (effective_contract.rs, request_identity.rs, the hit of grade_one_cached).
VotesAreThisPanels ==
    stage = "decided" =>
        /\ \A i \in DOMAIN panel :
             LET a == attempts[panel[i].attempt] IN
             /\ a.request = build_judge_request(judges[i], prompt) /\ a.version = version
        /\ IsInjective([i \in DOMAIN panel |->
                [attempts[panel[i].attempt].request EXCEPT !.temperature = normalize_zero(@)]])

\* No row is cached of an answer the ledger does not hold as accepted: a truncated, broken or
\* unread answer is never frozen, and a resumed run asks again (grade_request, cache_put).
RowsAreAccepted ==
    \A k \in DOMAIN cache : attempts[cache[k].attempt].interpretation = "Accepted"

\* A panel that was validated before it spent is not thrown away after it has: its grades,
\* fresh or restored, are never found duplicate or inconsistent (validate_judge_panel against
\* validate_grade_evidence, the restored sampling of cache_float_projection).
AssessedIsUsable == stage = "unfit" => ~ assessed
=============================================================================

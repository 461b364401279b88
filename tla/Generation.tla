----------------------------- MODULE Generation -----------------------------
(***************************************************************************)
(* One answer of the teacher: the candidate's gate (gw-generate            *)
(* user_synth.rs), the request (request.rs), the deltas of its stream      *)
(* (gw-providers delta.rs; assistant.rs, tool_calls.rs), the message they  *)
(* become (gw-format ingest.rs), the one retry of a truncated answer       *)
(* (gw-engine sibling.rs) and what the record keeps (assemble.rs).  Text   *)
(* is a sequence of marks: "word", or a control token.                     *)
(***************************************************************************)
EXTENDS Integers, Sequences, FiniteSets, SequencesExt, FiniteSetsExt

CONSTANTS None,        \* no value
          MaxChunks,   \* bound: deltas of one stream
          Budgets,     \* the max_tokens an area may configure
          RETRY_MAX,   \* TRUNCATION_RETRY_MAX_TOKENS
          Candidates,  \* the user turns that may be offered
          ToolConfigs, \* the tool contracts that may be requested, None for none
          Chunks       \* the deltas an endpoint may send

VARIABLES candidate, \* the offered user turn
          call,      \* the teacher call: tools, budget, routing
          acc,       \* AccumulatedStream of the current request
          stage,     \* where the generation is
          result,    \* what the last request came to, and its turn
          requests,  \* history: the requests sent, in order
          verdicts,  \* history: what each was interpreted as
          stream     \* history: the deltas of the current request
vars == <<candidate, call, acc, stage, result, requests, verdicts, stream>>

--------------------------------------------------------------------------
(* The gate.                                                               *)

\* UserTurnCandidate::validate_contract, validate_framing: else nothing is asked.
valid(c) == c.contract_ok /\ ~ c.leaks
\* A turn built to be refused is in scope whatever the reviewer thought.
evaluate(c) == [answerable |-> c.answerable, difficulty_targeted |-> c.targeted,
                diverse |-> ~ c.near_prior, in_scope_safe |-> c.in_scope \/ c.refusal_expected]
\* GatedUserTurn::passed.
passed(v) == v.answerable /\ v.difficulty_targeted /\ v.diverse /\ v.in_scope_safe

--------------------------------------------------------------------------
(* The request.                                                            *)

\* ToolConfig::validate, and the token budget of TeacherCall::build.
buildable(c) == c.max_tokens > 0
                /\ (c.tools # None => c.tools.names # {} /\ c.tools.choice \in
                                      {"auto", "none", "required"} \cup c.tools.names)
\* behavior::teacher_call pins no provider; build sends what routing there is.
teacher_call(tools, budget) == [tools |-> tools, max_tokens |-> budget, routing |-> None]
build(c) == [max_tokens |-> c.max_tokens, provider |-> c.routing]

\* Half as much again, rounded up, within the cap; None at the cap.
retry_max_tokens(t) == IF t >= RETRY_MAX THEN None ELSE Min({(3 * t + 1) \div 2, RETRY_MAX})

--------------------------------------------------------------------------
(* ingest: inline channels move to the reasoning.                          *)

ControlTokens == {"open", "close", "analysis", "end", "final", "return"}
First(t, k) == Min({n \in DOMAIN t : t[n] = k})
From(t, n) == SubSeq(t, n, Len(t))

\* A leading pair; what it holds is reasoning, what follows is the answer.
strip_pair(t) ==
    LET close == First(t, "close") IN
    [clean |-> From(t, close + 1), extracted |-> SubSeq(t, 2, close - 1)]
\* A leading analysis message that is followed at once by the final one.
strip_harmony(t) ==
    LET end == First(t, "end")
        after == From(t, end + 2)
        stop == IF Contains(after, "return") THEN First(after, "return") - 1 ELSE Len(after)
    IN [clean |-> SubSeq(after, 1, stop), extracted |-> SubSeq(t, 2, end - 1)]
strip_channel_tokens(t) ==
    CASE t # <<>> /\ t[1] = "open" /\ Contains(t, "close") -> strip_pair(t)
      [] /\ t # <<>> /\ t[1] = "analysis" /\ Contains(t, "end")
         /\ First(t, "end") < Len(t) /\ t[First(t, "end") + 1] = "final" -> strip_harmony(t)
      [] OTHER -> [clean |-> t, extracted |-> <<>>]

\* The message, or None when the answer still holds a control token.
ingest(content, reasoning) ==
    LET s == strip_channel_tokens(content) IN
    IF ToSet(s.clean) \cap ControlTokens # {} THEN None
    ELSE [content |-> s.clean,
          reasoning |-> IF reasoning # <<>> THEN reasoning ELSE s.extracted]

--------------------------------------------------------------------------
(* The stream.  A delta has any of content, reasoning, refusal, one        *)
(* fragment of a tool call, a finish reason and usage, or is garbled.      *)

is_empty_payload(d) == d.content = None /\ d.reasoning = <<>> /\ d.refusal = None /\ d.tool = None

Accumulated == [content |-> None, reasoning |-> <<>>, refusal |-> None, calls |-> <<>>,
                bad_call |-> FALSE, finish |-> None, usage |-> None, invalid |-> FALSE]
Or(x, y) == IF x # None THEN x ELSE y
Add(x, y) == IF y = None THEN x ELSE Or(x, <<>>) \o y

\* StreamedToolCalls::push: by index, in arrival order; contradictions stick.
push(calls, f) ==
    LET old == IF f.index \in DOMAIN calls THEN calls[f.index]
               ELSE [id |-> None, name |-> <<>>, args |-> <<>>]
    IN [n \in DOMAIN calls \cup {f.index} |->
           IF n # f.index THEN calls[n]
           ELSE [id |-> Or(old.id, f.id), name |-> old.name \o f.name, args |-> old.args \o f.args]]
conflicts(calls, f) ==
    \/ f.kind # "function"
    \/ f.index \in DOMAIN calls /\ f.id # None /\ calls[f.index].id \notin {None, f.id}

\* Mutated: what comes after the finish is taken for more of the answer.
accumulate_past_finish(a, d) ==
    [content |-> Add(a.content, d.content), reasoning |-> a.reasoning \o d.reasoning,
     refusal |-> Or(d.refusal, a.refusal),
     calls |-> IF d.tool = None THEN a.calls ELSE push(a.calls, d.tool),
     bad_call |-> a.bad_call \/ (d.tool # None /\ conflicts(a.calls, d.tool)),
     finish |-> Or(d.finish, a.finish), usage |-> Or(a.usage, d.usage),
     invalid |-> a.invalid \/ (d.finish # None /\ a.finish \notin {None, d.finish})]
accumulate(a, d) ==
    [content |-> Add(a.content, d.content), reasoning |-> a.reasoning \o d.reasoning,
     refusal |-> Or(d.refusal, a.refusal),
     calls |-> IF d.tool = None THEN a.calls ELSE push(a.calls, d.tool),
     bad_call |-> a.bad_call \/ (d.tool # None /\ conflicts(a.calls, d.tool)),
     finish |-> Or(d.finish, a.finish), usage |-> Or(a.usage, d.usage),
     invalid |-> \/ a.invalid \/ (a.finish # None /\ ~ is_empty_payload(d))
                 \/ (d.finish # None /\ a.finish \notin {None, d.finish})]

\* StreamedToolCalls::finish: whole calls, at contiguous indices, each its own id.
calls_finish(a) ==
    /\ ~ a.bad_call
    /\ IF DOMAIN a.calls = {} THEN a.finish # "tool_calls"
       ELSE /\ a.finish = "tool_calls"
            /\ DOMAIN a.calls = 0 .. Cardinality(DOMAIN a.calls) - 1
            /\ \A n \in DOMAIN a.calls :
                  /\ a.calls[n].id # None /\ a.calls[n].name # <<>>
                  /\ a.calls[n].args = <<"{", "}">>
                  /\ \A k \in DOMAIN a.calls : a.calls[k].id = a.calls[n].id => k = n

\* tool_calls::validate_selection: what was requested, and nothing else.
validate_selection(calls, tools) ==
    IF tools = None THEN DOMAIN calls = {}
    ELSE /\ ~ tools.parallel => Cardinality(DOMAIN calls) <= 1
         /\ tools.choice = "none" => DOMAIN calls = {}
         /\ tools.choice \notin {"auto", "none"} => DOMAIN calls # {}
         /\ \A n \in DOMAIN calls : \E f \in tools.names :
               calls[n].name = <<f>> /\ tools.choice \in {"auto", "none", "required", f}

\* The message of an answer; a refusal stands in for content there is none of.
Message(a) ==
    LET m == ingest(Or(a.content, <<>>), a.reasoning) IN
    IF m = None THEN None
    ELSE [m EXCEPT !.content = IF @ = <<>> /\ a.refusal # None THEN a.refusal ELSE @]

has_reasoning(a) == a.reasoning # <<>>
\* AccumulatedStream::into_turn and the checks of finish_observed.
into_turn(a, tools) ==
    CASE a.invalid -> "Invalid"
      [] ~ a.invalid /\ a.finish = "length" /\ has_reasoning(a) -> "Truncated"
      [] OTHER ->
         IF /\ calls_finish(a)
            /\ \/ Or(a.content, <<>>) # <<>> \/ has_reasoning(a)
               \/ a.refusal # None \/ DOMAIN a.calls # {}
            /\ Message(a) # None
            /\ tools # None => a.finish \in {"stop", "tool_calls", "content_filter"}
            /\ validate_selection(a.calls, tools)
         THEN "Accepted" ELSE "Invalid"

--------------------------------------------------------------------------
Init == /\ candidate \in Candidates
        /\ call \in {teacher_call(t, b) : t \in ToolConfigs, b \in Budgets}
        /\ acc = Accumulated /\ stage = "offered" /\ result = None
        /\ requests = <<>> /\ verdicts = <<>> /\ stream = <<>>

\* The provider's stream opens on a fresh accumulator.
Send(purpose, c) ==
    /\ stage' = "streaming" /\ acc' = Accumulated /\ stream' = <<>>
    /\ requests' = Append(requests, [purpose |-> purpose, provider |-> build(c).provider,
                                     max_tokens |-> build(c).max_tokens])
Refuse(why) ==
    /\ stage' = "refused" /\ result' = why
    /\ UNCHANGED <<candidate, call, acc, requests, verdicts, stream>>

\* generate_assistant: the gate, then the request, or neither; cancelled before it.
generate_assistant ==
    /\ stage = "offered"
    /\ \/ /\ valid(candidate) /\ passed(evaluate(candidate)) /\ buildable(call)
          /\ Send("Initial", call) /\ UNCHANGED <<candidate, call, result, verdicts>>
       \/ /\ ~ (valid(candidate) /\ passed(evaluate(candidate)) /\ buildable(call))
          /\ Refuse("Invariant")
       \/ Refuse("Interrupted")

\* A delta arrives; once one is garbled the answer is lost, and the rest only accounted.
Deliver ==
    /\ stage = "streaming" /\ Len(stream) < MaxChunks
    /\ \E d \in Chunks :
           /\ stream' = Append(stream, d)
           /\ acc' = IF \E n \in DOMAIN stream' : stream'[n].garbled THEN acc ELSE accumulate(acc, d)
    /\ UNCHANGED <<candidate, call, stage, result, requests, verdicts>>

\* The stream ends, or breaks: the request is interpreted.
Interpret(v) ==
    /\ verdicts' = Append(verdicts, v)
    /\ stage' = IF v = "Accepted" THEN "accepted" ELSE "failed"
    /\ result' = v
    /\ UNCHANGED <<candidate, call, acc, requests, stream>>
End == /\ stage = "streaming"
       /\ Interpret(IF \E n \in DOMAIN stream : stream[n].garbled THEN "Invalid"
                    ELSE into_turn(acc, call.tools))
Break == stage = "streaming" /\ Interpret("Failed")

\* generate_assistant_with_truncation_retry: once, with more room; or the error stands.
Retry ==
    /\ stage = "failed"
    /\ \/ /\ result = "Truncated" /\ Len(requests) = 1 /\ retry_max_tokens(call.max_tokens) # None
          /\ call' = [call EXCEPT !.max_tokens = retry_max_tokens(@)]
          /\ Send("TruncationRetry", call') /\ UNCHANGED <<candidate, result, verdicts>>
       \/ /\ stage' = "given up"
          /\ UNCHANGED <<candidate, call, acc, result, requests, verdicts, stream>>

\* assemble: the record keeps the turn and the budget of the call that produced it.
Assemble ==
    /\ stage = "accepted"
    /\ stage' = "assembled"
    /\ result' = [message |-> Message(acc), calls |-> acc.calls, tokens |-> Or(acc.usage, 0),
                  max_tokens |-> call.max_tokens]
    /\ UNCHANGED <<candidate, call, acc, requests, verdicts, stream>>

Next == generate_assistant \/ Deliver \/ End \/ Break \/ Retry \/ Assemble
Spec == Init /\ [][Next]_vars

--------------------------------------------------------------------------
(* The same stream, read whole.                                            *)

Of(field) == FoldLeft(LAMBDA t, d : Add(t, d[field]), None, stream)
Finishes == {stream[n].finish : n \in DOMAIN stream} \ {None}
FinishesAt == {n \in DOMAIN stream : stream[n].finish # None}
Fragments(i) == SelectSeq(stream, LAMBDA d : d.tool # None /\ d.tool.index = i)
Indices == {stream[n].tool.index : n \in {k \in DOMAIN stream : stream[k].tool # None}}
Joined(i, part) == FoldLeft(LAMBDA t, d : t \o d.tool[part], <<>>, Fragments(i))
Ids(i) == {Fragments(i)[n].tool.id : n \in DOMAIN Fragments(i)} \ {None}

\* What the record holds is the whole stream's and no cut-off part of it: one
\* finish with nothing after it, all text in order, no reasoning cut short by the
\* length cap, and every call whole, told apart, asked for, and under its own
\* index, however the fragments were carved and interleaved (accumulate, into_turn,
\* StreamedToolCalls).
RecordIsTheWholeStream ==
    stage = "assembled" =>
        /\ Cardinality(Finishes) <= 1
        /\ \A n \in FinishesAt, k \in DOMAIN stream : k > n => is_empty_payload(stream[k])
        /\ Finishes = {"length"} => \A n \in DOMAIN stream : stream[n].reasoning = <<>>
        /\ Indices # {} <=> Finishes = {"tool_calls"}
        /\ \A i \in Indices :
              /\ \E id \in Ids(i) : Ids(i) = {id} /\ \A j \in Indices \ {i} : id \notin Ids(j)
              /\ Joined(i, "args") = <<"{", "}">>
              /\ call.tools # None /\ \E f \in call.tools.names : Joined(i, "name") = <<f>>
              /\ result.calls[i].name = Joined(i, "name")
        /\ LET text == Or(Of("content"), <<>>)
               thought == Or(Of("reasoning"), <<>>) IN
              /\ thought # <<>> => result.message.reasoning = thought
              /\ text # <<>> /\ ToSet(text) \cap ControlTokens = {} =>
                    result.message.content = text
              /\ "word" \in ToSet(text) /\ thought = <<>> =>
                    "word" \in ToSet(result.message.content \o result.message.reasoning)

\* Teacher tokens are spent on a turn only if all its reviewers passed it, and once
\* more only for an answer that was cut off, with strictly more room and within
\* the cap; every request ends with one interpretation, and the record says which
\* request it came from (generate_assistant, the truncation retry, assemble).
SpendIsGated ==
    /\ requests # <<>> =>
          /\ candidate.contract_ok /\ ~ candidate.leaks /\ ~ candidate.near_prior
          /\ candidate.answerable /\ candidate.targeted
          /\ candidate.in_scope \/ candidate.refusal_expected
    /\ \A n \in DOMAIN requests : n > 1 =>
          /\ n = 2 /\ verdicts[1] = "Truncated"
          /\ requests[1].max_tokens < requests[2].max_tokens /\ requests[2].max_tokens <= RETRY_MAX
    /\ Len(verdicts) = Len(requests) - (IF stage = "streaming" THEN 1 ELSE 0)
    /\ stage = "assembled" =>
          /\ Last(verdicts) = "Accepted" /\ result.max_tokens = Last(requests).max_tokens
          /\ \A n \in 1 .. Len(verdicts) - 1 : verdicts[n] # "Accepted"
=============================================================================

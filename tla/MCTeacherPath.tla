---------------------------- MODULE MCTeacherPath ----------------------------
(* The way to a model and back. A call of three attempts, with two levels  *)
(* of usage and three data events (ProviderCall, with the variables of its *)
(* module); the decoder under it; the conversation over it; the embedding  *)
(* call; the controls of a request against the profile of its endpoint;    *)
(* and the gateway that says what served it.                               *)
EXTENDS ProviderCall
CONSTANTS r1, Unknown,
          \* Embedding: how many texts, the vectors, and the data of an answer
          Texts, Vectors, EmbeddingData,
          \* Decoder: how many symbols of a stream, and of a chunk
          DecoderBytes, DecoderChunk

VARIABLES scenario, \* the component the behaviour is about; the others stay idle
          received, ended, line_buf, ready, stream_ended, saw_done, flushed,
          finished, yielded,
          candidate, call, acc, stage, generate_result, requests, verdicts,
          generate_stream,
          embed_pc, embed_ledger, body, embed_error, embed_outcome, answer,
          embed_result,
          profile, request, at, serve_body, seen, degradations, reasoning,
          serve_stage,
          now, replicas, documents, snapshots, sent, answers

------------------------------------------------------------------------------
(* The decoder: in the run, every text of up to six symbols, cut into      *)
(* chunks of up to four in every way.                                      *)
Decoder == INSTANCE SseDecoder WITH
    MaxBytes <- DecoderBytes, MaxChunk <- DecoderChunk
ASSUME DecoderAssumption == DecoderBytes \in Nat
sse_vars == <<received, ended, line_buf, ready, stream_ended, saw_done,
              flushed, finished, yielded>>

------------------------------------------------------------------------------
(* Candidates with one defect at most; streams of up to three chunks.      *)
Plain == [contract_ok |-> TRUE, leaks |-> FALSE, answerable |-> TRUE, targeted |-> TRUE,
          near_prior |-> FALSE, in_scope |-> TRUE, refusal_expected |-> FALSE]
MCCandidates == {Plain, [Plain EXCEPT !.in_scope = FALSE, !.refusal_expected = TRUE]}
    \cup {[Plain EXCEPT ![f] = ~ @] : f \in (DOMAIN Plain) \ {"refusal_expected"}}
Tools(choice, parallel) == [names |-> {"f", "g"}, choice |-> choice, parallel |-> parallel]
MCToolConfigs == {None, Tools("auto", TRUE), Tools("f", FALSE)}
NoDelta == [content |-> None, reasoning |-> <<>>, refusal |-> None, tool |-> None,
            finish |-> None, usage |-> None, garbled |-> FALSE]
Content(t) == [NoDelta EXCEPT !.content = t]
Frag(i, id, name, args) == [NoDelta EXCEPT !.tool =
    [index |-> i, id |-> id, kind |-> "function", name |-> name, args |-> args]]
MCChunks ==
    {Content(t) : t \in {<<"word">>, <<"open">>, <<"close">>}}
    \cup {Content(<<"analysis", "word", "end">>), Content(<<"final", "word", "return">>)}
    \cup {[NoDelta EXCEPT !.reasoning = <<"word">>], [NoDelta EXCEPT !.refusal = <<"word">>],
          [NoDelta EXCEPT !.refusal = <<"open">>]}
    \cup {[NoDelta EXCEPT !.finish = f] : f \in {"stop", "length", "tool_calls"}}
    \cup {[NoDelta EXCEPT !.finish = "stop", !.content = <<"word">>],
          [NoDelta EXCEPT !.usage = 1], [NoDelta EXCEPT !.garbled = TRUE]}
    \cup {Frag(0, "a", <<"f">>, <<"{", "}">>), Frag(0, None, <<>>, <<"}">>),
          Frag(0, "a", <<"g">>, <<"{">>), Frag(1, "b", <<"f">>, <<"{", "}">>)}
Assistant == INSTANCE Generation WITH
    MaxChunks <- 3, Budgets <- {0, 2}, RETRY_MAX <- 4,
    Candidates <- MCCandidates, ToolConfigs <- MCToolConfigs,
    Chunks <- MCChunks, result <- generate_result, stream <- generate_stream
generate_vars == <<candidate, call, acc, stage, generate_result, requests,
                   verdicts, generate_stream>>

------------------------------------------------------------------------------
(* Two texts, two vectors, up to three data under the indexes 0, 1 and 2.  *)
MCVectors == {"v", "w"}
MCData == UNION {[1 .. n -> [index : 0 .. 2, vector : {"v", "w", "Zero"}]] : n \in 0 .. 3}
Embedding == INSTANCE EmbeddingCall WITH
    Data <- EmbeddingData, pc <- embed_pc,
    ledger <- embed_ledger, error <- embed_error, outcome <- embed_outcome,
    result <- embed_result
ASSUME EmbeddingAssumption == Embedding!EmbeddingConstants
embed_vars == <<embed_pc, embed_ledger, body, embed_error, embed_outcome,
                answer, embed_result>>

------------------------------------------------------------------------------
(* Five profiles of two dialects, and up to two controls in any order.     *)
AllCapabilities ==
    {"tools", "temperature", "top_p", "seed", "max_tokens", "reasoning_effort",
     "reasoning_budget", "enable_thinking", "clear_thinking", "preserve_thinking",
     "json_schema", "logprobs", "usage", "reasoning_history", "structured_reasoning_history"}
OpenRouter == [dialect |-> "open_router", operations |-> {"chat"}, efforts |-> {"low"},
               routing |-> {"p"}, capabilities |-> AllCapabilities \
                   {"reasoning_budget", "enable_thinking", "clear_thinking",
                    "preserve_thinking", "seed"}]
Vllm == [dialect |-> "vllm", operations |-> {"chat", "completion", "embedding"},
         efforts |-> {"low"}, routing |-> None, capabilities |-> AllCapabilities \
             {"reasoning_budget", "structured_reasoning_history", "preserve_thinking"}]
MCProfiles ==
    {OpenRouter, Vllm, [OpenRouter EXCEPT !.routing = None],
     [Vllm EXCEPT !.efforts = {}, !.capabilities = @ \ {"reasoning_effort", "usage"}],
     [Vllm EXCEPT !.capabilities = @ \cup {"reasoning_budget"}]}
Control(k, v) == [kind |-> k, value |-> v]
MCOffered ==
    {Control("sampling", [temperature |-> 1, top_p |-> None, seed |-> 7]),
     Control("sampling", [temperature |-> 0, top_p |-> 1, seed |-> None]),
     Control("max_tokens", 1), Control("max_tokens", 0),
     Control("reasoning_effort", "low"), Control("reasoning_effort", "high"),
     Control("reasoning_budget", 5), Control("enable_thinking", TRUE),
     Control("clear_thinking", FALSE), Control("usage", TRUE),
     Control("logprobs", 3), Control("tools", "t")}
Serving == INSTANCE ServingRequest WITH
    Profiles <- MCProfiles, Offered <- MCOffered,
    Histories <- {{}, {"reasoning_history"}, {"structured_reasoning_history"}},
    MaxControls <- 2, body <- serve_body, stage <- serve_stage
serve_vars == <<profile, request, at, serve_body, seen, degradations,
                reasoning, serve_stage>>

------------------------------------------------------------------------------
(* One replica, two attempts, a reload and a tick of the clock.            *)
Semantics(art, add) ==
    [operation |-> "chat", adapter |-> "p", profile |-> "p", artifact |-> art,
     additional |-> add, tokenizer |-> "t", template |-> "c", runtime |-> "r"]
MCPrepared == [semantics |-> Semantics(2, {3}), endpoint |-> "e", body |-> "b"]
MCArtifacts == [i \in 1 .. 3 |-> [parents |-> IF i = 1 THEN {} ELSE {1}, settled |-> TRUE,
                                  tokenizer |-> "t", template |-> "c"]]
Loaded(s, l) ==
    [semantics |-> s, loaded |-> l, endpoint |-> "e", method |-> "loaded_generation",
     verifier |-> "v", hidden |-> {}, lasting |-> FALSE, revocable |-> TRUE]
Whole == Loaded(Semantics(2, {3}), {2, 3})
MCLoads == {Whole, Loaded(Semantics(2, {3}), {2}),
            Loaded([Semantics(2, {3}) EXCEPT !.runtime = "s"], {2, 3}),
            [Whole EXCEPT !.hidden = {"loaded"}, !.lasting = TRUE, !.revocable = FALSE,
                          !.verifier = Unknown]}
Served == INSTANCE Gateway WITH
    Prepared <- MCPrepared, Artifacts <- MCArtifacts, Loads <- MCLoads,
    Replicas <- {r1}, Attempts <- {1, 2}, MaxTime <- 1, MaxReadings <- 1,
    MaxReloads <- 1
gateway_vars == <<now, replicas, documents, snapshots, sent, answers>>

------------------------------------------------------------------------------
MCvars == <<scenario, vars, sse_vars, generate_vars, embed_vars, serve_vars,
                      gateway_vars>>
sse_idle == /\ received = None /\ ended = None /\ line_buf = None /\ ready = None
            /\ stream_ended = None /\ saw_done = None /\ flushed = None /\ finished = None
            /\ yielded = None
generate_idle == /\ candidate = None /\ call = None /\ acc = None /\ stage = None
                 /\ generate_result = None /\ requests = None /\ verdicts = None /\ generate_stream = None
serve_idle == /\ profile = None /\ request = None /\ at = None /\ serve_body = None
              /\ seen = None /\ degradations = None /\ reasoning = None /\ serve_stage = None
gateway_idle == /\ now = None /\ replicas = None /\ documents = None /\ snapshots = None
                /\ sent = None /\ answers = None

MCInit ==
    /\ scenario \in {"call", "sse", "generate", "embed", "serve", "gateway"}
    /\ Init
    /\ IF scenario = "sse" THEN Decoder!Init ELSE sse_idle
    /\ IF scenario = "generate" THEN Assistant!Init ELSE generate_idle
    /\ Embedding!Init
    /\ IF scenario = "serve" THEN Serving!Init ELSE serve_idle
    /\ IF scenario = "gateway" THEN Served!Init ELSE gateway_idle

\* A step of one component: no other takes one.
Turn(name) ==
    /\ scenario = name /\ UNCHANGED scenario
    /\ IF name = "call" THEN TRUE ELSE UNCHANGED vars
    /\ IF name = "sse" THEN TRUE ELSE UNCHANGED sse_vars
    /\ IF name = "generate" THEN TRUE ELSE UNCHANGED generate_vars
    /\ IF name = "embed" THEN TRUE ELSE UNCHANGED embed_vars
    /\ IF name = "serve" THEN TRUE ELSE UNCHANGED serve_vars
    /\ IF name = "gateway" THEN TRUE ELSE UNCHANGED gateway_vars
call_step == Turn("call") /\ Next
sse_step == Turn("sse") /\ Decoder!Next
generate_step == Turn("generate") /\ Assistant!Next
embed_step == Turn("embed") /\ Embedding!Next
serve_step == Turn("serve") /\ Serving!Next
gateway_step == Turn("gateway") /\ Served!Next
MCNext ==
    \/ call_step \/ sse_step \/ generate_step
    \/ embed_step \/ serve_step \/ gateway_step
MCSpec == MCInit /\ [][MCNext]_MCvars

------------------------------------------------------------------------------
\* However a response body is cut into chunks, the decoder yields what a scan of the
\* whole text yields, holds no whole line back, and ends once (sse.rs).
ChunkingDoesNotMatter == scenario = "sse" => Decoder!ChunkingDoesNotMatter

\* An assistant turn is all of the one stream it came from, and a request is only sent
\* for a candidate that passed its gate, a retry with more room (assistant.rs, delta.rs).
TurnIsTheWholeStream == scenario = "generate" =>
    Assistant!RecordIsTheWholeStream /\ Assistant!SpendIsGated

\* An embedding call answers with the vector of each text, by the index the endpoint
\* names, and implements the contract of observed calls (embeddings.rs, AttemptLedger).
EmbeddingIsPerText ==
    /\ [](scenario = "embed" => Embedding!AnswerIsPerText)
    /\ Embedding!ImplementsLedger

\* Every control of a request is in the body, refused, or named as dropped; and an
\* answer called consistent was served by what was asked for (profile.rs, gateway.rs).
ServedAsAsked ==
    /\ scenario = "serve" => Serving!EveryControlIsAnswered
    /\ scenario = "gateway" => Served!ConsistentMeansThisAnswer
==============================================================================

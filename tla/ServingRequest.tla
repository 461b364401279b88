--------------------------- MODULE ServingRequest ---------------------------
(***************************************************************************)
(* Preparing a request for a serving profile (gw-providers serving_profile *)
(* request.rs, controls.rs, profile.rs).  A profile says in which dialect  *)
(* it is spoken to and which controls it takes.  The controls of a request *)
(* are applied one after the other to the body; one the profile does not   *)
(* take stops the preparation when it is required and is otherwise         *)
(* reported as a degradation.  A body is a function from fields to values. *)
(***************************************************************************)
EXTENDS Integers, Sequences, FiniteSets, SequencesExt, Functions, TLC

CONSTANTS None,      \* no value
          Profiles,  \* profiles: [dialect, operations, capabilities, efforts, routing]
          Offered,   \* controls a caller may ask for: [kind, value]
          Histories, \* what the messages of a chat carry: sets of history controls
          MaxControls \* bound: controls of one request

VARIABLES profile, request, \* the inputs: request is [operation, history, controls]
          at,               \* controls applied
          body,             \* the fields written so far
          seen, degradations, reasoning,
          stage             \* "check", "apply", "prepared", "refused"
vars == <<profile, request, at, body, seen, degradations, reasoning, stage>>

Thinking == {"enable_thinking", "preserve_thinking", "clear_thinking"}

\* ProfileBehavior::validate.
behavior_ok(p) ==
    /\ p.operations # {} /\ ("reasoning_effort" \in p.capabilities <=> p.efforts # {})
    /\ IF p.dialect = "open_router"
       THEN p.operations = {"chat"} /\ p.capabilities \cap Thinking = {}
       ELSE p.capabilities \cap {"reasoning_budget", "structured_reasoning_history"} = {}
\* ServingProfile::validate: strict routing goes with OpenRouter.
profile_ok(p) == behavior_ok(p) /\ (p.routing # None <=> p.dialect = "open_router")
                 /\ (p.routing # None => p.routing # {})
\* validate_message: the history a profile can be shown.
history_ok(p, r) == r.history \subseteq p.capabilities

\* A control has one part, sampling one for each value given: [control, field, value].
Part(control, field, value) == [control |-> control, field |-> field, value |-> value]
Parts(p, c) ==
    CASE c.kind = "sampling" ->
           <<Part("temperature", "temperature", c.value.temperature)>>
           \o (IF c.value.top_p = None THEN <<>> ELSE <<Part("top_p", "top_p", c.value.top_p)>>)
           \o (IF c.value.seed = None THEN <<>> ELSE <<Part("seed", "seed", c.value.seed)>>)
      [] c.kind = "reasoning_effort" ->
           <<Part(c.kind, IF p.dialect = "open_router" THEN "reasoning" ELSE "reasoning_effort", <<"effort", c.value>>)>>
      [] c.kind = "reasoning_budget" -> <<Part(c.kind, "reasoning", <<"max_tokens", c.value>>)>>
      [] c.kind = "usage" -> <<Part(c.kind, IF p.dialect = "open_router" THEN "usage" ELSE "stream_options", c.value)>>
      [] c.kind \in Thinking -> <<Part(c.kind, "chat_template_kwargs", c.kind :> c.value)>>
      [] OTHER -> <<Part(c.kind, c.kind, c.value)>>

\* Why a part cannot be had, or None (Controls::supported).
Unsupported(p, operation, part) ==
    LET allowed == IF part.control \in {"temperature", "top_p", "seed", "max_tokens", "usage"}
                   THEN operation # "embedding" ELSE operation = "chat"
    IN IF part.control \notin p.capabilities \/ ~allowed THEN "unsupported"
       ELSE IF part.control = "reasoning_effort" /\ part.value[2] \notin p.efforts THEN "unsupported_value"
       ELSE None
\* field, template: a template argument joins those already there.
written(fields, part) ==
    IF part.field = "chat_template_kwargs" /\ part.field \in DOMAIN fields
    THEN [fields EXCEPT ![part.field] = part.value @@ @]
    ELSE (part.field :> part.value) @@ fields
\* Values some profile may take; temperature and top_p are in tenths.
value_ok(c) ==
    CASE c.kind = "sampling" -> c.value.temperature \in 0..20 /\ (c.value.top_p = None \/ c.value.top_p \in 1..10)
      [] c.kind \in {"max_tokens", "reasoning_budget"} -> c.value > 0
      [] c.kind = "logprobs" -> c.value \in 0..20
      [] OTHER -> TRUE

\* One part, unless it is refused: [body, seen, degradations, ok].
TakenUnless(s, part, required, again) ==
    LET why == Unsupported(profile, request.operation, part)
    IN IF ~s.ok \/ again \/ (why # None /\ required) THEN [s EXCEPT !.ok = FALSE]
       ELSE [s EXCEPT !.seen = @ \cup {part.control},
                      !.body = IF why = None THEN written(@, part) ELSE @,
                      !.degradations = IF why = None THEN @ ELSE @ \cup {[control |-> part.control, reason |-> why]}]
\* Each control once.
Taken(s, part, required) == TakenUnless(s, part, required, part.control \in s.seen)
\* Controls::apply.
apply(c) ==
    LET s == [body |-> body, seen |-> seen, degradations |-> degradations, ok |-> TRUE]
        rivals == c.kind \in {"reasoning_effort", "reasoning_budget"}
    IN IF ~value_ok(c) \/ (rivals /\ reasoning) THEN [s EXCEPT !.ok = FALSE]
       ELSE FoldLeft(LAMBDA r, part : Taken(r, part, c.required), s, Parts(profile, c))

--------------------------------------------------------------------------
Controls == {[kind |-> c.kind, value |-> c.value, required |-> q] : c \in Offered, q \in BOOLEAN}
\* ProfileRequest, of an input its operation and what its messages need.
ProfileRequest == [operation : {"chat", "completion", "embedding"}, history : Histories,
                   controls : UNION {[1..n -> Controls] : n \in 0..MaxControls}]
Init ==
    /\ profile \in Profiles /\ request \in ProfileRequest
    /\ request.operation # "chat" => request.history = {}
    /\ at = 0 /\ body = <<>> /\ seen = {} /\ degradations = {} /\ reasoning = FALSE /\ stage = "check"

\* The input and the routing are written first.
Routed == IF profile.routing = None THEN <<>>
          ELSE "provider" :> [only |-> profile.routing, allow_fallbacks |-> FALSE, require_parameters |-> TRUE]
Opening ==
    Routed @@ ("input" :> request.operation)
    @@ (IF request.operation = "embedding" THEN "encoding_format" :> "float" ELSE "stream" :> TRUE)
\* prepare_request: profile, semantics and input.
Check ==
    /\ stage = "check"
    /\ IF profile_ok(profile) /\ request.operation \in profile.operations /\ history_ok(profile, request)
       THEN stage' = "apply" /\ body' = Opening ELSE stage' = "refused" /\ UNCHANGED body
    /\ UNCHANGED <<profile, request, at, seen, degradations, reasoning>>
Apply ==
    /\ stage = "apply" /\ at < Len(request.controls)
    /\ LET c == request.controls[at + 1]
           s == apply(c)
       IN /\ stage' = (IF s.ok THEN "apply" ELSE "refused")
          /\ at' = at + 1 /\ body' = s.body /\ seen' = s.seen /\ degradations' = s.degradations
          /\ reasoning' = (reasoning \/ c.kind \in {"reasoning_effort", "reasoning_budget"})
    /\ UNCHANGED <<profile, request>>
Prepare ==
    /\ stage = "apply" /\ at = Len(request.controls) /\ stage' = "prepared"
    /\ UNCHANGED <<profile, request, at, body, seen, degradations, reasoning>>
Next == Check \/ Apply \/ Prepare
Spec == Init /\ [][Next]_vars

--------------------------------------------------------------------------
\* Every part of every control, by its place.
Asked == UNION {{i} \X DOMAIN Parts(profile, request.controls[i]) : i \in DOMAIN request.controls}
PartAt(a) == Parts(profile, request.controls[a[1]])[a[2]]
Holds(part) ==
    /\ part.field \in DOMAIN body
    /\ IF part.field = "chat_template_kwargs"
       THEN part.control \in DOMAIN body[part.field] /\ body[part.field][part.control] = part.value[part.control]
       ELSE body[part.field] = part.value

\* In a prepared request every control that was asked for is in the body with its own value, or is
\* optional and reported as degraded, never both and never silently neither; nothing else is in the
\* body, whatever the order they came in; the routing always forbids a fallback (controls.rs).
EveryControlIsAnswered ==
    stage = "prepared" =>
       /\ \A a \in Asked :
             LET degraded == \E d \in degradations : d.control = PartAt(a).control
             IN (Holds(PartAt(a)) <=> ~degraded) /\ (degraded => ~request.controls[a[1]].required)
       /\ DOMAIN body = DOMAIN Opening \cup {PartAt(a).field : a \in {b \in Asked : Holds(PartAt(b))}}
       /\ profile.routing # None => body["provider"].only = profile.routing /\ ~body["provider"].allow_fallbacks
=============================================================================

---------------------------- MODULE Conversation ----------------------------
(***************************************************************************)
(* A conversation captured one message at a time, and its consumers: the   *)
(* result links every trajectory must have (gw-schema tool_links.rs), the  *)
(* wire form of a request (gw-providers tools.rs), the strict check of     *)
(* tool training (gw-schema tool_training.rs), and the training units and  *)
(* templates a record is rendered to (gw-schema message_validation.rs,     *)
(* gw-format projection.rs, render/).  A text is known by its message.     *)
(***************************************************************************)
EXTENDS Integers, Sequences, FiniteSets, SequencesExt, FiniteSetsExt

CONSTANTS None,        \* no value
          MaxMessages, \* bound: messages of one conversation
          Shapes,      \* the messages that may come next
          Definitions  \* names of the functions the tool contract defines

VARIABLE messages
vars == <<messages>>

\* TrlFormat, CotPolicy and MultiTurnLoss.
Targets == {"gemma4", "chatml", "sharegpt", "openai_messages", "harmony", "prompt_completion"}
Policies == {"supervised", "masked", "stripped"}
Losses == {"final_turn_only", "all_assistant"}

--------------------------------------------------------------------------
(* Result links.                                                           *)

Calls(m) == IF m.calls = None THEN <<>> ELSE m.calls
Indices(ms, role) == {i \in DOMAIN ms : ms[i].role = role}
\* declared_calls: where each call stands, its id and its function.
declared_calls(ms) ==
    UNION {{[at |-> i, nth |-> n, id |-> Calls(ms[i])[n].id, name |-> Calls(ms[i])[n].name] :
               n \in DOMAIN Calls(ms[i])} : i \in DOMAIN ms}

ids_unique(ds) == \A d, e \in ds : d.id # None /\ d.id = e.id => d = e
\* The result at i names a call that came earlier and that no result named before.
check_explicit_link(ms, i) ==
    \E d \in declared_calls(ms) :
        /\ d.id = ms[i].call_id /\ d.at < i
        /\ \A j \in Indices(ms, "tool") : j < i => ms[j].call_id # ms[i].call_id
\* A result without an id: the one call of that name, if it has an id and came earlier.
check_implicit_link(ms, i) ==
    LET same == {d \in declared_calls(ms) : d.name = ms[i].name}
    IN Cardinality(same) = 1 /\ \A d \in same : d.id # None /\ d.at < i
validate_tool_links(ms) ==
    /\ ids_unique(declared_calls(ms))
    /\ \A i \in Indices(ms, "tool") :
         IF ms[i].call_id # None THEN check_explicit_link(ms, i) ELSE check_implicit_link(ms, i)

--------------------------------------------------------------------------
(* Tool training.                                                          *)

\* Calls and results name one another; a call may still wait for its result.
StrictlyLinkedSoFar(ms) ==
    /\ \A d \in declared_calls(ms) :
         ms[d.at].role = "assistant" /\ d.id # None /\ d.name \in Definitions
    /\ ids_unique(declared_calls(ms))
    /\ \A i \in Indices(ms, "tool") :
         /\ check_explicit_link(ms, i)
         /\ ms[i].name # None =>
              \E d \in declared_calls(ms) : d.id = ms[i].call_id /\ d.name = ms[i].name
    /\ \A i \in DOMAIN ms : ms[i].role # "tool" => ms[i].call_id = None /\ ms[i].name = None
\* validate_tool_training_source: as many replies as calls.
validate_tool_training_source(ms) ==
    StrictlyLinkedSoFar(ms) /\ Cardinality(declared_calls(ms)) = Cardinality(Indices(ms, "tool"))

--------------------------------------------------------------------------
(* Training units.                                                         *)

ToolSignal(m) == m.calls # None \/ m.call_id # None \/ m.role = "tool"
preserves_tool_signals(target) == target \in {"openai_messages", "prompt_completion"}
\* render_source_issue: none.
renderable(ms, target) ==
    /\ \A i \in DOMAIN ms : ~ ms[i].leaks
    /\ preserves_tool_signals(target) \/ \A i \in DOMAIN ms : ~ ToolSignal(ms[i])

\* sft_source_targets: the assistant turns that are trained on, or None.
sft_source_targets(ms, target, loss) ==
    IF ms = <<>> \/ Last(ms).role # "assistant" THEN None
    ELSE LET chosen == IF loss = "final_turn_only" THEN {Len(ms)} ELSE Indices(ms, "assistant")
         IN IF \A i \in chosen : renderable(SubSeq(ms, 1, i), target) THEN chosen ELSE None

--------------------------------------------------------------------------
(* Templates: a document is a sequence of turns.                           *)

\* effective_reasoning.
reasoning(m, cot) == IF cot = "stripped" \/ m.role # "assistant" THEN None ELSE m.reasoning
Turn(role, texts, thought, tools) ==
    [role |-> role, texts |-> texts, thought |-> thought, tools |-> tools]

\* The pending system texts of a conversation's first i messages, not yet folded into a turn.
Pending(ms, i) ==
    SelectSeq([j \in 1..i |-> j],
              LAMBDA j : ms[j].role = "system" /\ \A k \in j..i : ms[k].role \notin {"user", "tool"})
LoneTurn(texts) == IF texts = <<>> THEN <<>> ELSE <<Turn("user", texts, None, FALSE)>>
\* gemma4::build_turns: a system text waits for the next user turn, or is a last one of its own.
GemmaTurns(ms, cot) ==
    FlattenSeq([i \in DOMAIN ms |->
        CASE ms[i].role = "system" -> <<>>
          [] ms[i].role = "assistant" -> <<Turn("model", <<i>>, reasoning(ms[i], cot), FALSE)>>
          [] OTHER -> <<Turn("user", Append(Pending(ms, i - 1), i), None, FALSE)>>])
build_turns(ms, cot) == GemmaTurns(ms, cot) \o LoneTurn(Pending(ms, Len(ms)))

\* The templates with a turn per message; the two faithful ones carry calls, ids and names.
Plain(ms, cot, tools) ==
    [i \in DOMAIN ms |-> Turn(ms[i].role, <<i>>, reasoning(ms[i], cot),
                              tools /\ ToolSignal(ms[i]))]
\* render: None where it refuses.
render(ms, target, cot) ==
    IF ~ renderable(ms, target) THEN None
    ELSE CASE target = "gemma4" -> build_turns(ms, cot)
           [] target = "openai_messages" -> Plain(ms, cot, TRUE)
           [] target = "prompt_completion" ->
                IF ms # <<>> /\ Last(ms).role = "assistant" THEN Plain(ms, cot, TRUE) ELSE None
           [] OTHER -> Plain(ms, cot, FALSE)

\* project_sft_units: the rendered prefix up to each trained turn, or None.
project_sft_units(ms, target, cot, loss) ==
    LET chosen == sft_source_targets(ms, target, loss)
    IN IF chosen = None THEN None ELSE [i \in chosen |-> render(SubSeq(ms, 1, i), target, cot)]
\* project_sft: the whole conversation at once.
project_sft(ms, target, cot, loss) ==
    LET turns == Cardinality(Indices(ms, "assistant"))
    IN IF turns = 0 \/ (target = "prompt_completion" /\ loss = "all_assistant" /\ turns > 1)
       THEN None ELSE render(ms, target, cot)

--------------------------------------------------------------------------
(* The conversation.                                                       *)

Init == messages = <<>>
Next == /\ Len(messages) < MaxMessages
        /\ \E m \in Shapes : messages' = Append(messages, m)
Spec == Init /\ [][Next]_vars

--------------------------------------------------------------------------
(* Properties.                                                             *)

TypeOK == messages \in Seq(Shapes) /\ Len(messages) <= MaxMessages

\* A trajectory with accepted links reads as a dialogue: every result stands after
\* exactly one call it can be the answer to, and no id is answered twice
\* (tool_links.rs, check_explicit_link and check_implicit_link).
LinksResolve ==
    validate_tool_links(messages) =>
        \A i \in Indices(messages, "tool") :
            LET m == messages[i]
                calls == {d \in declared_calls(messages) :
                             IF m.call_id # None THEN d.id = m.call_id ELSE d.name = m.name}
            IN /\ Cardinality(calls) = 1 /\ \A d \in calls : d.at < i
               /\ \A j \in Indices(messages, "tool") :
                    j # i /\ m.call_id # None => messages[j].call_id # m.call_id

\* Training material is complete: every call has exactly one later result under its own
\* function, every result has its call, and the trajectory would also be accepted by the
\* check every record passes (tool_training.rs:35).
TrainingIsComplete ==
    validate_tool_training_source(messages) =>
        /\ validate_tool_links(messages)
        /\ \A d \in declared_calls(messages) :
             Cardinality({i \in Indices(messages, "tool") : messages[i].call_id = d.id
                            /\ messages[i].name \in {None, d.name} /\ i > d.at}) = 1

\* What one trainer's path accepts the next can render: the chosen turns are assistant
\* turns whose prefixes all render, one of them the last message, and a single projection
\* of a finished conversation is refused only where its units are, or where the template
\* cannot supervise more than one turn (message_validation.rs:166, projection.rs:38).
UnitsRender ==
    \A target \in Targets, cot \in Policies, loss \in Losses :
        LET units == project_sft_units(messages, target, cot, loss)
            whole == project_sft(messages, target, cot, loss)
        IN /\ units # None =>
                /\ Len(messages) \in DOMAIN units
                /\ \A i \in DOMAIN units : messages[i].role = "assistant" /\ units[i] # None
                /\ whole = units[Len(messages)]
                     \/ (target = "prompt_completion" /\ Cardinality(DOMAIN units) > 1)
           /\ whole # None /\ Last(messages).role = "assistant" => units # None

\* A rendered conversation says everything once: every message's text is in exactly one
\* turn, no turn puts a user's text before an earlier one's, and a template without a
\* place for tools renders no conversation that has them (render/mod.rs:104, gemma4.rs:93).
RenderLosesNothing ==
    \A target \in Targets, cot \in Policies :
        LET doc == render(messages, target, cot)
            texts == FlattenSeq([t \in DOMAIN doc |-> doc[t].texts])
            spoken(s) == SelectSeq(s, LAMBDA i : messages[i].role # "system")
        IN doc # None =>
             /\ ToSet(texts) = DOMAIN messages /\ Len(texts) = Len(messages)
             /\ spoken(texts) = SelectSeq([i \in DOMAIN messages |-> i],
                                          LAMBDA i : messages[i].role # "system")
             /\ Cardinality({t \in DOMAIN doc : doc[t].tools})
                  = Cardinality({i \in DOMAIN messages : ToolSignal(messages[i])})
=============================================================================

----------------------------- MODULE SftExample -----------------------------
(***************************************************************************)
(* One training example of a prepared input: what of a rendered            *)
(* conversation carries loss (gw-schema prepared_sft_validation.rs), and   *)
(* the serial tool profile, whose source and rendering the validator works *)
(* out again (prepared_gemma31b.rs, prepared_gemma31b_render.rs).  What    *)
(* the adapter makes of a target (adapters/trl projection.py and           *)
(* profiles/qwen.py for text, gemma31b/render.py for the serial profile)   *)
(* reaches the validator in a file.  A message also has .content.          *)
(***************************************************************************)
EXTENDS Conversation

CONSTANTS Controls,  \* [thinking, preserve]: renderer controls of the serial profile
          Answers,   \* answers of a text target: sequences of "letter", "white" and "mark"
          MaxText,   \* bound: characters of a text example
          MaxAltered \* bound: characters of an example altered in its file, one of a last turn

\* The example being prepared: [serial, cot, controls, target, characters, spans, white,
\* marks, tokens, altered], or None.  Whitespace and combining marks are known by where they stand.
VARIABLE ex
exvars == <<messages, ex>>

--------------------------------------------------------------------------
(* The serial source: user, then calls each with its result at once, then  *)
(* an answer, again and again.                                             *)

IsCall(m) == m.role = "assistant" /\ m.calls # None
Part(m) == IF IsCall(m) THEN "call" ELSE m.role
\* What may stand before a part; a leading system message stands for nothing.
Before == [system |-> {"start"}, user |-> {"start", "assistant"}, call |-> {"user", "tool"},
           assistant |-> {"user", "tool"}, tool |-> {"call"}]
InOrder(ms, i) ==
    /\ (IF i = 1 \/ (i = 2 /\ ms[1].role = "system" /\ ms[2].role # "system") THEN "start"
        ELSE Part(ms[i - 1])) \in Before[Part(ms[i])]
    /\ ms[i].role = "tool" => ms[i].call_id = ms[i - 1].calls[1].id
\* source: what of the captured row the serial profile can teach.
source(ms) ==
    /\ validate_tool_training_source(ms)
    /\ \A i \in DOMAIN ms :
         /\ ~ ms[i].leaks /\ InOrder(ms, i)
         /\ ms[i].role # "assistant" => ms[i].reasoning = None
         /\ ms[i].role = "assistant" =>
              IF IsCall(ms[i]) THEN Len(ms[i].calls) = 1 /\ ms[i].content = ""
              ELSE ms[i].content # ""
    /\ ms # <<>> /\ Last(ms).role = "assistant" /\ ~ IsCall(Last(ms))

--------------------------------------------------------------------------
(* The ledger: who wrote each character.  All pieces but a text target's   *)
(* answer are one character long.                                          *)

Words(kind, supervised, i, n) == <<[kind |-> kind, supervised |-> supervised, at |-> i, length |-> n]>>
Piece(kind, supervised, i) == Words(kind, supervised, i, 1)
If(c, pieces) == IF c THEN pieces ELSE <<>>
\* The pieces one after the other: half-open spans of the rendered text.
Laid(pieces) ==
    LET upto[n \in 0..Len(pieces)] ==
          IF n = 0 THEN <<>>
          ELSE LET before == upto[n - 1]
                   start == IF before = <<>> THEN 0 ELSE Last(before).end
                   q == pieces[n]
               IN Append(before, [start |-> start, end |-> start + q.length, kind |-> q.kind,
                                  supervised |-> q.supervised, at |-> q.at])
    IN upto[Len(pieces)]
Preamble(ms, tools, controls) ==
    Piece("header", FALSE, 1) \o
    If(ms[1].role = "system" \/ tools \/ controls.thinking,
       Piece("header", FALSE, 1) \o If(controls.thinking, Piece("header", FALSE, 1))
         \o If(ms[1].role = "system" /\ ms[1].content # "", Piece("context", FALSE, 1))
         \o If(tools, Piece("definition", FALSE, 1))
         \o Piece("end", FALSE, 1) \o Piece("separator", FALSE, 1))
\* Reasoning is learned in the turn that is trained, under the supervised policy.
thought(i, target, cot) == i = target /\ cot = "supervised"
\* What one message after the preamble is rendered to.
Rendered(ms, i, cot, controls) ==
    LET m == ms[i]
        target == Len(ms)
        user == CHOOSE n \in Indices(ms, "user") : \A k \in Indices(ms, "user") : k <= n
        shown == cot # "stripped" /\ m.reasoning \notin {None, ""}
                 /\ (i > user \/ (controls.preserve = TRUE /\ IsCall(m)))
    IN IF m.role = "tool" THEN Piece("observation", FALSE, i)
       ELSE If(m.role # "assistant" \/ ms[i - 1].role # "tool", Piece("header", FALSE, i))
            \o If(shown, Piece("reasoning_wrapper", thought(i, target, cot), i)
                           \o Piece("reasoning", thought(i, target, cot), i)
                           \o Piece("reasoning_wrapper", thought(i, target, cot), i))
            \o IF IsCall(m)
               THEN Piece("call_wrapper", i = target, i) \o Piece("call", i = target, i)
                      \o Piece("call_wrapper", i = target, i)
                      \o If(i = target, Piece("handoff", TRUE, i))
               ELSE If(m.content # "", Piece(IF i = target THEN "answer" ELSE "context", i = target, i))
                      \o Piece("end", i = target, i) \o Piece("separator", FALSE, i)
render_serial(ms, cot, controls) ==
    LET first == IF ms[1].role = "system" THEN 2 ELSE 1
        pieces == Preamble(ms, Definitions # {}, controls)
                  \o FlattenSeq([n \in 1..(Len(ms) - first + 1) |->
                                   Rendered(ms, n + first - 1, cot, controls)])
    IN Laid(pieces)

\* project_messages: plain turns of user and assistant after an optional system text.
project_messages(ms) ==
    LET first == IF ms # <<>> /\ ms[1].role = "system" THEN 2 ELSE 1 IN
    /\ \A i \in DOMAIN ms : /\ ~ ms[i].leaks /\ ~ ToolSignal(ms[i]) /\ ms[i].name = None
                           /\ ms[i].role # "assistant" => ms[i].reasoning = None
    /\ \A i \in first..Len(ms) : ms[i].role = IF (i - first) % 2 = 0 THEN "user" ELSE "assistant"
    /\ Len(ms) >= first /\ Last(ms).role = "assistant"
\* qwen.render, the last message being the target and its answer n characters.
render_text(ms, cot, n) ==
    LET target == Len(ms)
        lossy == cot = "supervised"
        said(i) ==
            IF i # target THEN If(ms[i].content # "", Piece("context", FALSE, i))
            ELSE Piece("reasoning_wrapper", lossy, i)
                 \o If(cot # "stripped" /\ ms[i].reasoning \notin {None, ""}, Piece("reasoning", lossy, i))
                 \o Piece("reasoning_wrapper", lossy, i) \o Words("answer", TRUE, i, n)
    IN Laid(FlattenSeq([i \in DOMAIN ms |-> Piece("header", FALSE, i) \o said(i)
                           \o Piece("end", i = target, i) \o Piece("separator", FALSE, i)]))

\* PreparedSftExample::validate, the spans: an unbroken ledger from the first message to the
\* target, with loss on the target's own kinds.
Expected(e, s) ==
    IF s.kind \in {"answer", "end"} \cup (IF e.serial THEN {"call", "call_wrapper", "handoff"} ELSE {})
    THEN s.at = e.target
    ELSE s.kind \in {"reasoning", "reasoning_wrapper"} /\ s.at = e.target /\ e.cot = "supervised"
Kinds(e) == {"answer", "end", "reasoning", "reasoning_wrapper", "header", "separator", "context"}
            \cup (IF e.serial THEN {"call", "call_wrapper", "handoff", "definition", "observation"} ELSE {})
ledger_ok(e) ==
    /\ e.spans # <<>> /\ e.spans[1].at = 1 /\ e.spans[1].start = 0
    /\ Last(e.spans).at = e.target /\ Last(e.spans).end = e.characters
    /\ \A n \in DOMAIN e.spans :
         LET s == e.spans[n] IN
         /\ s.kind \in Kinds(e) /\ s.end > s.start /\ s.supervised = Expected(e, s)
         /\ n > 1 => s.start = e.spans[n - 1].end /\ s.at - e.spans[n - 1].at \in {0, 1}

--------------------------------------------------------------------------
(* The tokens: [raw, own, label], own what the token takes with it.        *)

owners(e, t) == {n \in DOMAIN e.spans : e.spans[n].start < t.own[2] /\ e.spans[n].end > t.own[1]}
\* Mutated: a label agrees with one of the owners.
token_of_any(e, i) ==
    LET t == e.tokens[i] IN
    /\ t.raw[1] < t.raw[2] /\ (i > 1 => t.raw[1] >= e.tokens[i - 1].raw[1])
    /\ t.own[1] <= t.raw[1] /\ t.own[2] >= t.raw[2] /\ t.own[2] <= e.characters
    /\ owners(e, t) # {} /\ \E n \in owners(e, t) : e.spans[n].supervised = t.label
token_ok(e, i) ==
    LET t == e.tokens[i] IN
    /\ t.raw[1] < t.raw[2] /\ (i > 1 => t.raw[1] >= e.tokens[i - 1].raw[1])
    /\ t.own[1] <= t.raw[1] /\ t.own[2] >= t.raw[2] /\ t.own[2] <= e.characters
    /\ owners(e, t) # {} /\ \A n \in owners(e, t) : e.spans[n].supervised = t.label
\* The tokens a shifted loss really teaches of one kind.
learned(e, kind) ==
    {i \in DOMAIN e.tokens : /\ i > 1 /\ {e.spans[n].kind : n \in owners(e, e.tokens[i])} = {kind}
                             /\ e.tokens[i].label
                             /\ \E c \in e.tokens[i].own[1]..(e.tokens[i].own[2] - 1) : c \notin e.white}
\* prepared_gemma31b::validate: source, rendering and ending, worked out again.
serial_ok(e) ==
    /\ source(messages) /\ messages[e.target].role = "assistant"
    /\ e.spans = render_serial(SubSeq(messages, 1, e.target), e.cot, e.controls)
    /\ IF IsCall(messages[e.target])
       THEN learned(e, "answer") = {} /\ Last(e.tokens).label
       ELSE learned(e, "call") = {} /\ ~ Last(e.tokens).label
\* PreparedSftExample::validate.
validate_example(e) ==
    /\ e.tokens # <<>>
    /\ e.serial => serial_ok(e)
    /\ ledger_ok(e) /\ \A i \in DOMAIN e.tokens : token_ok(e, i)
    /\ learned(e, IF e.serial /\ IsCall(messages[e.target]) THEN "call" ELSE "answer") # {}

--------------------------------------------------------------------------
(* Preparation: the trainer renders a target and tokenizes it.             *)

ExInit == Init /\ ex = None
\* The record's conversation, as it was captured.
Talk == ex = None /\ Next /\ UNCHANGED ex
\* A canonical serial rendering, a token to every piece of it.
PrepareSerial ==
    /\ ex = None
    /\ \E target \in Indices(messages, "assistant"), cot \in Policies, controls \in Controls :
         /\ source(messages)
         /\ LET spans == render_serial(SubSeq(messages, 1, target), cot, controls) IN
            ex' = [serial |-> TRUE, cot |-> cot, controls |-> controls, target |-> target,
                   spans |-> spans, characters |-> Last(spans).end, white |-> {}, marks |-> {},
                   altered |-> FALSE,
                   tokens |-> [n \in DOMAIN spans |-> [raw |-> <<n - 1, n>>, own |-> <<n - 1, n>>,
                                                       label |-> spans[n].supervised]]]
    /\ UNCHANGED messages
\* The combining sequence a character is part of.
cluster(e, c) ==
    LET base == Max({b \in 0..c : b \notin e.marks \/ b = 0})
        after == {d \in (base + 1)..(e.characters - 1) : d \notin e.marks}
    IN <<base, IF after = {} THEN e.characters ELSE Min(after)>>
\* How a tokenizer may cut the text, bounded: one of its tokens may have two characters, and
\* the others have one.  Its offsets may leave out marks.  (One whose tokens share characters
\* is left out.)
Cuts(e) ==
    {c \in [wide : {{}} \cup {{w} : w \in 0..(e.characters - 2)}, omitted : SUBSET e.marks] :
        \A w \in c.wide : {w, w + 1} \cap c.omitted = {}}
offset_mapping(e, c) ==
    LET starts == SelectSeq([n \in 1..e.characters |-> n - 1],
                            LAMBDA s : s - 1 \notin c.wide /\ s \notin c.omitted)
    IN [i \in DOMAIN starts |-> <<starts[i], starts[i] + IF starts[i] \in c.wide THEN 2 ELSE 1>>]
\* ownership_offsets and label_tokens: a token takes the whole of the combining sequences it
\* touches, and its label is that of its owners.
label_tokens(e, offsets) ==
    [i \in DOMAIN offsets |->
        LET own == <<cluster(e, offsets[i][1])[1], cluster(e, offsets[i][2] - 1)[2]>> IN
        [raw |-> offsets[i], own |-> own,
         label |-> \E n \in DOMAIN e.spans : /\ e.spans[n].start < own[2] /\ e.spans[n].end > own[1]
                                             /\ e.spans[n].supervised]]
\* What neither refuses: no combining sequence has two owners, no token crosses the boundary of
\* the loss, and a whole answer token survives the shift.
accepted(e) ==
    /\ \A c \in e.marks : \E s \in ToSet(e.spans) : s.start < c /\ c < s.end
    /\ \A i \in DOMAIN e.tokens : Cardinality({e.spans[n].supervised : n \in owners(e, e.tokens[i])}) = 1
    /\ learned(e, "answer") # {}
\* prepare_target of a text profile: a target is rendered, tokenized and labelled, or rejected,
\* and then there is no example.
PrepareText ==
    /\ ex = None /\ project_messages(messages)
    /\ \E target \in Indices(messages, "assistant"), cot \in Policies, answer \in Answers :
         LET spans == render_text(SubSeq(messages, 1, target), cot, Len(answer))
             from == (CHOOSE s \in ToSet(spans) : s.kind = "answer").start
             those(class) == {from + i - 1 : i \in {k \in DOMAIN answer : answer[k] = class}}
             e == [serial |-> FALSE, cot |-> cot, controls |-> None, target |-> target,
                   spans |-> spans, characters |-> Last(spans).end, white |-> those("white"),
                   marks |-> those("mark"), altered |-> FALSE, tokens |-> <<>>]
         IN /\ e.characters <= MaxText
            /\ ex' \in {t \in {[e EXCEPT !.tokens = label_tokens(e, offset_mapping(e, c))] : c \in Cuts(e)} :
                           accepted(t)}
    /\ UNCHANGED messages
\* The example in its file may be altered once: a label, what a token takes with it, or the
\* owner of a piece, with the labels under it.
Relabelled(e, n, s) ==
    [e EXCEPT !.spans[n] = s,
              !.tokens = [i \in DOMAIN e.tokens |->
                            IF n \in owners(e, e.tokens[i])
                            THEN [e.tokens[i] EXCEPT !.label = s.supervised] ELSE e.tokens[i]]]
Alterations(e) ==
    {[e EXCEPT !.tokens[i].label = ~ @] : i \in DOMAIN e.tokens}
    \cup {[e EXCEPT !.tokens[i].own[1] = @ - 1] : i \in {k \in DOMAIN e.tokens : e.tokens[k].own[1] > 0}}
    \cup {[e EXCEPT !.tokens[i].own[2] = @ + 1] : i \in DOMAIN e.tokens}
    \cup {[e EXCEPT !.spans = RemoveAt(@, n)] : n \in DOMAIN e.spans \ {1}}
    \cup UNION {{Relabelled(e, n, [e.spans[n] EXCEPT !.supervised = ~ @]),
                Relabelled(e, n, [e.spans[n] EXCEPT !.supervised = TRUE, !.kind = "answer"])} :
                   n \in DOMAIN e.spans}
Alter ==
    /\ ex # None /\ ~ ex.altered /\ ex.characters <= MaxAltered /\ ex.target = Len(messages)
    /\ \E e \in Alterations(ex) : ex' = [e EXCEPT !.altered = TRUE]
    /\ UNCHANGED messages
ExNext == Talk \/ PrepareSerial \/ PrepareText \/ Alter
ExSpec == ExInit /\ [][ExNext]_exvars

--------------------------------------------------------------------------
(* Properties.                                                             *)

\* Loss falls on the trained turn and on nothing else: no character under a labelled token
\* belongs to another turn, to a header or to a result of a tool, and no character of the
\* answer or the call is under an unlabelled one (prepared_sft_validation.rs:443-497).
LossIsOnTheTarget(e) ==
    \A i \in DOMAIN e.tokens : \A c \in e.tokens[i].own[1]..(e.tokens[i].own[2] - 1) :
        LET s == e.spans[CHOOSE n \in DOMAIN e.spans : e.spans[n].start <= c /\ c < e.spans[n].end]
        IN /\ e.tokens[i].label => s.at = e.target
                                   /\ s.kind \notin {"header", "context", "observation", "definition"}
           /\ ~ e.tokens[i].label => ~ (s.at = e.target /\ s.kind \in {"answer", "call"})

\* Something is learned: a token that another one precedes, with a visible character, of the
\* answer or the call (prepared_sft_validation.rs:484-504).
SomethingIsLearned(e) ==
    \E i \in DOMAIN e.tokens \ {1} :
        /\ e.tokens[i].label
        /\ \E c \in e.tokens[i].own[1]..(e.tokens[i].own[2] - 1) :
             c \notin e.white /\ \E s \in ToSet(e.spans) :
                s.start <= c /\ c < s.end /\ s.kind \in {"answer", "call"} /\ s.at = e.target

\* An example the validator accepts has its loss on its target, and some of it.  The two sides
\* agree: what an adapter prepares of a target, under any policy and however its tokenizer
\* cuts the text, is accepted (projection.py:132-169, gemma31b/render.py:69,
\* prepared_sft_validation.rs:375).
ExampleTeachesItsTarget ==
    ex # None => IF validate_example(ex) THEN LossIsOnTheTarget(ex) /\ SomethingIsLearned(ex)
                 ELSE ex.altered
=============================================================================

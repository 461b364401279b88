----------------------------- MODULE MCTraining ------------------------------
(* What a trainer is given and what it gives back: a conversation and the  *)
(* units it projects to, an example and its loss, a prepared input and its *)
(* source, a checkpoint and its declaration, numeric rewards, and the      *)
(* assessment of the artifacts a training may use.                         *)
EXTENDS Integers, Sequences, FiniteSets
CONSTANTS None, Unknown

VARIABLES scenario, \* the component the behaviour is about; the others stay idle
          messages,
          example_messages, ex,
          records, artifact, payload, stage,
          kind, recipe, prepared, at, ledger, frame, sealed, verdict, faults,
          documents, exports, policy, rollouts, request, report,
          family, asked, supply, catalog, walk, denials, slips, assess_stage

------------------------------------------------------------------------------
(* Conversations of up to four messages of twelve shapes.                  *)
Msg(role, calls, id, name) ==
    [role |-> role, calls |-> calls, call_id |-> id, name |-> name, reasoning |-> None,
     leaks |-> FALSE]
Call(id, name) == [id |-> id, name |-> name]
MCShapes ==
    {Msg("user", None, None, None), Msg("system", None, None, None),
     Msg("assistant", None, None, None),
     [Msg("assistant", None, None, None) EXCEPT !.reasoning = "why"],
     [Msg("assistant", None, None, None) EXCEPT !.leaks = TRUE],
     Msg("assistant", <<Call("i", "f")>>, None, None),
     Msg("assistant", <<Call("i", "f"), Call("j", "f")>>, None, None),
     Msg("assistant", <<Call(None, "f")>>, None, None),
     Msg("assistant", <<Call("j", "g")>>, None, None),
     Msg("tool", None, "i", None), Msg("tool", None, "j", "g"), Msg("tool", None, None, "f")}
Talk == INSTANCE Conversation WITH
    MaxMessages <- 4, Shapes <- MCShapes, Definitions <- {"f", "g"}
talk_vars == <<messages>>

------------------------------------------------------------------------------
(* Conversations of up to five messages with their contents, and five      *)
(* answers of two characters.                                              *)
Said(shape, content) == [f \in DOMAIN shape \cup {"content"} |->
                            IF f = "content" THEN content ELSE shape[f]]
MCSaid ==
    {Said(Msg("user", None, None, None), "text"), Said(Msg("system", None, None, None), "text"),
     Said(Msg("assistant", None, None, None), "text"),
     Said([Msg("assistant", None, None, None) EXCEPT !.reasoning = "why"], "text"),
     Said(Msg("assistant", <<Call("i", "f")>>, None, None), ""),
     Said([Msg("assistant", <<Call("j", "f")>>, None, None) EXCEPT !.reasoning = "why"], ""),
     Said(Msg("tool", None, "i", None), "text"), Said(Msg("tool", None, "j", "f"), "text")}
MCAnswers == {<<"letter", "letter">>, <<"letter", "mark">>, <<"white", "letter">>,
              <<"white", "white">>, <<"mark", "letter">>}
Example == INSTANCE SftExample WITH
    MaxMessages <- 5, Shapes <- MCSaid, Definitions <- {"f"},
    Controls <- [thinking : BOOLEAN, preserve : BOOLEAN], Answers <- MCAnswers,
    MaxText <- 19, MaxAltered <- 13,
    messages <- example_messages
example_vars == <<example_messages, ex>>

------------------------------------------------------------------------------
(* Populations of two or three records, two scopes, and one body a damaged *)
(* row may have.                                                           *)
Rec(id, run, adm, turns, split) ==
    [id |-> id, run |-> run, admitted |-> adm, turns |-> turns, split |-> split, body |-> "new"]
OneTurn == <<"user", "assistant">>
MCPopulations == {{Rec(1, "a", TRUE, <<"system">> \o OneTurn \o OneTurn, "train"),
                   Rec(2, "b", TRUE, OneTurn, "test")},
                  {Rec(1, "a", TRUE, OneTurn \o OneTurn, None), Rec(2, "a", FALSE, OneTurn, None)},
                  {Rec(1, "a", TRUE, OneTurn, None), Rec(2, "a", TRUE, OneTurn \o <<"user">>, "train"),
                   Rec(3, "a", TRUE, OneTurn \o OneTurn, "train")}}
Input == INSTANCE TrainingInput WITH
    Populations <- MCPopulations, Scopes <- {None, "a"},
    Bodies <- {"old"}
prepare_vars == <<records, artifact, payload, stage>>

------------------------------------------------------------------------------
(* Three examples, two updates, batches and accumulations of two, three    *)
(* parameters, one fault.                                                  *)
Trained == INSTANCE Checkpoints WITH
    Kinds <- {"full", "lora", "cuda"}, MaxExamples <- 3, MaxSteps <- 2,
    MaxBatch <- 2, MaxAccumulation <- 2, Params <- {1, 2, 3}, MaxFaults <- 1
train_vars == <<kind, recipe, prepared, at, ledger, frame, sealed, verdict,
                faults>>

------------------------------------------------------------------------------
(* Corpora of one or two tasks with one thing wrong at most; up to two     *)
(* completions of one prompt and one of a retry.                           *)
Within(m, a, r) == [marker |-> m, absolute |-> a, relative |-> r]
Sum(id, source, group, split, expected, numeric) ==
    [id |-> id, source |-> source, group |-> group, split |-> split, expected |-> expected,
     numeric |-> numeric, training |-> TRUE, reviewed |-> TRUE, authoritative |-> TRUE]
t1 == Sum("t1", "s1", "g1", "Train", 1, Within(FALSE, 0, 0))
t2 == Sum("t2", "s2", "g2", "Train", 2, Within(TRUE, 1, 1))
e1 == Sum("t3", "s3", "g3", "Evaluation", 2, Within(TRUE, 1, 1))
MCCorpora ==
    {<<<<t1, t2>>, <<e1>>>>, <<<<t2>>>>, <<<<t1>>, <<[e1 EXCEPT !.group = "g1"]>>>>,
     <<<<t1>>, <<[e1 EXCEPT !.source = "s1"]>>>>, <<<<[t1 EXCEPT !.training = FALSE]>>>>,
     <<<<e1>>>>, <<<<t1>>, <<>>>>, <<<<[t2 EXCEPT !.numeric.relative = 9]>>>>}
Stops == <<[id |-> 2, literal |-> "turn"], [id |-> 3, literal |-> "eos"]>>
MCRewardPolicies ==
    {[vocab |-> 4, eos |-> 3, controls |-> Stops], [vocab |-> 4, eos |-> 2, controls |-> Stops],
     [vocab |-> 4, eos |-> 3, controls |-> <<Stops[1]>>]}
Line(m, v) == [marks |-> m, value |-> v]
MCCompletions ==
    {[ids |-> <<0, 3>>, lines |-> <<Line("None", 1)>>, literals |-> {}],
     [ids |-> <<1>>, lines |-> <<Line("None", 5)>>, literals |-> {}],
     [ids |-> <<1, 2>>, lines |-> <<Line("None", 5), Line("Opens", 4)>>, literals |-> {}],
     [ids |-> <<3, 1>>, lines |-> <<Line("Opens", 7)>>, literals |-> {}],
     [ids |-> <<0>>, lines |-> <<Line("Within", 1)>>, literals |-> {"turn"}]}
MCAttempts == {<<1, 0>>, <<1, 1>>}
MCRollouts == [a \in MCAttempts |-> IF a = <<1, 0>> THEN 2 ELSE 1]
Rewarded == INSTANCE Rewards WITH
    Corpora <- MCCorpora, Policies <- MCRewardPolicies,
    Completions <- MCCompletions, Attempts <- MCAttempts,
    MaxItems <- MCRollouts, Finite <- 16
RewardInit == /\ Rewarded!Init
              /\ \/ documents[2] = <<<<t2>>>> /\ policy.eos = 3
                 \/ documents[1] = <<<<t2>>>> /\ policy.eos = 3 /\ Len(policy.controls) = 2
                 \/ documents = <<<<<<t2>>>>, <<<<t2>>>>>>
reward_vars == <<documents, exports, policy, rollouts, request, report>>

------------------------------------------------------------------------------
(* Three artifacts: a base, one of its descendants, and any descendant of  *)
(* both; one slip in what is submitted.                                    *)
Blank == [kind |-> "base", base |-> None, more |-> {}, parent |-> None, adapter |-> None]
Opt(i) == 1 .. (i - 1) \cup {None, Unknown}
Lineages(i) ==
    {Blank}
    \cup {[Blank EXCEPT !.kind = "derived", !.base = b, !.more = m] :
            b \in 1 .. (i - 1), m \in {{}, Unknown} \cup {{j} : j \in 1 .. (i - 1)}}
    \cup {[Blank EXCEPT !.kind = "quantized", !.base = b] : b \in 1 .. (i - 1)}
    \cup {[Blank EXCEPT !.kind = "adapter", !.base = b, !.parent = p] :
            b \in 1 .. (i - 1), p \in Opt(i)}
    \cup {[Blank EXCEPT !.kind = "checkpoint", !.base = b, !.parent = p, !.adapter = a] :
            b \in 1 .. (i - 1), p \in Opt(i), a \in Opt(i)}
MCFamilies ==
    {<<Blank, b, c>> : b \in {Blank, [Blank EXCEPT !.kind = "adapter", !.base = 1],
                              [Blank EXCEPT !.kind = "derived", !.base = 1]}, c \in Lineages(3)}
MCScope == [role |-> "teacher", use |-> "training"]
MCScopes == {MCScope, [role |-> "teacher", use |-> "generation"]}
Assessed == INSTANCE Assessment WITH
    Families <- MCFamilies, Scopes <- MCScopes, Scope <- MCScope,
    MaxSlips <- 1, stage <- assess_stage
AssessInit == Assessed!Init /\ asked = 3
assess_vars == <<family, asked, supply, catalog, walk, denials, slips,
                 assess_stage>>

------------------------------------------------------------------------------
MCvars == <<scenario, talk_vars, example_vars, prepare_vars, train_vars,
                      reward_vars, assess_vars>>
talk_idle == messages = None
example_idle == example_messages = None /\ ex = None
prepare_idle == records = None /\ artifact = None /\ payload = None /\ stage = None
train_idle == /\ kind = None /\ recipe = None /\ prepared = None /\ at = None
              /\ ledger = None /\ frame = None /\ sealed = None /\ verdict = None
              /\ faults = None
reward_idle == /\ documents = None /\ exports = None /\ policy = None /\ rollouts = None
               /\ request = None /\ report = None
assess_idle == /\ family = None /\ asked = None /\ supply = None /\ catalog = None
               /\ walk = None /\ denials = None /\ slips = None /\ assess_stage = None

MCInit ==
    /\ scenario \in {"talk", "example", "prepare", "train", "reward",
                     "assess"}
    /\ IF scenario = "talk" THEN Talk!Init ELSE talk_idle
    /\ IF scenario = "example" THEN Example!ExInit ELSE example_idle
    /\ IF scenario = "prepare" THEN Input!Init ELSE prepare_idle
    /\ IF scenario = "train" THEN Trained!Init ELSE train_idle
    /\ IF scenario = "reward" THEN RewardInit ELSE reward_idle
    /\ IF scenario = "assess" THEN AssessInit ELSE assess_idle

\* A step of one component: no other takes one.
Turn(name) ==
    /\ scenario = name /\ UNCHANGED scenario
    /\ IF name = "talk" THEN TRUE ELSE UNCHANGED talk_vars
    /\ IF name = "example" THEN TRUE ELSE UNCHANGED example_vars
    /\ IF name = "prepare" THEN TRUE ELSE UNCHANGED prepare_vars
    /\ IF name = "train" THEN TRUE ELSE UNCHANGED train_vars
    /\ IF name = "reward" THEN TRUE ELSE UNCHANGED reward_vars
    /\ IF name = "assess" THEN TRUE ELSE UNCHANGED assess_vars
talk_step == Turn("talk") /\ Talk!Next
example_step == Turn("example") /\ Example!ExNext
prepare_step == Turn("prepare") /\ Input!Next
train_step == Turn("train") /\ Trained!Next
reward_step == Turn("reward") /\ Rewarded!Next
assess_step == Turn("assess") /\ Assessed!Next
MCNext ==
    \/ talk_step \/ example_step \/ prepare_step
    \/ train_step \/ reward_step \/ assess_step
MCSpec == MCInit /\ [][MCNext]_MCvars

------------------------------------------------------------------------------
\* A projected unit says what the conversation says: links resolve, a training unit is
\* complete, every unit renders, and rendering loses nothing (tool_links.rs,
\* projection.rs, render). In an example the loss is on the target's own tokens, some
\* of them, and what an adapter prepares is accepted (prepared_sft_validation.rs,
\* projection.py).
ExamplesTeachTheTarget ==
    /\ scenario = "talk" => /\ Talk!LinksResolve /\ Talk!TrainingIsComplete
                            /\ Talk!UnitsRender /\ Talk!RenderLosesNothing
    /\ scenario = "example" => /\ Example!ExampleTeachesItsTarget

\* A prepared input that is taken back is made of exactly the records its artifact
\* selects, and every turn of them is in an example or a rejection; one that arrives as
\* it was built is taken back (prepared_sft.rs, build.py).
InputIsItsSource == scenario = "prepare" =>
    /\ Input!SourceIsTheSelection /\ Input!EveryTurnIsAccounted
    /\ Input!WhatIsBuiltIsVerified

\* A verified checkpoint was trained on every example in its turn, its declared
\* measurements are those of the stored bytes, and it differs from what it started
\* from (training_checkpoint.rs, lora_checkpoint.rs).
CheckpointIsWhatItSays == scenario = "train" =>
    Trained!EveryExampleInTurn /\ Trained!MeasuredIsStored /\ Trained!TrainingChangedIt

\* Every reward is for the completion it is listed with, and nothing held out is ever
\* rewarded (reward_batch.rs, numeric_reward.rs).
RewardsAreEarned == scenario = "reward" =>
    Rewarded!EveryRewardIsForItsCompletion /\ Rewarded!HeldOutIsNeverRewarded

\* An artifact called eligible, and everything it descends from, was reviewed for the
\* use it is eligible for, each by a review of that very artifact (gw-providers
\* artifact_assessment/mod.rs and lineage.rs).
EligibleMeansReviewed == scenario = "assess" => Assessed!EligibleMeansReviewed
==============================================================================

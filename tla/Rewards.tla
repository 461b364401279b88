------------------------------ MODULE Rewards ------------------------------
(***************************************************************************)
(* Numeric rewards for a trainer: the corpus of reviewed tasks is exported *)
(* as an artifact, the trainer samples completions of its tasks and sends  *)
(* them back in batches, and each batch is rewarded as a whole or refused  *)
(* (gw-schema/src/numeric_reward.rs and reward_batch.rs, gw-judge/src/     *)
(* numeric_reward.rs, gw-cli/src/commands/reward.rs).  The evaluator keeps *)
(* no state: what it knows of a batch is what the batch says of itself.    *)
(*                                                                         *)
(* Digests are the content they cover.  Between the trainer's rollout and  *)
(* its request one thing may go wrong (Slips); it never forges a digest.   *)
(* What the adapter checks again of its own items and of the report it     *)
(* receives (rewards.py _item, _validate_report) is left out: the model    *)
(* lets more through than it does.                                         *)
(***************************************************************************)
EXTENDS Naturals, Integers, Sequences, SequencesExt, FiniteSets

CONSTANTS Corpora,     \* sequences of documents, each a sequence of tasks
          Policies,    \* how a trainer decodes: [vocab, eos, controls]
          Completions, \* what a policy may sample: [ids, lines, literals]
          Attempts,    \* bound: the batches of the trainer's runs
          MaxItems,    \* bound: the completions in each of them
          Finite,      \* the largest magnitude that does not overflow
          None

VARIABLES documents, \* the documents of each export
          exports,   \* what export answered: an artifact, or None
          policy,    \* the trainer's completion policy
          rollouts,  \* what the trainer sampled for each batch, in order
          request,   \* the batch that was sent, or None
          report     \* what the evaluator answered: results, Refused or None

vars == <<documents, exports, policy, rollouts, request, report>>

--------------------------------------------------------------------------
(* Reviewed tasks.                                                         *)

Magnitude(v) == IF v < 0 THEN - v ELSE v

\* NumericComparison::bound: the tolerance around an expected value.
bound(numeric, expected) ==
    IF numeric.relative > 1 /\ Magnitude(expected) > Finite \div numeric.relative
    THEN None ELSE Max({numeric.absolute, numeric.relative * Magnitude(expected)})

\* The semantic identity: source, prompt and answer, not the label.
Identity(task) == [source |-> task.source, expected |-> task.expected,
                   numeric |-> task.numeric]

TaskOk(task) == task.expected # None /\ bound(task.numeric, task.expected) # None

\* TaskDeclarations: labels, sources and meanings are unique, a group has one split.
Declared(tasks) ==
    /\ \A n \in DOMAIN tasks : TaskOk(tasks[n])
    /\ \A m, n \in DOMAIN tasks :
           /\ m # n => /\ tasks[m].id # tasks[n].id
                       /\ tasks[m].source # tasks[n].source
           /\ tasks[m].group = tasks[n].group => tasks[m].split = tasks[n].split

Rewardable(task) == /\ task.split = "Train" /\ task.training /\ task.reviewed
                    /\ task.authoritative

ArtifactOk(artifact) ==
    /\ artifact.tasks # <<>> /\ Declared(artifact.tasks)
    /\ \A n \in DOMAIN artifact.tasks : Rewardable(artifact.tasks[n])
    /\ artifact.id = artifact.tasks

Accepted(artifact) == IF ArtifactOk(artifact) THEN artifact ELSE None

IsTrain(task) == task.split = "Train"

from_documents(docs) ==
    LET tasks == SelectSeq(FlattenSeq(docs), IsTrain) IN
    IF /\ \A d \in DOMAIN docs : docs[d] # <<>>
       /\ Declared(FlattenSeq(docs))
    THEN Accepted([tasks |-> tasks, id |-> tasks]) ELSE None

--------------------------------------------------------------------------
(* Completions.                                                            *)

PolicyOk(p) ==
    /\ p.vocab > 0 /\ p.eos < p.vocab
    /\ \A n \in DOMAIN p.controls : p.controls[n].id < p.vocab
    /\ \A m, n \in DOMAIN p.controls :
           m < n => /\ p.controls[m].id < p.controls[n].id
                    /\ p.controls[m].literal # p.controls[n].literal
    /\ \E n \in DOMAIN p.controls : p.controls[n].id = p.eos

Controls(p) == {p.controls[n].id : n \in DOMAIN p.controls}
Literals(p) == {p.controls[n].literal : n \in DOMAIN p.controls}

\* A control id is only the last one, and only the end of the sequence.
CompletionOk(p, completion) ==
    /\ PolicyOk(p)
    /\ \A n \in DOMAIN completion.ids :
           /\ completion.ids[n] < p.vocab
           /\ completion.ids[n] \in Controls(p) =>
                  completion.ids[n] = p.eos /\ n = Len(completion.ids)
    /\ completion.literals \cap Literals(p) = {}

completion_digest(p, completion) == <<p, completion>>

\* Blank lines left out: the whole text, or what follows the only marker when it
\* opens the last line.
extract(numeric, completion) ==
    LET lines == completion.lines IN
    IF ~ numeric.marker THEN IF Len(lines) = 1 /\ Head(lines).marks = "None"
                             THEN Head(lines).value ELSE None
    ELSE IF /\ Cardinality({n \in DOMAIN lines : lines[n].marks # "None"}) = 1
            /\ lines # <<>> /\ Last(lines).marks = "Opens"
         THEN Last(lines).value ELSE None

evaluate_numeric_answer(task, completion) ==
    LET actual == extract(task.numeric, completion) IN
    IF actual = None THEN "Unknown"
    ELSE IF Magnitude(actual - task.expected) <= bound(task.numeric, task.expected)
         THEN "Pass" ELSE "Fail"

termination(p, completion) ==
    IF completion.ids # <<>> /\ Last(completion.ids) = p.eos THEN "ObservedEos" ELSE "Unknown"

--------------------------------------------------------------------------
(* A batch.                                                                *)

TaskOf(artifact, id) == {n \in DOMAIN artifact.tasks : artifact.tasks[n].id = id}

\* Mutated: an item may stand anywhere in its batch.
ItemAnywhereOk(batch, n) ==
    LET b == batch.items[n].binding IN
    /\ \E t \in TaskOf(batch.artifact, b.task) :
           b.meaning = Identity(batch.artifact.tasks[t])
    /\ b.artifact = batch.artifact.id
    /\ b.attempt = batch.items[1].binding.attempt
    /\ CompletionOk(batch.policy, batch.items[n].completion)
    /\ b.completion = completion_digest(batch.policy, batch.items[n].completion)
ItemOk(batch, n) ==
    LET b == batch.items[n].binding IN
    /\ \E t \in TaskOf(batch.artifact, b.task) :
           b.meaning = Identity(batch.artifact.tasks[t])
    /\ b.artifact = batch.artifact.id
    /\ b.attempt = batch.items[1].binding.attempt /\ b.position = n - 1
    /\ CompletionOk(batch.policy, batch.items[n].completion)
    /\ b.completion = completion_digest(batch.policy, batch.items[n].completion)

validate(batch) == /\ batch.items # <<>> /\ ArtifactOk(batch.artifact)
                   /\ PolicyOk(batch.policy)
                   /\ \A n \in DOMAIN batch.items : ItemOk(batch, n)

Result(batch, item) ==
    LET t == CHOOSE n \in TaskOf(batch.artifact, item.binding.task) : TRUE
        o == evaluate_numeric_answer(batch.artifact.tasks[t], item.completion)
    IN [binding |-> item.binding, outcome |-> o,
        reward |-> CASE o = "Pass" -> 1 [] o = "Fail" -> 0 [] o = "Unknown" -> None,
        termination |-> termination(batch.policy, item.completion)]

\* A batch that is answered has a result at least.
Refused == <<>>

evaluate(batch) ==
    IF validate(batch) THEN [n \in DOMAIN batch.items |-> Result(batch, batch.items[n])]
    ELSE Refused

--------------------------------------------------------------------------
(* The trainer.                                                            *)

\* NumericRewardBinding: what the trainer says of the n-th completion of a batch.
Binding(attempt, n) ==
    LET r == rollouts[attempt][n] IN
    [artifact |-> exports[1].id, task |-> r.task.id,
     meaning |-> Identity(r.task), attempt |-> attempt, position |-> n - 1,
     completion |-> completion_digest(policy, r.completion)]
\* NumericRewardCallback._item and __call__.
Item(attempt, n) == [binding |-> Binding(attempt, n), completion |-> rollouts[attempt][n].completion]

Batch(attempt) == [artifact |-> exports[1], policy |-> policy,
                   items |-> [n \in DOMAIN rollouts[attempt] |-> Item(attempt, n)]]

\* What may have become of a batch: a later export, an edited artifact or policy,
\* items shuffled, lost, repeated, mixed with another batch's, or changed.
Slips(attempt) ==
    LET b == Batch(attempt) IN
    {b} \cup {[b EXCEPT !.artifact = e] : e \in {exports[2]} \ {None}}
        \cup {[b EXCEPT !.artifact.tasks[n].expected = @ + 1] : n \in DOMAIN b.artifact.tasks}
        \cup {[b EXCEPT !.policy = p] : p \in Policies}
        \cup {[b EXCEPT !.items = Reverse(@)], [b EXCEPT !.items = Tail(@)],
              [b EXCEPT !.items = Front(@)], [b EXCEPT !.items = Append(@, Head(@))]}
        \cup {[b EXCEPT !.items[n] = Item(a, m)] :
                 n \in DOMAIN b.items, a \in Attempts, m \in {1}}
        \cup {[b EXCEPT !.items[n].completion = c] : n \in DOMAIN b.items, c \in Completions}
        \cup {[b EXCEPT !.items[n].binding.task = t.id] :
                 n \in DOMAIN b.items, t \in Range(b.artifact.tasks)}

Init == /\ documents \in [{1, 2} -> Corpora] /\ exports = <<None, None>>
        /\ policy \in Policies
        /\ rollouts = [a \in Attempts |-> <<>>] /\ request = None /\ report = None

\* commands/reward.rs export: an artifact of the documents, or nothing.
Export(n) ==
    /\ exports[n] = None /\ request = None
    /\ exports' = [exports EXCEPT ![n] = from_documents(documents[n])]
    /\ exports' # exports
    /\ UNCHANGED <<documents, policy, rollouts, request, report>>

Sample(attempt, n, c) ==
    /\ exports[1] # None /\ request = None /\ Len(rollouts[attempt]) < MaxItems[attempt]
    /\ n \in DOMAIN exports[1].tasks
    /\ rollouts' = [rollouts EXCEPT ![attempt] =
                        Append(@, [task |-> exports[1].tasks[n], completion |-> c])]
    /\ UNCHANGED <<documents, exports, policy, request, report>>

Request(attempt) ==
    /\ request = None /\ \A a \in Attempts : rollouts[a] # <<>>
    /\ request' \in Slips(attempt)
    /\ UNCHANGED <<documents, exports, policy, rollouts, report>>

Evaluate == /\ request # None /\ report = None
            /\ report' = evaluate(request)
            /\ UNCHANGED <<documents, exports, policy, rollouts, request>>

Next == \/ \E n \in {1, 2} : Export(n)
        \/ \E a \in Attempts, n \in 1 .. 2, c \in Completions : Sample(a, n, c)
        \/ \E a \in Attempts : Request(a)
        \/ Evaluate

Spec == Init /\ [][Next]_vars

--------------------------------------------------------------------------
\* A batch that is answered is rewarded for what was sampled: the n-th result is
\* for the n-th completion of that run's batch, judged by the answer the reviewed
\* documents give to the task it was sampled for, and its end of sequence is the
\* sampler's.  Anything shuffled, mixed, relabelled, edited or from another export
\* costs the batch all its rewards, and only a missing tail goes unnoticed
\* (NumericRewardBatch::validate, evaluate_numeric_reward_batch).
EveryRewardIsForItsCompletion ==
    report \notin {None, Refused} =>
        \A n \in DOMAIN report :
            LET b == report[n].binding
                r == rollouts[b.attempt][n]
            IN /\ b.attempt = report[1].binding.attempt /\ n \in DOMAIN rollouts[b.attempt]
               /\ b.task = r.task.id /\ r.task \in Range(FlattenSeq(documents[1]))
               /\ report[n].outcome = evaluate_numeric_answer(r.task, r.completion)
               /\ report[n].termination = termination(policy, r.completion)

\* No corpus a trainer is rewarded on shares a task, a source or a group with the
\* tasks held out in the documents it came from (NumericRewardArtifact::from_documents).
HeldOutIsNeverRewarded ==
    \A n \in {1, 2} : exports[n] # None =>
        \A t \in Range(exports[n].tasks), h \in Range(FlattenSeq(documents[n])) :
            h.split # "Train" => t.group # h.group /\ t.source # h.source /\ t.id # h.id
=============================================================================

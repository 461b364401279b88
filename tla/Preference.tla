----------------------------- MODULE Preference -----------------------------
(***************************************************************************)
(* Preference pairs (gw-engine preference.rs, gw-storage preference.rs,    *)
(* gw-format preference.rs): an assessment freezes what it saw of two      *)
(* records, the records go on being graded, rewritten and selected, and a  *)
(* pair is prepared only from records that still are what was assessed.    *)
(***************************************************************************)
EXTENDS Integers, FiniteSets, Sequences

CONSTANTS None,       \* no value
          Records,    \* the records
          Initial,    \* what a record may start as
          Bodies,     \* prompts, answers and reasonings a record may be given
          Grades,     \* judgings a record may be given
          MaxChanges, \* bound: changes to the records
          Policies    \* [cot, margin, cot_required] of an assessment

\* What is assumed of the constants: records are made of the bodies and grades, scores are
\* numbers, and a margin is not negative (preference.rs:69).
PreferenceConstants ==
    /\ Initial \subseteq [body : Bodies, hashed : Bodies \cup {None}, grade : Grades,
                          outcome : {"pass", "fail", "unknown"},
                          state : {"judged", "admitted"}]
    /\ \A g \in Grades : g.score \in Int
    /\ \A p \in Policies : p.margin \in Nat

VARIABLES records,  \* what each record holds
          assessed, \* the assessment a caller holds
          prepared, \* history: the pairs prepared from what the records now hold
          changes
vars == <<records, assessed, prepared, changes>>

Outcomes == {"pass", "fail", "unknown"}
\* A body is [prompt, answer, reasoning, details, tools]: details is the reasoning spelt by
\* its parts, None where they are not all plain ordered text.
\* A record is [body, hashed, grade, outcome, state]: hashed is the body its stored hashes
\* are of, None where they are empty.

--------------------------------------------------------------------------
(* gw-format: the arrays a trainer gets.                                   *)

supported(b) == /\ ~ b.tools /\ b.answer # ""
                /\ b.details # "" => b.reasoning # None /\ b.details = b.reasoning
\* project: one message under the reasoning policy.
project(b, cot) == [answer |-> b.answer,
                    reasoning |-> IF cot = "stripped" \/ b.reasoning = "" THEN None ELSE b.reasoning]
project_preference_messages(b, c, cot) ==
    /\ cot # "masked" /\ supported(b) /\ supported(c)
    /\ b.prompt = c.prompt /\ project(b, cot) # project(c, cot)

--------------------------------------------------------------------------
(* gw-storage: the evidence.                                               *)

\* capture_preference_source: None where a stored hash is of something else.
capture(r) == IF r.hashed \notin {None, r.body} THEN None
              ELSE [body |-> r.body, grade |-> r.grade, outcome |-> r.outcome, state |-> r.state]
\* is_selected_admitted.
is_selected_admitted(r) == r.grade.verdict = "admit" /\ r.state \in {"admitted", "formatted", "exported"}

--------------------------------------------------------------------------
(* gw-engine: the preparation.                                             *)

decisive(r) == /\ r.outcome # "unknown" /\ r.grade.verdict \in {"admit", "reject"}
               /\ r.grade.automatic /\ r.grade.decided
ahead(c, r, margin) == c.grade.score - r.grade.score > margin
\* Mutated: the evidence is compared by the hashes of its text.
same_text(fresh, given) == fresh.body = given.body
\* The capture is what was assessed, in every part.
same(fresh, given) == fresh = given
\* prepare_preference_pair.
preparable(a) ==
    LET c == records[a.chosen] r == records[a.rejected]
    IN /\ project_preference_messages(c.body, r.body, a.policy.cot)
       /\ capture(c) # None /\ capture(r) # None
       /\ same(capture(c), a.was_chosen) /\ same(capture(r), a.was_rejected)
       /\ a.chosen # a.rejected
       /\ decisive(c) /\ decisive(r)
       /\ is_selected_admitted(c) /\ c.outcome # "fail"
       /\ ahead(c, r, a.policy.margin)

Init == /\ records \in [Records -> Initial]
        /\ assessed = None /\ prepared = {} /\ changes = 0

\* A caller captures both sides of a pair it would like.
Assess(c, r, policy) ==
    /\ capture(records[c]) # None /\ capture(records[r]) # None
    /\ assessed' = [chosen |-> c, rejected |-> r, policy |-> policy,
                    was_chosen |-> capture(records[c]), was_rejected |-> capture(records[r])]
    /\ UNCHANGED <<records, prepared, changes>>
Prepare ==
    /\ assessed # None /\ preparable(assessed)
    /\ prepared' = prepared \cup {assessed} /\ assessed' = None
    /\ UNCHANGED <<records, changes>>

Change(id, r) == /\ changes < MaxChanges /\ changes' = changes + 1
                 /\ r # records[id] /\ records' = [records EXCEPT ![id] = r]
                 /\ prepared' = {} /\ UNCHANGED assessed
\* The record is graded again, verified again, moved, or rewritten: by a command, which
\* stores the hashes anew, or in a file, which leaves the old ones.
Regrade(id) == \E g \in Grades : Change(id, [records[id] EXCEPT !.grade = g])
Reverify(id) == \E o \in Outcomes : Change(id, [records[id] EXCEPT !.outcome = o])
Move(id) == \E s \in {"judged", "admitted"} : Change(id, [records[id] EXCEPT !.state = s])
Rewrite(id) == \E b \in Bodies, rehash \in BOOLEAN :
    Change(id, [records[id] EXCEPT !.body = b, !.hashed = IF rehash THEN b ELSE @])

Next == \/ \E c, r \in Records, p \in Policies : Assess(c, r, p)
        \/ Prepare
        \/ \E id \in Records : Regrade(id) \/ Reverify(id) \/ Move(id) \/ Rewrite(id)
Spec == Init /\ [][Next]_vars

--------------------------------------------------------------------------
(* Properties.                                                             *)

\* No pair is taught both ways: two pairs made from the same state of the records never
\* prefer each of two answers to the other, whatever policies they were assessed under
\* (preference.rs:116).
NeverBothWays ==
    \A p, q \in prepared :
        ~ (p.chosen = q.rejected /\ p.rejected = q.chosen)

\* A pair says what its records said when it was made: the grades, the verification and the
\* selection of both, however the records moved between the assessment and the preparation
\* (preference.rs:78-88).
PairsAreCurrent ==
    \A p \in prepared :
        LET c == records[p.chosen] r == records[p.rejected]
        IN /\ p.was_chosen = [body |-> c.body, grade |-> c.grade, outcome |-> c.outcome, state |-> c.state]
           /\ p.was_rejected = [body |-> r.body, grade |-> r.grade, outcome |-> r.outcome, state |-> r.state]

\* A pair has something to teach: what the trainer is given of the two sides has one prompt
\* and differs under the policy of the pair (gw-format preference.rs:115).
PairsTeach ==
    \A p \in prepared :
        LET c == records[p.chosen].body r == records[p.rejected].body
            said(b) == IF p.policy.cot = "stripped" THEN <<b.answer>>
                       ELSE IF b.reasoning \in {None, ""} THEN <<b.answer>>
                       ELSE <<b.answer, b.reasoning>>
        IN c.prompt = r.prompt /\ said(c) # said(r)
=============================================================================

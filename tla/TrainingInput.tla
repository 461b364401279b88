--------------------------- MODULE TrainingInput ---------------------------
(***************************************************************************)
(* From records to what a trainer reads: the export artifact and its       *)
(* identity (gw-storage artifact.rs), and the prepared input a trainer's   *)
(* adapter makes of it (adapters/trl build.py), which is taken back only   *)
(* when it accounts for every turn of its source (gw-schema                *)
(* prepared_sft_validation.rs, prepared_sft_frame.rs, gw-storage           *)
(* prepared_sft.rs).  A digest is what it is of; what one example holds is *)
(* SftExample.                                                             *)
(***************************************************************************)
EXTENDS Integers, Sequences, FiniteSets, SequencesExt, FiniteSetsExt

CONSTANTS None,       \* no value
          Populations, \* sets of records to export from: [id, run, admitted, turns, split, body]
          Scopes,     \* a run, or None for an area
          Bodies      \* bodies a damaged or outdated row may have

VARIABLES records,  \* the population
          artifact, \* the export file: scope, manifest, rows, identity
          payload,  \* the prepared input: [read, source, loss, examples, rejections, counts, ..]
          stage     \* "export", "prepare", "sealed", "altered", "refused", "verified"
vars == <<records, artifact, payload, stage>>

Losses == {"final_turn_only", "all_assistant"}

--------------------------------------------------------------------------
(* The artifact.                                                           *)

\* projected_hash: every column of the row.
projected_hash(row) == row
\* artifact_identity: version, scope, manifest and the rows in order.
artifact_identity(a) == <<a.scope, a.n_records, a.n_admitted, [i \in DOMAIN a.rows |-> projected_hash(a.rows[i])]>>

\* project: an admitted record's row.
project(r) == [id |-> r.id, turns |-> r.turns, split |-> r.split, body |-> r.body]
\* ExportPlan::prepare: the selected records in the order of their ids, or None.
prepare(rs, scope) ==
    IF scope # None /\ \E r \in rs : r.run # scope THEN None
    ELSE LET rows == SetToSortSeq({project(r) : r \in {q \in rs : q.admitted}},
                                  LAMBDA a, b : a.id < b.id)
             a == [scope |-> scope, n_records |-> Cardinality(rs), n_admitted |-> Len(rows),
                   rows |-> rows]
         IN a @@ [identity |-> artifact_identity(a)]
\* validate_rows.
validate_rows(a) ==
    /\ a.n_admitted = Len(a.rows) /\ a.n_records >= a.n_admitted
    /\ \A i \in 1..(Len(a.rows) - 1) : a.rows[i].id < a.rows[i + 1].id
    /\ a.identity = artifact_identity(a)

--------------------------------------------------------------------------
(* The prepared input: examples [record, target, row], rejections          *)
(* [record, target or None] and the manifest's counts.                     *)

Wanted(row, loss) ==
    LET turns == {i \in DOMAIN row.turns : row.turns[i] = "assistant"}
    IN IF loss = "final_turn_only" /\ turns # {} THEN {Max(turns)} ELSE turns
Targets(items, id) == {items[i].target : i \in {k \in DOMAIN items : items[k].record = id}} \ {None}
Used(items) == {items[i].record : i \in DOMAIN items}
WholeRows(rejections) == {rejections[i].record : i \in {k \in DOMAIN rejections : rejections[k].target = None}}

\* What the manifest should count.
Counts(p) ==
    LET whole == Cardinality({i \in DOMAIN p.rejections : p.rejections[i].target = None})
        accepted == Cardinality(Used(p.examples))
    IN [examples |-> Len(p.examples), accepted_records |-> accepted,
        idle_records |-> p.source_records - accepted,
        rejected |-> Len(p.rejections), rejected_records |-> whole,
        rejected_targets |-> Len(p.rejections) - whole,
        candidates |-> Len(p.examples) + Len(p.rejections) - whole]
Pairs(items) == [i \in DOMAIN items |-> <<items[i].record, items[i].target>>]
\* PreparedSftPayload::validate.
validate_payload(p) ==
    /\ IsInjective(Pairs(p.examples)) /\ IsInjective(Pairs(p.rejections))
    /\ ToSet(Pairs(p.examples)) \cap ToSet(Pairs(p.rejections)) = {}
    /\ p.source_records >= Cardinality(Used(p.examples)) /\ p.counts = Counts(p)
\* validate_source: the example was made from this very row, which is not held out.
validate_source(e, row) == e.row = row /\ row.split # "test"
\* Mutated: nothing is taught that should not be; what is left out is not missed.
partition_within(observed, row, loss) == observed \subseteq Wanted(row, loss)
\* The targets of a row, all of them and no other.
partition(observed, row, loss) == Wanted(row, loss) # {} /\ observed = Wanted(row, loss)
\* validate_bindings.
validate_bindings(p, rows) ==
    /\ Used(p.examples) \cup Used(p.rejections) \subseteq {row.id : row \in ToSet(rows)}
    /\ \A row \in ToSet(rows) :
         LET observed == Targets(p.examples, row.id) \cup Targets(p.rejections, row.id) IN
         /\ \A e \in ToSet(p.examples) : e.record = row.id => validate_source(e, row)
         /\ IF row.id \in WholeRows(p.rejections) THEN observed = {}
            ELSE partition(observed, row, p.loss)
\* verify_prepared_sft_snapshot: the frame holds the input and the artifact it was made from.
verify(p, a) ==
    /\ validate_payload(p) /\ validate_rows(a)
    /\ p.source = a.identity /\ p.source_records = Len(a.rows)
    /\ validate_bindings(p, a.rows)

--------------------------------------------------------------------------
(* The steps.                                                              *)

Init == records \in Populations /\ artifact = None /\ payload = None /\ stage = "export"

Export(scope) ==
    /\ stage = "export"
    /\ artifact' = prepare(records, scope)
    /\ stage' = IF artifact' = None THEN "refused" ELSE "prepare"
    /\ UNCHANGED <<records, payload>>
\* The artifact on its way to the adapter, or to the verifier after it: a row is lost, or what it
\* says is damaged.
Damage ==
    /\ (stage = "prepare" /\ payload = None) \/ stage = "sealed"
    /\ artifact.identity = artifact_identity(artifact)
    /\ \E i \in DOMAIN artifact.rows :
         \/ artifact' = [artifact EXCEPT !.rows = RemoveAt(@, i)]
         \/ \E b \in Bodies : artifact' = [artifact EXCEPT !.rows[i].body = b]
    /\ UNCHANGED <<records, payload, stage>>
\* read_snapshot: build only takes a snapshot the Rust verifier accepted, whose rows are those
\* its manifest counts.
Begin(loss) ==
    /\ stage = "prepare" /\ payload = None
    /\ IF validate_rows(artifact)
       THEN /\ payload' = [read |-> 0, source |-> artifact.identity, source_records |-> Len(artifact.rows),
                           loss |-> loss, examples |-> <<>>, rejections |-> <<>>, counts |-> None]
            /\ UNCHANGED stage
       ELSE stage' = "refused" /\ UNCHANGED payload
    /\ UNCHANGED <<records, artifact>>
\* Turns of user and assistant, the last the assistant's, after an optional system text
\* (project_messages).
projectable(row) ==
    LET first == IF row.turns # <<>> /\ row.turns[1] = "system" THEN 2 ELSE 1 IN
    /\ Len(row.turns) >= first /\ Last(row.turns) = "assistant"
    /\ \A i \in first..Len(row.turns) :
         row.turns[i] = IF (i - first) % 2 = 0 THEN "user" ELSE "assistant"
InOrder(targets, Item(_)) == LET s == SetToSortSeq(targets, <) IN [i \in DOMAIN s |-> Item(s[i])]
\* build, one row: it is rejected as a whole when it is held out or cannot be projected, which
\* may also be for its text; each of its wanted turns becomes an example or a rejection.
BuildRow ==
    /\ stage = "prepare" /\ payload # None /\ payload.read < Len(artifact.rows)
    /\ LET row == artifact.rows[payload.read + 1]
           Example(target) == [record |-> row.id, target |-> target, row |-> row]
           Rejection(target) == [record |-> row.id, target |-> target]
           wanted == Wanted(row, payload.loss)
           read == [payload EXCEPT !.read = @ + 1]
       IN \/ payload' = [read EXCEPT !.rejections = Append(@, Rejection(None))]
          \/ /\ row.split # "test" /\ projectable(row)
             /\ \E rejected \in SUBSET wanted :
                  payload' = [read EXCEPT !.examples = @ \o InOrder(wanted \ rejected, Example),
                                          !.rejections = @ \o InOrder(rejected, Rejection)]
    /\ UNCHANGED <<records, artifact, stage>>
\* build, the manifest; and the frame that is written of it.
Seal ==
    /\ stage = "prepare" /\ payload # None /\ payload.read = Len(artifact.rows)
    /\ payload' = [payload EXCEPT !.counts = Counts(payload)]
    /\ stage' = "sealed"
    /\ UNCHANGED <<records, artifact>>
\* What the input may be by the time it is verified: an item lost, repeated, or of another turn or
\* text, or a refused item taught; its counts made to fit, or one of them wrong.
Altered(p) ==
    {p}
    \cup {[p EXCEPT !.examples = RemoveAt(@, i)] : i \in DOMAIN p.examples}
    \cup {[p EXCEPT !.rejections = RemoveAt(@, i)] : i \in DOMAIN p.rejections}
    \cup {[p EXCEPT !.examples = Append(@, e)] : e \in ToSet(p.examples)}
    \cup {[p EXCEPT !.rejections = Append(@, [record |-> e.record, target |-> e.target])] : e \in ToSet(p.examples)}
    \cup UNION {{[p EXCEPT !.examples[i].row.body = b] : b \in Bodies} : i \in DOMAIN p.examples}
    \cup {[p EXCEPT !.examples[i].target = n] : i \in DOMAIN p.examples, n \in {1, 2}}
    \cup UNION {UNION {{[p EXCEPT !.rejections = RemoveAt(@, i), !.examples = Append(@,
                            [record |-> row.id, target |-> n, row |-> row])] : n \in DOMAIN row.turns} :
                    row \in {r \in ToSet(artifact.rows) : r.id = p.rejections[i].record}} :
              i \in DOMAIN p.rejections}
Alter ==
    /\ stage = "sealed" /\ artifact.identity = artifact_identity(artifact)
    /\ \E p \in Altered(payload), wrong \in DOMAIN payload.counts \cup {None} :
         payload' = [p EXCEPT !.counts =
                        [f \in DOMAIN Counts(p) |-> Counts(p)[f] + IF f = wrong THEN 1 ELSE 0]]
    /\ stage' = "altered"
    /\ UNCHANGED <<records, artifact>>
Verify ==
    /\ stage \in {"sealed", "altered"}
    /\ stage' = IF verify(payload, artifact) THEN "verified" ELSE "refused"
    /\ UNCHANGED <<records, artifact, payload>>

Next == \/ \E s \in Scopes : Export(s)
        \/ \E l \in Losses : Begin(l)
        \/ Damage \/ BuildRow \/ Seal \/ Alter \/ Verify
Spec == Init /\ [][Next]_vars

--------------------------------------------------------------------------
(* Properties.                                                             *)

\* A verified input comes from the export as it was planned: its source has exactly the
\* admitted records of the population, each with what its record says, however the file
\* travelled (artifact.rs:354, prepared_sft.rs:61).
SourceIsTheSelection ==
    stage = "verified" =>
        /\ ToSet(artifact.rows) = {project(r) : r \in {q \in records : q.admitted}}
        /\ \A i \in DOMAIN payload.examples : \E r \in records :
             r.admitted /\ payload.examples[i].row = project(r) /\ r.split # "test"

\* A verified input accounts for every turn: each row of the source is refused as a whole or
\* has each of its wanted turns taught or refused, exactly once, and the counts in its
\* manifest are those of its source (prepared_sft.rs:130, prepared_sft_validation.rs:44).
EveryTurnIsAccounted ==
    stage = "verified" =>
        LET p == payload
            Times(items, id, t) == Cardinality({i \in DOMAIN items : items[i].record = id /\ items[i].target = t})
            taught(id, t) == Times(p.examples, id, t) refused(id, t) == Times(p.rejections, id, t)
            open == {row \in ToSet(artifact.rows) : refused(row.id, None) = 0}
        IN /\ \A row \in ToSet(artifact.rows) :
                LET due == IF row \in open THEN Wanted(row, p.loss) ELSE {} IN
                /\ refused(row.id, None) <= 1
                /\ \A t \in DOMAIN row.turns :
                     taught(row.id, t) + refused(row.id, t) = IF t \in due THEN 1 ELSE 0
           /\ p.counts.candidates =
                FoldSet(LAMBDA row, n : n + Cardinality(Wanted(row, p.loss)), 0, open)
           /\ p.counts.idle_records = Cardinality({row \in ToSet(artifact.rows) :
                \A t \in DOMAIN row.turns : taught(row.id, t) = 0})

\* The adapter and the verifier agree: an input as the adapter built it, next to the artifact it
\* was built from, is taken back, whichever rows and turns the adapter had to reject
\* (build.py:77-136, prepared_sft.rs:61).
WhatIsBuiltIsVerified ==
    stage = "sealed" /\ artifact.identity = artifact_identity(artifact) => verify(payload, artifact)
=============================================================================

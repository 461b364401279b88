----------------------------- MODULE References -----------------------------
(***************************************************************************)
(* Reviewed references: an operator registers an exact catalogue           *)
(* (gw-schema/src/reference_catalogue.rs, gw-storage/src/                  *)
(* reference_registration.rs), an import runs every member afresh and      *)
(* commits the whole batch (gw-cli/src/coding/reference.rs,                *)
(* reference_import.rs, reference_records.rs), and a held-out split of it  *)
(* becomes a population to compare models on (coding_population.rs).       *)
(* Several processes import at once; each may be cancelled or die.  Hashes *)
(* are injective, so a capture stands for its catalogue, registration and  *)
(* batch identities.                                                       *)
(***************************************************************************)
EXTENDS Naturals, Sequences

CONSTANTS Size,       \* members of a catalogue (112)
          Families,   \* task groups
          Components, \* declared components
          Importers,  \* import processes
          None

Members == 1 .. Size
Roles == {"train", "test"}
Evidence == Importers \X Nat
RequiredUse(role) == IF role = "train" THEN "training" ELSE "evaluation"

\* What is assumed of the constants: `None` is no process, no rows and no state.
ReferenceConstants ==
    /\ Size \in Nat
    /\ None \notin Importers \cup Evidence \cup {"admitted", "rejected", "exported"}
    /\ None \notin Seq(Evidence)

\* What a catalogue file and its reviews declare of one member.
Declaration == [family : Families, component : Components, role : Roles,
                use : {"training", "evaluation"}]

\* ReferenceCapture::validate, the fixed counts left out.
validate(c) ==
    /\ \A m \in Members : c[m].use = RequiredUse(c[m].role)
    /\ \A m, n \in Members :
           c[m].family = c[n].family \/ c[m].component = c[n].component
               => c[m].role = c[n].role

VARIABLES capture,    \* the catalogue, its modules and reviews on disk
          registered, \* a row of reference_registrations for it
          batch,      \* None, or the committed rows: member -> native result
          life,       \* the lifecycle state of each member's record, or None
          writer,     \* the process inside BEGIN IMMEDIATE, or None
          tx,         \* the rows that process has inserted
          import,     \* per process: where it is and what it observed
          committer,  \* history: who committed the batch, in its which attempt
          tries       \* attempts of each process so far

vars == <<capture, registered, batch, life, writer, tx, import, committer, tries>>
db == <<registered, batch, life, committer>>

Train == {m \in Members : capture[m].role = "train"}
Idle == [pc |-> "idle", fresh |-> FALSE, seen |-> <<>>, cancelled |-> FALSE,
         answer |-> None]
At(p, place) == import[p].pc = place
Goto(p, place) == import' = [import EXCEPT ![p].pc = place]
Answer(p, what) == import' = [import EXCEPT ![p].pc = "done", ![p].answer = what]
Release(p) == writer' = None /\ tx' = <<>>

\* register_reference_catalogue: an invalid capture is an error.
Register ==
    /\ ~ registered /\ validate(capture) /\ writer = None
    /\ registered' = TRUE
    /\ UNCHANGED <<capture, batch, life, writer, tx, import, committer, tries>>

--------------------------------------------------------------------------
(* import: look for the batch, observe every member, commit.               *)

\* The command: exact registration, then (unless --fresh-validation) what is there.
Lookup(p, fresh) ==
    /\ At(p, "idle") /\ tries[p] < 2
    /\ tries' = [tries EXCEPT ![p] = @ + 1]
    /\ import' = [import EXCEPT ![p] =
           IF ~ registered
             THEN [Idle EXCEPT !.pc = "done", !.answer = "error"]
           ELSE IF ~ fresh /\ batch # None
             THEN [Idle EXCEPT !.pc = "done", !.answer = "already"]
           ELSE [Idle EXCEPT !.pc = "observe", !.fresh = fresh]]
    /\ UNCHANGED <<capture, writer, tx>> /\ UNCHANGED db

\* One native run after another; only a pass may join the batch.  Its result
\* identity names the run it comes from.
Observe(p) ==
    /\ At(p, "observe")
    /\ \/ import[p].cancelled /\ Answer(p, "error")
       \/ /\ ~ import[p].cancelled /\ Len(import[p].seen) < Size
          /\ \/ import' = [import EXCEPT ![p].seen = Append(@, <<p, tries[p]>>)]
             \/ Answer(p, "error")
       \/ /\ ~ import[p].cancelled /\ Len(import[p].seen) = Size
          /\ Goto(p, "begin")
    /\ UNCHANGED <<capture, writer, tx, tries>> /\ UNCHANGED db

\* Waiting for the writer lock, cancellation is looked at first.
BeginCommit(p) ==
    /\ At(p, "begin")
    /\ \/ import[p].cancelled /\ Answer(p, "cancelled") /\ UNCHANGED <<writer, tx>>
       \/ /\ ~ import[p].cancelled /\ writer = None
          /\ writer' = p /\ tx' = <<>> /\ Goto(p, "admission")
       \/ /\ ~ import[p].cancelled /\ writer # None    \* busy timeout
          /\ Answer(p, "error") /\ UNCHANGED <<writer, tx>>
    /\ UNCHANGED <<capture, tries>> /\ UNCHANGED db

\* The transaction: current() first, then one member's rows at a time.
Admit(p) ==
    /\ At(p, "admission") /\ ~ import[p].cancelled
    /\ IF batch # None THEN Goto(p, "current") /\ UNCHANGED tx
       ELSE IF Len(tx) < Size
       THEN tx' = Append(tx, import[p].seen[Len(tx) + 1]) /\ UNCHANGED import
       ELSE Goto(p, "prepared") /\ UNCHANGED tx
    /\ UNCHANGED <<capture, writer, tries>> /\ UNCHANGED db

Write(p) ==
    /\ batch' = tx /\ committer' = <<p, tries[p]>>
    /\ life' = [m \in Members |-> IF m \in Train /\ m \in DOMAIN tx
                                  THEN "admitted" ELSE None]
    /\ Release(p)

\* Mutated: the transaction is dropped into a commit.
RollbackCommitting(p) ==
    /\ At(p, "admission") /\ import[p].cancelled /\ Answer(p, "cancelled")
    /\ Write(p) /\ UNCHANGED <<capture, registered, tries>>
\* Mutated: cancellation returns and leaves the transaction open.
RollbackNothing(p) ==
    /\ At(p, "admission") /\ import[p].cancelled /\ Answer(p, "cancelled")
    /\ UNCHANGED <<capture, tries, writer, tx>> /\ UNCHANGED db
\* Cancellation wins until the rows are ready: everything is rolled back.
Rollback(p) ==
    /\ At(p, "admission") /\ import[p].cancelled /\ Answer(p, "cancelled")
    /\ Release(p) /\ UNCHANGED <<capture, tries>> /\ UNCHANGED db

\* After the decision a cancellation changes nothing; a commit that fails may
\* have taken effect.
Commit(p) ==
    /\ \/ /\ At(p, "current") /\ Release(p)
          /\ Answer(p, "already") /\ UNCHANGED db
       \/ /\ At(p, "prepared") /\ UNCHANGED registered
          /\ \/ Write(p) /\ import' \in {[import EXCEPT ![p].pc = "done", ![p].answer = a]
                                         : a \in {"applied", "error"}}
             \/ Release(p) /\ Answer(p, "error") /\ UNCHANGED <<batch, life, committer>>
    /\ UNCHANGED <<capture, tries>>

\* settle_on_cancel: the signal cancels the token and waits for the task.
Cancel(p) ==
    /\ ~ import[p].cancelled /\ ~ At(p, "idle") /\ ~ At(p, "done")
    /\ import' = [import EXCEPT ![p].cancelled = TRUE]
    /\ UNCHANGED <<capture, writer, tx, tries>> /\ UNCHANGED db

\* The process dies; an open transaction is gone with it.  Or it has answered
\* and the operator runs the command again.
Restart(p) ==
    /\ ~ At(p, "idle") /\ tries[p] < 2
    /\ import' = [import EXCEPT ![p] = Idle]
    /\ IF writer = p THEN Release(p) ELSE UNCHANGED <<writer, tx>>
    /\ UNCHANGED <<capture, tries>> /\ UNCHANGED db

--------------------------------------------------------------------------
(* What others do with a committed batch.                                  *)

\* transition_record and acknowledge_export on a reference: exclusion and
\* publication (formatting is left out), and only of an eligible record.
Advance(m) ==
    /\ life[m] # None /\ batch # None /\ writer = None
    /\ \E to \in {"rejected", "exported"} \ {life[m]} :
           /\ to = "exported" => life[m] = "admitted"
           /\ life' = [life EXCEPT ![m] = to]
    /\ UNCHANGED <<capture, registered, batch, writer, tx, import, committer, tries>>

\* current: the batch is there, every member's rows and every Train record.
Whole == /\ batch # None /\ DOMAIN batch = Members
         /\ \A m \in Members : life[m] # None <=> m \in Train

\* capture_coding_population of the held-out split.
population ==
    IF Whole THEN [members |-> {m \in Members : capture[m].role = "test"},
                   training |-> {<<m, batch[m]>> : m \in Train}]
    ELSE None

Init == /\ capture \in [Members -> Declaration]
        /\ registered = FALSE /\ batch = None /\ committer = None
        /\ life = [m \in Members |-> None]
        /\ writer = None /\ tx = <<>>
        /\ import = [p \in Importers |-> Idle]
        /\ tries = [p \in Importers |-> 0]

Run(p) == Observe(p) \/ BeginCommit(p) \/ Admit(p) \/ Rollback(p) \/ Commit(p)

Next == \/ Register \/ \E m \in Members : Advance(m)
        \/ \E p \in Importers : \/ \E fresh \in BOOLEAN : Lookup(p, fresh)
                                \/ Run(p) \/ Cancel(p) \/ Restart(p)

Spec == Init /\ [][Next]_vars

\* A container run ends (Sandbox.Returns), the lock is waited for with a timeout.
FairSpec == Spec /\ \A p \in Importers : WF_vars(Run(p))

--------------------------------------------------------------------------
\* Type invariant: the rows of a catalogue and the state of each importer.
TypeOK ==
    /\ capture \in [Members -> Declaration] /\ registered \in BOOLEAN
    /\ batch \in Seq(Evidence) \cup {None} /\ committer \in Evidence \cup {None}
    /\ life \in [Members -> {None, "admitted", "rejected", "exported"}]
    /\ writer \in Importers \cup {None} /\ tx \in Seq(Evidence)
    /\ tries \in [Importers -> 0 .. 2]
    /\ import \in [Importers ->
          [pc : {"idle", "observe", "begin", "admission", "current", "prepared", "done"},
           fresh : BOOLEAN, seen : Seq(Evidence), cancelled : BOOLEAN,
           answer : {None, "error", "already", "cancelled", "applied"}]]

\* The database never shows a part of a batch, whoever was cancelled or died in
\* the middle of its rows: all members with their evidence, and a record for
\* each Train member and no other (commit_reference_import).
WholeOrNothing == (batch = None /\ \A m \in Members : life[m] = None) \/ Whole

\* An answer tells what this attempt did: "applied" committed the batch,
\* "already" found it, and a cancelled import added nothing.
ImportAnswers ==
    \A p \in Importers : At(p, "done") =>
        CASE import[p].answer = "applied" -> committer = <<p, tries[p]>>
          [] import[p].answer = "already" -> Whole /\ committer # <<p, tries[p]>>
          [] import[p].answer = "cancelled" -> committer # <<p, tries[p]>>
          [] OTHER -> TRUE

\* The first batch's evidence stays, through racing imports and fresh
\* validations, so a population captured twice is the same population.
EvidenceStep == population # None => population' = population
FirstEvidenceStays == [][EvidenceStep]_vars

\* No family and no component is both trained on and held out, whatever a
\* catalogue declares (validate, make_record, coding_population).
HeldOutIsDisjoint ==
    population # None =>
        \A h \in population.members : \A m \in Members :
            life[m] # None => /\ capture[m].family # capture[h].family
                              /\ capture[m].component # capture[h].component

\* A batch of references is in the database whole or not at all, an importer's answer
\* is what is committed, and nothing held out shares a family with what is trained on
\* (reference_import.rs, catalogue.rs).
ImportIsWhole == TypeOK /\ WholeOrNothing /\ ImportAnswers /\ HeldOutIsDisjoint

\* Every import that was started ends, and gives the writer lock back.
Between(p) == At(p, "idle") \/ At(p, "done")
ImportsEnd == \A p \in Importers : []<>Between(p) /\ []<>(writer # p)
=============================================================================

---------------------------- MODULE Publication ----------------------------
(***************************************************************************)
(* Publication of an export artifact: gw-storage/src/publication.rs and    *)
(* receipts.rs.  A frozen selection is first made durable as a prepared    *)
(* receipt, then staged, verified and renamed over the destination, and    *)
(* only then acknowledged in the same transaction that moves the selected  *)
(* records to Exported.  The file system and the database are two systems: *)
(* a crash or an error may fall between any two of these steps, and other  *)
(* callers may change a selected record meanwhile.                         *)
(*                                                                         *)
(* "Callers must serialize publications to a destination" (publication.rs):*)
(* there is one publisher per destination.  Different destinations publish *)
(* concurrently.                                                           *)
(***************************************************************************)
EXTENDS Naturals, Sequences, FiniteSets

CONSTANTS RecordIds,
          Projections,   \* what a record looks like in an artifact
          Destinations,
          MaxEdits,      \* bound: changes of records by other callers
          MaxFaults,     \* bound: crashes, failures, files disturbed
          Ineligible,    \* the record is missing or not selected
          None

Purposes == {"engine", "standalone"}

\* An artifact's identity is the hash of its rows and options, so the frozen
\* selection itself stands for it.
Artifacts == UNION {[S -> Projections] : S \in SUBSET RecordIds}

ASSUME PublicationAssumption ==
    /\ MaxEdits \in Nat /\ MaxFaults \in Nat
    /\ Ineligible \notin Projections
    /\ None \notin Artifacts

VARIABLES record,     \* the projection of each record now, or Ineligible
          exports,    \* the artifacts of its Exported transitions, in order
          receipts,   \* export_receipts
          file,       \* what is at each destination
          publisher,  \* the publication in progress at each destination
          edits, faults,
          renamed     \* history: what each destination ever showed

vars == <<record, exports, receipts, file, publisher, edits, faults, renamed>>

\* publication_id is a function of the first three fields.
Receipt == [destination : Destinations, artifact : Artifacts,
            purpose : Purposes, acknowledged : BOOLEAN]

File == [artifact : Artifacts, intact : BOOLEAN]

Selected == {r \in RecordIds : record[r] # Ineligible}

\* ExportPlan::prepare_registered on the scanned records.
Plan == [r \in Selected |-> record[r]]

\* selected_records and checked_projection: every member is still eligible and
\* projects to the same row.  Records selected since then do not matter.
Unchanged(a) == \A r \in DOMAIN a : record[r] = a[r]

Same(p, q) == /\ p.destination = q.destination /\ p.artifact = q.artifact
              /\ p.purpose = q.purpose

Pending(d, purpose) == {p \in receipts : /\ p.destination = d
                                         /\ p.purpose = purpose
                                         /\ ~ p.acknowledged}

Stored(p) == {q \in receipts : Same(p, q)}

SetReceipt(p, acknowledged) ==
    receipts' = (receipts \ Stored(p))
                   \cup {[p EXCEPT !.acknowledged = acknowledged]}

-----------------------------------------------------------------------------
Idle == [pc |-> "idle", receipt |-> None]

At(d, label) == publisher[d].pc = label

Become(d, label, receipt) ==
    publisher' = [publisher EXCEPT ![d] = [pc |-> label, receipt |-> receipt]]

Goto(d, label) == publisher' = [publisher EXCEPT ![d].pc = label]

\* The call returns an error.
Return(d) == publisher' = [publisher EXCEPT ![d] = Idle]

NoStorage == UNCHANGED <<record, exports, receipts, edits>>
NoFiles == UNCHANGED <<file, renamed>>

\* publish_export, no pending publication: scan, then plan.
Scan(d, purpose) ==
    /\ At(d, "idle") /\ Pending(d, purpose) = {}
    /\ Become(d, "planned", [destination |-> d, artifact |-> Plan,
                             purpose |-> purpose, acknowledged |-> FALSE])
    /\ NoStorage /\ NoFiles /\ UNCHANGED faults

\* publish_export, one pending publication: restore its plan.  (More than one,
\* or a changed record: an error, and nothing happens.)
Recover(d, purpose) ==
    /\ At(d, "idle")
    /\ \E p \in receipts :
          /\ Pending(d, purpose) = {p} /\ Unchanged(p.artifact)
          /\ Become(d, "inspect", p)
    /\ NoStorage /\ NoFiles /\ UNCHANGED faults

\* resume_export, by publication ID.
ResumeExport(d) ==
    /\ At(d, "idle")
    /\ \E p \in receipts :
          /\ p.destination = d /\ Unchanged(p.artifact)
          /\ Become(d, "inspect", p)
    /\ NoStorage /\ NoFiles /\ UNCHANGED faults

\* Mutated: the intent is not written.
PrepareNothing(d, from, to) ==
    /\ At(d, from)
    /\ \/ Unchanged(publisher[d].receipt.artifact) /\ Goto(d, to)
       \/ ~ Unchanged(publisher[d].receipt.artifact) /\ Return(d)
    /\ UNCHANGED <<receipts, record, exports, edits, faults>> /\ NoFiles

\* prepare_export_receipt: recheck and write the intent, or refuse.
PrepareExportReceipt(d, from, to) ==
    LET p == publisher[d].receipt IN
    /\ At(d, from)
    /\ \/ /\ Unchanged(p.artifact)
          /\ SetReceipt(p, FALSE)
          /\ Goto(d, to)
       \/ /\ ~ Unchanged(p.artifact)
          /\ UNCHANGED receipts
          /\ Return(d)
    /\ UNCHANGED <<record, exports, edits, faults>> /\ NoFiles

Prepare(d) == PrepareExportReceipt(d, "planned", "inspect")

Claims(d) == file[d] # None /\ file[d].artifact = publisher[d].receipt.artifact

\* The head of finish_publication.
Inspect(d) ==
    /\ At(d, "inspect")
    /\ \/ Claims(d) /\ file[d].intact /\ Goto(d, "acknowledge")
       \/ Claims(d) /\ ~ file[d].intact /\ Return(d)
       \/ ~ Claims(d) /\ publisher[d].receipt.acknowledged /\ Goto(d, "prepare again")
       \/ ~ Claims(d) /\ ~ publisher[d].receipt.acknowledged /\ Goto(d, "stage")
    /\ NoStorage /\ NoFiles /\ UNCHANGED faults

\* An acknowledged publication starts over with durable intent.
PrepareAgain(d) == PrepareExportReceipt(d, "prepare again", "stage")

\* publish_staged: the stage is written, synced and read back in full; then one
\* rename.  Until then the destination keeps its old content.
Rename(d) ==
    LET a == publisher[d].receipt.artifact IN
    /\ At(d, "stage")
    /\ file' = [file EXCEPT ![d] = [artifact |-> a, intact |-> TRUE]]
    /\ renamed' = [renamed EXCEPT ![d] = @ \cup {a}]
    /\ Goto(d, "acknowledge")
    /\ NoStorage /\ UNCHANGED faults

Range(s) == {s[i] : i \in DOMAIN s}

\* Mutated: the selected records are not checked again.
AcknowledgeUnchecked(p) ==
    /\ Stored(p) # {}
    /\ \/ /\ \E q \in Stored(p) : q.acknowledged
          /\ UNCHANGED <<receipts, exports>>
       \/ /\ \A q \in Stored(p) : ~ q.acknowledged
          /\ SetReceipt(p, TRUE)
          /\ exports' = IF p.purpose = "standalone" THEN exports
                        ELSE [r \in RecordIds |->
                                IF r \in DOMAIN p.artifact
                                   /\ p.artifact \notin Range(exports[r])
                                THEN Append(exports[r], p.artifact)
                                ELSE exports[r]]

\* The transaction of acknowledge_export, when it commits.
Acknowledge(p) ==
    /\ Stored(p) # {}
    /\ Unchanged(p.artifact)
    /\ \/ /\ \E q \in Stored(p) : q.acknowledged
          /\ UNCHANGED <<receipts, exports>>
       \/ /\ \A q \in Stored(p) : ~ q.acknowledged
          /\ SetReceipt(p, TRUE)
          /\ exports' = IF p.purpose = "standalone" THEN exports
                        ELSE [r \in RecordIds |->
                                IF r \in DOMAIN p.artifact
                                   /\ p.artifact \notin Range(exports[r])
                                THEN Append(exports[r], p.artifact)
                                ELSE exports[r]]

AcknowledgeExport(d) ==
    LET p == publisher[d].receipt IN
    /\ At(d, "acknowledge")
    /\ \/ Acknowledge(p) /\ Goto(d, "done")
       \/ ~ Unchanged(p.artifact) /\ UNCHANGED <<receipts, exports>> /\ Return(d)
    /\ UNCHANGED <<record, edits, faults>> /\ NoFiles

\* The caller takes the result.
Done(d) == At(d, "done") /\ Return(d) /\ NoStorage /\ NoFiles /\ UNCHANGED faults

-----------------------------------------------------------------------------
(* Faults and other callers                                                *)

Fault == faults < MaxFaults /\ faults' = faults + 1

\* A failed write, validation, rename or transaction, or the death of the
\* process: nothing of this step happened.
Fail(d) == /\ Fault /\ ~ At(d, "idle") /\ Return(d)
           /\ NoStorage /\ NoFiles

\* The acknowledgment of a committed transaction is lost.
LostAcknowledgment(d) ==
    LET p == publisher[d].receipt IN
    /\ Fault /\ Return(d)
    /\ \/ /\ \/ At(d, "planned") \/ At(d, "prepare again")
          /\ Unchanged(p.artifact)
          /\ SetReceipt(p, FALSE) /\ UNCHANGED exports
       \/ At(d, "acknowledge") /\ Acknowledge(p)
    /\ UNCHANGED <<record, edits>> /\ NoFiles

\* The process dies between the rename and what follows it.
CrashAfterRename(d) ==
    LET a == publisher[d].receipt.artifact IN
    /\ Fault /\ Return(d) /\ At(d, "stage")
    /\ file' = [file EXCEPT ![d] = [artifact |-> a, intact |-> TRUE]]
    /\ renamed' = [renamed EXCEPT ![d] = @ \cup {a}]
    /\ NoStorage

\* Between publications somebody removes or damages the file.
Disturb(d) ==
    /\ Fault /\ At(d, "idle") /\ file[d] # None
    /\ file' \in {[file EXCEPT ![d] = None], [file EXCEPT ![d].intact = FALSE]}
    /\ UNCHANGED <<renamed, publisher>> /\ NoStorage

\* A guarded command on a record, by any other caller: it becomes selectable,
\* projects to something else, or is no longer selected.
Edit(r) ==
    /\ edits < MaxEdits /\ edits' = edits + 1
    /\ \E p \in (Projections \cup {Ineligible}) \ {record[r]} :
          record' = [record EXCEPT ![r] = p]
    /\ UNCHANGED <<exports, receipts, publisher, faults>> /\ NoFiles

-----------------------------------------------------------------------------
Init ==
    /\ record \in [RecordIds -> Projections \cup {Ineligible}]
    /\ exports = [r \in RecordIds |-> <<>>]
    /\ receipts = {}
    /\ file = [d \in Destinations |-> None]
    /\ publisher = [d \in Destinations |-> Idle]
    /\ edits = 0 /\ faults = 0
    /\ renamed = [d \in Destinations |-> {}]

FinishPublication(d) == \/ Inspect(d) \/ PrepareAgain(d) \/ Rename(d)
                        \/ AcknowledgeExport(d) \/ Done(d)

Publish(d) == \/ \E purpose \in Purposes : Scan(d, purpose) \/ Recover(d, purpose)
              \/ ResumeExport(d) \/ Prepare(d) \/ FinishPublication(d)

Next == \/ \E d \in Destinations : \/ Publish(d) \/ Fail(d) \/ Disturb(d)
                                   \/ LostAcknowledgment(d) \/ CrashAfterRename(d)
        \/ \E r \in RecordIds : Edit(r)

Spec == Init /\ [][Next]_vars

-----------------------------------------------------------------------------
(* Properties                                                              *)

\* Every variable has its declared shape.
TypeOK ==
    /\ record \in [RecordIds -> Projections \cup {Ineligible}]
    /\ exports \in [RecordIds -> Seq(Artifacts)]
    /\ receipts \subseteq Receipt
    /\ file \in [Destinations -> File \cup {None}]
    /\ publisher \in [Destinations ->
            [pc : {"idle", "planned", "inspect", "prepare again", "stage",
                   "acknowledge", "done"},
             receipt : Receipt \cup {None}]]
    /\ edits \in 0 .. MaxEdits /\ faults \in 0 .. MaxFaults
    /\ renamed \in [Destinations -> SUBSET Artifacts]

\* Intent is durable before bytes are visible: whatever ever appeared at a
\* destination has a receipt, so it can be recovered by its publication ID.
VisibleHasReceipt ==
    \A d \in Destinations : \A a \in renamed[d] :
        \E p \in receipts : p.destination = d /\ p.artifact = a

\* Nothing is acknowledged that was not visible first: an acknowledged receipt's
\* artifact, and every artifact a record was Exported with, was renamed into
\* place and contains the record.
AcknowledgedWasVisible ==
    /\ \A p \in receipts : p.acknowledged => p.artifact \in renamed[p.destination]
    /\ \A r \in RecordIds : \A a \in Range(exports[r]) :
          r \in DOMAIN a /\ \E d \in Destinations : a \in renamed[d]

\* The order that makes recovery possible: intent, bytes, acknowledgment, in
\* well-typed states.
IntentBytesAcknowledgment == TypeOK /\ VisibleHasReceipt /\ AcknowledgedWasVisible

\* A record is Exported at most once per artifact, through however many
\* retries, recoveries and destinations the artifact was published.
ExportedOnce ==
    \A r \in RecordIds : \A i, j \in DOMAIN exports[r] :
        exports[r][i] = exports[r][j] => i = j

\* "A changed selected record is never acknowledged": at the moment a record
\* turns Exported it still is what the artifact says, and so is every other
\* member of the artifact.
NeverAcknowledgeChanged ==
    [][\A r \in RecordIds : exports'[r] # exports[r] =>
          LET a == exports'[r][Len(exports'[r])] IN
          /\ \A m \in DOMAIN a : record[m] = a[m] /\ a \in Range(exports'[m])
          /\ record' = record]_vars

\* A publication that returns success left its verified artifact at the
\* destination and an acknowledged receipt behind.
SuccessIsDurable ==
    \A d \in Destinations : At(d, "done") =>
        LET p == publisher[d].receipt IN
        /\ file[d] = [artifact |-> p.artifact, intact |-> TRUE]
        /\ \E q \in receipts : Same(p, q) /\ q.acknowledged
        /\ p.purpose = "engine" =>
              \A r \in DOMAIN p.artifact : p.artifact \in Range(exports[r])

\* Whatever is visible at a destination has a durable receipt that explains it, success
\* is reported of durable bytes only, and a record is exported once for one artifact
\* (publish, PublicationPlan, receipts.rs).
PublishedIsDurable == IntentBytesAcknowledgment /\ SuccessIsDurable /\ ExportedOnce
=============================================================================

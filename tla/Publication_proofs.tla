------------------------- MODULE Publication_proofs -------------------------
(***************************************************************************)
(* Proofs about Publication, for any records, projections and destinations,*)
(* and any number of edits and faults.                                     *)
(*                                                                         *)
(* IInv is the inductive invariant.  Underway says what the position of a  *)
(* publisher tells about the two systems it has written so far: its intent *)
(* is in the database, its bytes are at the destination, or both.  Whoever *)
(* calls on the other destinations, and every fault, leaves that alone:    *)
(* Frame reduces a step to the destination it belongs to.                  *)
(***************************************************************************)
EXTENDS Publication, TLAPS

Labels == {"idle", "planned", "inspect", "prepare again", "stage", "acknowledge", "done"}

Intact(a) == [artifact |-> a, intact |-> TRUE]

Exported(p) == \A r \in DOMAIN p.artifact : p.artifact \in Range(exports[r])

\* Where a publication is determines what of it is durable already.
Underway(d) ==
    LET p == publisher[d].receipt IN
    /\ ~ At(d, "idle") => p \in Receipt /\ p.destination = d
    /\ publisher[d].pc \in Labels \ {"idle", "planned"} => Stored(p) # {}
    /\ publisher[d].pc \in {"acknowledge", "done"} =>
          file[d] = Intact(p.artifact) /\ p.artifact \in renamed[d]
    /\ At(d, "done") => /\ \E q \in Stored(p) : q.acknowledged
                        /\ p.purpose = "engine" => Exported(p)

\* What is at a destination was renamed into place.
FileWasRenamed == \A d \in Destinations : file[d] # None => file[d].artifact \in renamed[d]

\* The transaction that acknowledges an engine's publication exports its records.
AcknowledgedIsExported ==
    \A p \in receipts : p.acknowledged /\ p.purpose = "engine" => Exported(p)

IInv == /\ IntentBytesAcknowledgment /\ ExportedOnce
        /\ FileWasRenamed /\ AcknowledgedIsExported
        /\ \A d \in Destinations : Underway(d)

-----------------------------------------------------------------------------
(* What the operators do                                                   *)

\* Appending to a sequence adds to what it contains.
LEMMA RangeAppend ==
    ASSUME NEW S, NEW s \in Seq(S), NEW x \in S
    PROVE  Range(Append(s, x)) = Range(s) \cup {x}
<1>1. /\ Len(s) \in Nat /\ Append(s, x) \in Seq(S) /\ DOMAIN s = 1 .. Len(s)
      /\ DOMAIN Append(s, x) = 1 .. Len(s) + 1
      /\ Append(s, x)[Len(s) + 1] = x
      /\ \A i \in 1 .. Len(s) : Append(s, x)[i] = s[i]
  OBVIOUS
<1>2. \A i : i \in 1 .. Len(s) + 1 <=> i \in 1 .. Len(s) \/ i = Len(s) + 1
  BY <1>1
<1> QED BY <1>1, <1>2, Zenon DEF Range

\* What the store selects has the projections it has.
LEMMA PlanIsArtifact == TypeOK => Plan \in Artifacts
<1> SUFFICES ASSUME TypeOK PROVE Plan \in Artifacts
  OBVIOUS
<1>1. Selected \in SUBSET RecordIds /\ \A r \in Selected : record[r] \in Projections
  BY DEF TypeOK, Selected
<1>2. Plan \in [Selected -> Projections]
  BY <1>1 DEF Plan
<1> QED BY <1>1, <1>2 DEF Artifacts

\* An artifact is of records of the store.
LEMMA ArtifactDomain == \A a \in Artifacts : DOMAIN a \subseteq RecordIds
BY DEF Artifacts

\* A receipt is written in the place of the one with its identity.
LEMMA ReceiptWritten ==
    ASSUME receipts \subseteq Receipt, NEW p \in Receipt, NEW b \in BOOLEAN,
           SetReceipt(p, b)
    PROVE  /\ receipts' \subseteq Receipt
           /\ \A q \in receipts : \E q2 \in receipts' : Same(q, q2)
           /\ \A q \in receipts' : q \in receipts \/ q = [p EXCEPT !.acknowledged = b]
           /\ \A q \in Receipt : Stored(q) # {} => Stored(q)' # {}
           /\ \A q \in receipts : ~ Same(p, q) => q \in receipts'
           /\ [p EXCEPT !.acknowledged = b] \in Stored(p)'
<1> DEFINE n == [p EXCEPT !.acknowledged = b]
<1>1. n \in Receipt /\ Same(p, n) /\ n.acknowledged = b
  BY DEF Receipt, Same
<1>2. receipts' = (receipts \ Stored(p)) \cup {n}
  BY DEF SetReceipt
<1> HIDE DEF n
<1>3. receipts' \subseteq Receipt /\ n \in Stored(p)'
  BY <1>1, <1>2 DEF Stored
<1>4. \A q \in receipts : q \in receipts' \/ Same(p, q)
  BY <1>2 DEF Stored
<1>5. \A q \in receipts : \E q2 \in receipts' : Same(q, q2)
  BY <1>1, <1>2, <1>4 DEF Same
<1>6. \A q \in Receipt : Stored(q) # {} => Stored(q)' # {}
  BY <1>5 DEF Stored, Same
<1> QED BY <1>2, <1>3, <1>4, <1>5, <1>6 DEF n

\* Acknowledging extends the history of the records that do not carry the artifact yet.
LEMMA Acknowledged ==
    ASSUME TypeOK, NEW p \in Receipt, Acknowledge(p)
    PROVE  /\ receipts' \subseteq Receipt /\ exports' \in [RecordIds -> Seq(Artifacts)]
           /\ \A r \in RecordIds :
                 \/ exports'[r] = exports[r]
                 \/ /\ exports'[r] = Append(exports[r], p.artifact)
                    /\ r \in DOMAIN p.artifact /\ p.artifact \notin Range(exports[r])
                    /\ p.purpose = "engine"
           /\ \/ UNCHANGED <<receipts, exports>> /\ \E q \in Stored(p) : q.acknowledged
              \/ SetReceipt(p, TRUE) /\ (p.purpose = "engine" => Exported(p)')
<1>1. receipts \subseteq Receipt /\ exports \in [RecordIds -> Seq(Artifacts)]
      /\ p.artifact \in Artifacts /\ p.purpose \in Purposes
  BY DEF TypeOK, Receipt
<1>2. CASE UNCHANGED <<receipts, exports>> /\ \E q \in Stored(p) : q.acknowledged
  BY <1>1, <1>2
<1>3. CASE /\ SetReceipt(p, TRUE)
           /\ exports' = IF p.purpose = "standalone" THEN exports
                         ELSE [r \in RecordIds |->
                                 IF r \in DOMAIN p.artifact
                                    /\ p.artifact \notin Range(exports[r])
                                 THEN Append(exports[r], p.artifact)
                                 ELSE exports[r]]
  <2> DEFINE a == p.artifact
             Extended == [r \in RecordIds |->
                            IF r \in DOMAIN a /\ a \notin Range(exports[r])
                            THEN Append(exports[r], a) ELSE exports[r]]
  <2>1. receipts' \subseteq Receipt
    BY <1>1, <1>3, ReceiptWritten
  <2>2. CASE p.purpose = "standalone"
    BY <1>1, <1>3, <2>1, <2>2
  <2>3. CASE p.purpose # "standalone"
    <3>1. p.purpose = "engine" /\ exports' = Extended
      BY <1>1, <1>3, <2>3 DEF Purposes
    <3>2. a \in Artifacts
      BY <1>1
    <3> HIDE DEF a
    <3>3. \A r \in RecordIds :
             \/ exports'[r] = exports[r] /\ (r \in DOMAIN a => a \in Range(exports[r]))
             \/ /\ exports'[r] = Append(exports[r], a)
                /\ r \in DOMAIN a /\ a \notin Range(exports[r])
      BY <3>1
    <3>4. \A r \in RecordIds : exports[r] \in Seq(Artifacts)
      BY <1>1
    <3>5. \A r \in RecordIds : Append(exports[r], a) \in Seq(Artifacts)
      BY <3>2, <3>4
    <3>6. exports' \in [RecordIds -> Seq(Artifacts)]
      BY <3>1, <3>4, <3>5
    <3>7. ASSUME NEW r \in DOMAIN a PROVE a \in Range(exports'[r])
      <4>1. r \in RecordIds
        BY <3>2, ArtifactDomain
      <4>2. Range(Append(exports[r], a)) = Range(exports[r]) \cup {a}
        BY <3>2, <3>4, <4>1, RangeAppend
      <4> QED BY <3>3, <4>1, <4>2
    <3>8. Exported(p)'
      BY <3>7 DEF Exported, a
    <3> QED BY <1>3, <2>1, <3>1, <3>3, <3>6, <3>8 DEF a
  <2> QED BY <2>2, <2>3
<1> QED BY <1>2, <1>3 DEF Acknowledge

-----------------------------------------------------------------------------
(* What a step can do                                                      *)

\* The database, by the call at d: nothing, an intent, or the acknowledgment.
Writes(d) ==
    LET p == publisher[d].receipt IN
    \/ UNCHANGED <<receipts, exports>>
    \/ /\ At(d, "planned") \/ At(d, "prepare again")
       /\ SetReceipt(p, FALSE) /\ UNCHANGED exports
    \/ /\ At(d, "acknowledge") /\ Unchanged(p.artifact)
       /\ Acknowledge(p) /\ UNCHANGED record

\* The file system, by the call at d or by somebody else while there is no call.
Shows(d) ==
    LET a == publisher[d].receipt.artifact IN
    \/ UNCHANGED <<file, renamed>>
    \/ /\ At(d, "stage") /\ file' = [file EXCEPT ![d] = Intact(a)]
       /\ renamed' = [renamed EXCEPT ![d] = @ \cup {a}]
    \/ /\ At(d, "idle") /\ file[d] # None /\ UNCHANGED <<renamed, publisher>>
       /\ file' \in {[file EXCEPT ![d] = None], [file EXCEPT ![d].intact = FALSE]}

Involves(d) == /\ Writes(d) /\ Shows(d)
               /\ \A e \in Destinations : e # d => publisher'[e] = publisher[e]

Quiet == UNCHANGED <<exports, receipts, publisher, file, renamed>>

Call(d) ==
    Publish(d) \/ Fail(d) \/ Disturb(d) \/ LostAcknowledgment(d) \/ CrashAfterRename(d)

\* A call, and a fault of it, involves its own destination only.
LEMMA CallInvolves ==
    ASSUME TypeOK, NEW d \in Destinations, Call(d)
    PROVE  Involves(d)
<1> USE DEF Call
<1>1. publisher \in [Destinations -> [pc : Labels, receipt : Receipt \cup {None}]]
  BY DEF TypeOK, Labels
<1>2. \A e \in Destinations : e # d => publisher'[e] = publisher[e]
  BY <1>1 DEF Publish, Scan, Recover, ResumeExport, Prepare, PrepareExportReceipt,
                    FinishPublication, Inspect, PrepareAgain, Rename, AcknowledgeExport, Done,
                    Fail, Disturb, LostAcknowledgment, CrashAfterRename, Become, Goto, Return
<1>3. Shows(d)
  BY DEF Publish, Scan, Recover, ResumeExport, Prepare, PrepareExportReceipt,
              FinishPublication, Inspect, PrepareAgain, Rename, AcknowledgeExport, Done,
              Fail, Disturb, LostAcknowledgment, CrashAfterRename, Shows, NoFiles, Intact
<1>4. Writes(d)
  <2>1. CASE \/ \E purpose \in Purposes : Scan(d, purpose) \/ Recover(d, purpose)
             \/ ResumeExport(d) \/ Inspect(d) \/ Rename(d) \/ Done(d)
             \/ Fail(d) \/ Disturb(d) \/ CrashAfterRename(d)
    BY <2>1 DEF Scan, Recover, ResumeExport, Inspect, Rename, Done, Fail, Disturb,
                CrashAfterRename, NoStorage, Writes
  <2>2. CASE Prepare(d) \/ PrepareAgain(d)
    BY <2>2 DEF Prepare, PrepareAgain, PrepareExportReceipt, Writes
  <2>3. CASE AcknowledgeExport(d)
    BY <2>3 DEF AcknowledgeExport, Acknowledge, Writes
  <2>4. CASE LostAcknowledgment(d)
    BY <2>4 DEF LostAcknowledgment, Acknowledge, Writes
  <2> QED BY <2>1, <2>2, <2>3, <2>4 DEF Publish, FinishPublication
<1> QED BY <1>2, <1>3, <1>4 DEF Involves

\* A step involves at most one destination.
LEMMA OneDestination ==
    ASSUME TypeOK, [Next]_vars
    PROVE  Quiet \/ \E d \in Destinations : Involves(d)
<1>1. CASE UNCHANGED vars
  BY <1>1 DEF vars, Quiet
<1>2. ASSUME NEW r \in RecordIds, Edit(r) PROVE Quiet
  BY <1>2 DEF Edit, NoFiles, Quiet
<1>3. ASSUME NEW d \in Destinations, Call(d) PROVE Involves(d)
  BY <1>3, CallInvolves
<1> QED BY <1>1, <1>2, <1>3 DEF Next, Call

\* What the database holds is only added to, but for a receipt being opened again.
LEMMA DatabaseGrows ==
    ASSUME TypeOK, NEW d \in Destinations, Underway(d), Writes(d)
    PROVE  /\ receipts' \subseteq Receipt /\ exports' \in [RecordIds -> Seq(Artifacts)]
           /\ \A q \in receipts : \E q2 \in receipts' : Same(q, q2)
           /\ \A q \in Receipt : Stored(q) # {} => Stored(q)' # {}
           /\ \A q \in receipts : q.destination # d => q \in receipts'
           /\ \A r \in RecordIds : Range(exports[r]) \subseteq Range(exports'[r])
           /\ \A q \in Receipt : Exported(q) => Exported(q)'
<1> DEFINE p == publisher[d].receipt
<1>1. /\ receipts \subseteq Receipt /\ exports \in [RecordIds -> Seq(Artifacts)]
      /\ \A q \in receipts : Same(q, q)
  BY DEF TypeOK, Same
<1>2. ~ At(d, "idle") => p \in Receipt /\ p.destination = d
  BY DEF Underway
<1> HIDE DEF p
<1>3. ASSUME p \in Receipt, p.destination = d, NEW b \in BOOLEAN, SetReceipt(p, b)
      PROVE  /\ \A q \in receipts : \E q2 \in receipts' : Same(q, q2)
             /\ \A q \in Receipt : Stored(q) # {} => Stored(q)' # {}
             /\ \A q \in receipts : q.destination # d => q \in receipts'
             /\ receipts' \subseteq Receipt
  BY <1>1, <1>3, ReceiptWritten DEF Same
<1>4. ASSUME \A r \in RecordIds :
                \/ exports'[r] = exports[r]
                \/ p.artifact \in Artifacts /\ exports'[r] = Append(exports[r], p.artifact)
      PROVE  /\ \A r \in RecordIds : Range(exports[r]) \subseteq Range(exports'[r])
             /\ \A q \in Receipt : Exported(q) => Exported(q)'
  <2>1. ASSUME NEW r \in RecordIds PROVE Range(exports[r]) \subseteq Range(exports'[r])
    <3>1. exports[r] \in Seq(Artifacts)
      BY <1>1
    <3>2. CASE exports'[r] = exports[r]
      BY <3>2
    <3>3. CASE p.artifact \in Artifacts /\ exports'[r] = Append(exports[r], p.artifact)
      BY <3>1, <3>3, RangeAppend
    <3> QED BY <1>4, <3>2, <3>3
  <2>2. \A q \in Receipt : \A r \in DOMAIN q.artifact : r \in RecordIds
    BY ArtifactDomain DEF Receipt
  <2> QED BY <2>1, <2>2 DEF Exported
<1>5. CASE UNCHANGED <<receipts, exports>>
  BY <1>1, <1>5 DEF Stored, Exported
<1>6. CASE /\ At(d, "planned") \/ At(d, "prepare again")
           /\ SetReceipt(p, FALSE) /\ exports' = exports
  <2>1. p \in Receipt /\ p.destination = d
    BY <1>2, <1>6 DEF At
  <2> QED BY <1>1, <1>3, <1>4, <1>6, <2>1
<1>7. CASE At(d, "acknowledge") /\ Acknowledge(p)
  <2>1. p \in Receipt /\ p.destination = d /\ p.artifact \in Artifacts
    BY <1>2, <1>7 DEF At, Receipt
  <2>2. /\ exports' \in [RecordIds -> Seq(Artifacts)]
        /\ \A r \in RecordIds :
              exports'[r] = exports[r] \/ exports'[r] = Append(exports[r], p.artifact)
        /\ UNCHANGED receipts \/ SetReceipt(p, TRUE)
    BY <1>7, <2>1, Acknowledged
  <2>3. CASE UNCHANGED receipts
    BY <1>1, <1>4, <2>1, <2>2, <2>3 DEF Stored
  <2>4. CASE SetReceipt(p, TRUE)
    BY <1>3, <1>4, <2>1, <2>2, <2>4
  <2> QED BY <2>2, <2>3, <2>4
<1> QED BY <1>5, <1>6, <1>7 DEF Writes, p

-----------------------------------------------------------------------------
(* Invariance                                                              *)

\* A bounded counter stays within its bound.
LEMMA Counts == \A m \in Nat : \A n \in 0 .. m : n < m => n + 1 \in 0 .. m
OBVIOUS

\* Every variable keeps its shape.
LEMMA TypeStep ==
    ASSUME TypeOK, \A d \in Destinations : Underway(d), [Next]_vars
    PROVE  TypeOK'
<1>1. CASE UNCHANGED vars
  BY <1>1 DEF vars, TypeOK
<1>2. ASSUME NEW r \in RecordIds, Edit(r) PROVE TypeOK'
  <2>1. edits' \in 0 .. MaxEdits
    BY <1>2, PublicationAssumption, Counts DEF Edit, TypeOK
  <2>2. record' \in [RecordIds -> Projections \cup {Ineligible}]
    BY <1>2 DEF Edit, TypeOK
  <2> QED BY <1>2, <2>1, <2>2 DEF Edit, NoFiles, TypeOK
<1>3. ASSUME NEW d \in Destinations, Call(d) PROVE TypeOK'
  <2> DEFINE p == publisher[d].receipt
  <2>1. record' = record /\ edits' = edits /\ (faults' = faults \/ Fault)
    BY <1>3
       DEF Publish, Scan, Recover, ResumeExport, Prepare, PrepareExportReceipt,
           FinishPublication, Inspect, PrepareAgain, Rename, AcknowledgeExport, Done,
           Fail, Disturb, LostAcknowledgment, CrashAfterRename, NoStorage, Call
  <2>0. faults' \in 0 .. MaxFaults
    <3>1. faults \in 0 .. MaxFaults /\ MaxFaults \in Nat
      BY PublicationAssumption DEF TypeOK
    <3>2. Fault => faults' \in 0 .. MaxFaults
      BY <3>1, Counts DEF Fault
    <3> QED BY <2>1, <3>1, <3>2
  <2>2. Involves(d)
    BY <1>3, CallInvolves
  <2>3. receipts' \subseteq Receipt /\ exports' \in [RecordIds -> Seq(Artifacts)]
    BY <2>2, DatabaseGrows DEF Involves
  <2>4. ~ At(d, "idle") => p \in Receipt /\ p.artifact \in Artifacts
    BY DEF Underway, Receipt
  <2> HIDE DEF p
  <2>5. /\ file' \in [Destinations -> File \cup {None}]
        /\ renamed' \in [Destinations -> SUBSET Artifacts]
    <3>1. CASE UNCHANGED <<file, renamed>>
      BY <3>1 DEF TypeOK
    <3>2. CASE /\ At(d, "stage") /\ file' = [file EXCEPT ![d] = Intact(p.artifact)]
               /\ renamed' = [renamed EXCEPT ![d] = @ \cup {p.artifact}]
      <4>1. p.artifact \in Artifacts /\ Intact(p.artifact) \in File
        BY <2>4, <3>2 DEF At, Intact, File
      <4> QED BY <3>2, <4>1 DEF TypeOK
    <3>3. CASE /\ file[d] # None /\ UNCHANGED renamed
               /\ file' \in {[file EXCEPT ![d] = None], [file EXCEPT ![d].intact = FALSE]}
      <4>1. file[d] \in File /\ [file[d] EXCEPT !.intact = FALSE] \in File
        BY <3>3 DEF TypeOK, File
      <4> QED BY <3>3, <4>1 DEF TypeOK
    <3> QED BY <2>2, <3>1, <3>2, <3>3 DEF Involves, Shows, p
  <2>6. publisher' \in [Destinations -> [pc : Labels, receipt : Receipt \cup {None}]]
    <3>1. publisher \in [Destinations -> [pc : Labels, receipt : Receipt \cup {None}]]
      BY DEF TypeOK, Labels
    <3>2. \A label \in Labels, r \in Receipt \cup {None} :
             Become(d, label, r) => publisher' \in
                [Destinations -> [pc : Labels, receipt : Receipt \cup {None}]]
      BY <3>1 DEF Become
    <3>3. \A label \in Labels :
             Goto(d, label) => publisher' \in
                [Destinations -> [pc : Labels, receipt : Receipt \cup {None}]]
      BY <3>1 DEF Goto
    <3>4. Return(d) => publisher' \in
             [Destinations -> [pc : Labels, receipt : Receipt \cup {None}]]
      <4>1. Idle \in [pc : Labels, receipt : Receipt \cup {None}]
        BY DEF Idle, Labels
      <4> QED BY <3>1, <4>1 DEF Return
    <3>5. /\ "planned" \in Labels /\ "inspect" \in Labels /\ "prepare again" \in Labels
          /\ "stage" \in Labels /\ "acknowledge" \in Labels /\ "done" \in Labels
      BY DEF Labels
    <3>6. ASSUME NEW purpose \in Purposes
          PROVE  [destination |-> d, artifact |-> Plan,
                  purpose |-> purpose, acknowledged |-> FALSE] \in Receipt
      BY PlanIsArtifact DEF Receipt
    <3>7. receipts \subseteq Receipt
      BY DEF TypeOK
    <3>8. CASE \/ \E purpose \in Purposes : Scan(d, purpose) \/ Recover(d, purpose)
               \/ ResumeExport(d)
      BY <3>2, <3>5, <3>6, <3>7, <3>8 DEF Scan, Recover, ResumeExport
    <3>9. CASE Prepare(d) \/ FinishPublication(d)
      BY <3>3, <3>4, <3>5, <3>9
         DEF Prepare, PrepareExportReceipt, FinishPublication, Inspect, PrepareAgain, Rename,
             AcknowledgeExport, Done
    <3>10. CASE Fail(d) \/ Disturb(d) \/ LostAcknowledgment(d) \/ CrashAfterRename(d)
      BY <3>1, <3>4, <3>10 DEF Fail, Disturb, LostAcknowledgment, CrashAfterRename
    <3> QED BY <1>3, <3>8, <3>9, <3>10 DEF Call, Publish
  <2> QED BY <2>0, <2>1, <2>3, <2>5, <2>6 DEF TypeOK, Labels
<1> QED BY <1>1, <1>2, <1>3 DEF Next, Call

\* What ever was visible keeps its receipt, and what is acknowledged was visible.
LEMMA OrderStep ==
    ASSUME IInv, [Next]_vars
    PROVE  (VisibleHasReceipt /\ AcknowledgedWasVisible /\ ExportedOnce)'
<1>1. CASE Quiet
  BY <1>1 DEF IInv, IntentBytesAcknowledgment, VisibleHasReceipt, AcknowledgedWasVisible,
              ExportedOnce, Quiet
<1>2. ASSUME NEW d \in Destinations, Involves(d)
      PROVE  (VisibleHasReceipt /\ AcknowledgedWasVisible /\ ExportedOnce)'
  <2> DEFINE p == publisher[d].receipt
  <2>1. TypeOK /\ Underway(d) /\ Writes(d)
    BY <1>2 DEF IInv, IntentBytesAcknowledgment, Involves
  <2>2. /\ \A q \in receipts : \E q2 \in receipts' : Same(q, q2)
        /\ receipts \subseteq Receipt
    BY <2>1, DatabaseGrows DEF TypeOK
  <2>3. /\ \A e \in Destinations : renamed[e] \subseteq renamed'[e]
        /\ \A e \in Destinations : \A a \in renamed'[e] :
              a \in renamed[e] \/ (e = d /\ a = p.artifact /\ At(d, "stage"))
    <3>1. renamed \in [Destinations -> SUBSET Artifacts]
      BY <2>1 DEF TypeOK
    <3>2. \/ renamed' = renamed
          \/ renamed' = [renamed EXCEPT ![d] = @ \cup {p.artifact}] /\ At(d, "stage")
      BY <1>2 DEF Involves, Shows
    <3> QED BY <3>1, <3>2
  <2>4. ~ At(d, "idle") => p \in Receipt /\ p.destination = d
    BY <2>1 DEF Underway
  <2>5. At(d, "stage") => \E q \in receipts : Same(p, q)
    BY <2>1 DEF Underway, At, Labels, Stored
  <2>6. At(d, "acknowledge") => p.artifact \in renamed[d]
    BY <2>1 DEF Underway, At
  <2>7. \A r \in RecordIds :
           \/ exports'[r] = exports[r]
           \/ /\ exports'[r] = Append(exports[r], p.artifact) /\ p.artifact \in Artifacts
              /\ r \in DOMAIN p.artifact /\ p.artifact \notin Range(exports[r])
              /\ At(d, "acknowledge")
    <3>1. CASE At(d, "acknowledge") /\ Acknowledge(p)
      <4>1. p \in Receipt /\ p.artifact \in Artifacts
        BY <2>4, <3>1 DEF At, Receipt
      <4> QED BY <2>1, <3>1, <4>1, Acknowledged
    <3>2. CASE UNCHANGED exports
      BY <3>2
    <3> QED BY <2>1, <3>1, <3>2 DEF Writes
  <2>8. \A q \in receipts' : q.acknowledged => q \in receipts \/
                                               (/\ At(d, "acknowledge")
                                                /\ q.artifact = p.artifact
                                                /\ q.destination = d)
    <3>1. CASE UNCHANGED receipts
      BY <3>1
    <3>2. ASSUME NEW b \in BOOLEAN, SetReceipt(p, b), ~ At(d, "idle"), b => At(d, "acknowledge")
          PROVE  \A q \in receipts' : q.acknowledged => q \in receipts \/
                                               (/\ At(d, "acknowledge")
                                                /\ q.artifact = p.artifact
                                                /\ q.destination = d)
      <4>1. p \in Receipt /\ p.destination = d
        BY <2>4, <3>2
      <4>2. \A q \in receipts' : q \in receipts \/ q = [p EXCEPT !.acknowledged = b]
        BY <2>2, <3>2, <4>1, ReceiptWritten
      <4>3. /\ [p EXCEPT !.acknowledged = b].acknowledged = b
            /\ [p EXCEPT !.acknowledged = b].artifact = p.artifact
            /\ [p EXCEPT !.acknowledged = b].destination = d
        BY <4>1 DEF Receipt
      <4> QED BY <3>2, <4>2, <4>3
    <3> QED BY <2>1, <3>1, <3>2 DEF Writes, Acknowledge, At
  <2> HIDE DEF p
  <2>9. VisibleHasReceipt'
    <3>1. ASSUME NEW e \in Destinations, NEW a \in renamed'[e]
          PROVE  \E q \in receipts' : q.destination = e /\ q.artifact = a
      <4>1. \E q \in receipts : q.destination = e /\ q.artifact = a
        <5>1. CASE a \in renamed[e]
          BY <5>1 DEF IInv, IntentBytesAcknowledgment, VisibleHasReceipt
        <5>2. CASE e = d /\ a = p.artifact /\ At(d, "stage")
          BY <2>4, <2>5, <5>2 DEF Same, At
        <5> QED BY <2>3, <3>1, <5>1, <5>2
      <4> QED BY <2>2, <4>1 DEF Same
    <3> QED BY <3>1 DEF VisibleHasReceipt
  <2>10. AcknowledgedWasVisible'
    <3>1. ASSUME NEW q \in receipts', q.acknowledged PROVE q.artifact \in renamed'[q.destination]
      <4>1. CASE q \in receipts
        <5>1. q.artifact \in renamed[q.destination] /\ q.destination \in Destinations
          BY <2>2, <3>1, <4>1 DEF IInv, IntentBytesAcknowledgment, AcknowledgedWasVisible, Receipt
        <5> QED BY <2>3, <5>1
      <4>2. CASE At(d, "acknowledge") /\ q.artifact = p.artifact /\ q.destination = d
        BY <2>3, <2>6, <4>2
      <4> QED BY <2>8, <3>1, <4>1, <4>2
    <3>2. ASSUME NEW r \in RecordIds, NEW a \in Range(exports'[r])
          PROVE  r \in DOMAIN a /\ \E e \in Destinations : a \in renamed'[e]
      <4>1. \/ a \in Range(exports[r])
            \/ a = p.artifact /\ r \in DOMAIN p.artifact /\ At(d, "acknowledge")
        <5>1. CASE exports'[r] = exports[r]
          BY <3>2, <5>1
        <5>2. CASE /\ exports'[r] = Append(exports[r], p.artifact) /\ p.artifact \in Artifacts
                   /\ r \in DOMAIN p.artifact /\ At(d, "acknowledge")
          <6>1. exports[r] \in Seq(Artifacts)
            BY <2>1 DEF TypeOK
          <6>2. Range(exports'[r]) = Range(exports[r]) \cup {p.artifact}
            BY <5>2, <6>1, RangeAppend
          <6> QED BY <3>2, <5>2, <6>2
        <5> QED BY <2>7, <5>1, <5>2
      <4>2. CASE a \in Range(exports[r])
        <5>1. r \in DOMAIN a /\ \E e \in Destinations : a \in renamed[e]
          BY <4>2 DEF IInv, IntentBytesAcknowledgment, AcknowledgedWasVisible
        <5> QED BY <2>3, <5>1
      <4>3. CASE a = p.artifact /\ r \in DOMAIN p.artifact /\ At(d, "acknowledge")
        BY <2>3, <2>6, <4>3
      <4> QED BY <4>1, <4>2, <4>3
    <3> QED BY <3>1, <3>2 DEF AcknowledgedWasVisible
  <2>11. ExportedOnce'
    <3>1. ASSUME NEW r \in RecordIds, NEW i \in DOMAIN exports'[r], NEW j \in DOMAIN exports'[r],
                 exports'[r][i] = exports'[r][j]
          PROVE  i = j
      <4>1. CASE exports'[r] = exports[r]
        BY <3>1, <4>1 DEF IInv, ExportedOnce
      <4>2. CASE /\ exports'[r] = Append(exports[r], p.artifact) /\ p.artifact \in Artifacts
                 /\ p.artifact \notin Range(exports[r])
        <5>1. exports[r] \in Seq(Artifacts)
          BY <2>1 DEF TypeOK
        <5> DEFINE s == exports[r]  a == p.artifact
        <5>2. \A m, n \in DOMAIN s : s[m] = s[n] => m = n
          BY DEF IInv, ExportedOnce
        <5>3. \A m \in DOMAIN s : s[m] # a
          BY <4>2 DEF Range
        <5>4. /\ i \in DOMAIN Append(s, a) /\ j \in DOMAIN Append(s, a)
              /\ Append(s, a)[i] = Append(s, a)[j]
          BY <3>1, <4>2
        <5>5. s \in Seq(Artifacts) /\ a \in Artifacts
          BY <4>2, <5>1
        <5> HIDE DEF s, a
        <5>6. /\ DOMAIN s = 1 .. Len(s) /\ Len(s) \in Nat /\ DOMAIN Append(s, a) = 1 .. Len(s) + 1
              /\ Append(s, a)[Len(s) + 1] = a
              /\ \A m \in 1 .. Len(s) : Append(s, a)[m] = s[m]
          BY <5>5
        <5>7. (i \in DOMAIN s \/ i = Len(s) + 1) /\ (j \in DOMAIN s \/ j = Len(s) + 1)
          BY <5>4, <5>6
        <5> QED BY <5>2, <5>3, <5>4, <5>6, <5>7
      <4> QED BY <2>7, <4>1, <4>2
    <3> QED BY <3>1 DEF ExportedOnce
  <2> QED BY <2>9, <2>10, <2>11
<1> QED
  <2>1. TypeOK
    BY DEF IInv, IntentBytesAcknowledgment
  <2> QED BY <1>1, <1>2, <2>1, OneDestination

\* What is at a destination was renamed into place, also when it is damaged later.
LEMMA FileStep ==
    ASSUME IInv, [Next]_vars
    PROVE  FileWasRenamed'
<1>1. CASE Quiet
  BY <1>1 DEF IInv, FileWasRenamed, Quiet
<1>2. ASSUME NEW d \in Destinations, Involves(d), NEW e \in Destinations, file'[e] # None
      PROVE  file'[e].artifact \in renamed'[e]
  <2> DEFINE a == publisher[d].receipt.artifact
  <2>1. /\ file \in [Destinations -> File \cup {None}]
        /\ renamed \in [Destinations -> SUBSET Artifacts]
        /\ file[e] # None => file[e] \in File /\ file[e].artifact \in renamed[e]
    BY DEF IInv, IntentBytesAcknowledgment, TypeOK, FileWasRenamed
  <2> HIDE DEF a
  <2>2. CASE UNCHANGED <<file, renamed>>
    BY <1>2, <2>1, <2>2
  <2>3. CASE /\ file' = [file EXCEPT ![d] = Intact(a)]
             /\ renamed' = [renamed EXCEPT ![d] = @ \cup {a}]
    BY <1>2, <2>1, <2>3 DEF Intact
  <2>4. CASE /\ file[d] # None /\ renamed' = renamed
             /\ file' \in {[file EXCEPT ![d] = None], [file EXCEPT ![d].intact = FALSE]}
    <3>1. CASE e # d
      BY <1>2, <2>1, <2>4, <3>1
    <3>2. CASE e = d
      <4>1. file'[d] = [file[d] EXCEPT !.intact = FALSE]
        BY <1>2, <2>1, <2>4, <3>2
      <4> QED BY <2>1, <2>4, <3>2, <4>1 DEF File
    <3> QED BY <3>1, <3>2
  <2> QED BY <1>2, <2>2, <2>3, <2>4 DEF Involves, Shows, a
<1> QED
  <2>1. TypeOK
    BY DEF IInv, IntentBytesAcknowledgment
  <2> QED BY <1>1, <1>2, <2>1, OneDestination DEF FileWasRenamed

\* Whatever acknowledges an engine's publication exports its records in the same step.
LEMMA ExportStep ==
    ASSUME IInv, [Next]_vars
    PROVE  AcknowledgedIsExported'
<1>1. CASE Quiet
  BY <1>1 DEF IInv, AcknowledgedIsExported, Quiet, Exported
<1>2. ASSUME NEW d \in Destinations, Involves(d)
      PROVE  AcknowledgedIsExported'
  <2>0. PICK p : p = publisher[d].receipt
    OBVIOUS
  <2>1. TypeOK /\ Underway(d) /\ Writes(d) /\ receipts \subseteq Receipt
    BY <1>2 DEF IInv, IntentBytesAcknowledgment, Involves, TypeOK
  <2>2. \A q \in Receipt : Exported(q) => Exported(q)'
    BY <2>1, DatabaseGrows
  <2>3. ~ At(d, "idle") => p \in Receipt
    BY <2>0, <2>1 DEF Underway
  <2>4. \A q \in receipts : q.acknowledged /\ q.purpose = "engine" => Exported(q)'
    BY <2>1, <2>2 DEF IInv, AcknowledgedIsExported
  <2>5. CASE UNCHANGED receipts
    BY <2>4, <2>5 DEF AcknowledgedIsExported
  <2>6. ASSUME NEW b \in BOOLEAN, p \in Receipt, SetReceipt(p, b),
               b /\ p.purpose = "engine" => Exported(p)'
        PROVE  AcknowledgedIsExported'
    <3>1. \A q \in receipts' : q \in receipts \/ q = [p EXCEPT !.acknowledged = b]
      BY <2>1, <2>6, ReceiptWritten
    <3>2. /\ [p EXCEPT !.acknowledged = b].acknowledged = b
          /\ [p EXCEPT !.acknowledged = b].artifact = p.artifact
          /\ [p EXCEPT !.acknowledged = b].purpose = p.purpose
      BY <2>6 DEF Receipt
    <3>3. \A q \in receipts' : q.acknowledged /\ q.purpose = "engine" =>
             \A r \in DOMAIN q.artifact : q.artifact \in Range(exports'[r])
      BY <2>4, <2>6, <3>1, <3>2 DEF Exported
    <3> QED BY <3>3 DEF AcknowledgedIsExported, Exported
  <2>7. CASE (At(d, "planned") \/ At(d, "prepare again")) /\ SetReceipt(p, FALSE)
    BY <2>3, <2>6, <2>7 DEF At
  <2>8. CASE At(d, "acknowledge") /\ Acknowledge(p)
    <3>1. p \in Receipt
      BY <2>3, <2>8 DEF At
    <3>2. \/ UNCHANGED receipts
          \/ SetReceipt(p, TRUE) /\ (p.purpose = "engine" => Exported(p)')
      BY <2>1, <2>8, <3>1, Acknowledged
    <3> QED BY <2>5, <2>6, <3>1, <3>2
  <2> QED BY <2>0, <2>1, <2>5, <2>7, <2>8 DEF Writes
<1> QED
  <2>1. TypeOK
    BY DEF IInv, IntentBytesAcknowledgment
  <2> QED BY <1>1, <1>2, <2>1, OneDestination

\* What a call elsewhere does leaves a publication where it is.
LEMMA Elsewhere ==
    ASSUME IInv, NEW d \in Destinations, Involves(d),
           NEW e \in Destinations, e # d
    PROVE  Underway(e)'
<1> DEFINE p == publisher[e].receipt
<1>1. /\ TypeOK /\ Underway(d) /\ Underway(e) /\ Writes(d) /\ receipts \subseteq Receipt
      /\ file \in [Destinations -> File \cup {None}]
      /\ renamed \in [Destinations -> SUBSET Artifacts]
  BY DEF IInv, IntentBytesAcknowledgment, Involves, TypeOK
<1>2. publisher'[e] = publisher[e]
  BY DEF Involves
<1>3. file'[e] = file[e] /\ renamed'[e] = renamed[e]
  BY <1>1 DEF Involves, Shows
<1>4. /\ \A q \in Receipt : Stored(q) # {} => Stored(q)' # {}
      /\ \A q \in receipts : q.destination # d => q \in receipts'
      /\ \A q \in Receipt : Exported(q) => Exported(q)'
  BY <1>1, DatabaseGrows
<1>5. CASE At(e, "idle")
  BY <1>2, <1>5 DEF Underway, At
<1>6. CASE ~ At(e, "idle")
  <2>1. PICK q : q = p
    OBVIOUS
  <2>2. /\ q \in Receipt /\ q.destination = e /\ p' = q
        /\ publisher[e].pc \in Labels \ {"idle", "planned"} => Stored(q) # {}
        /\ publisher[e].pc \in {"acknowledge", "done"} =>
              file[e] = Intact(q.artifact) /\ q.artifact \in renamed[e]
        /\ At(e, "done") => /\ \E s \in Stored(q) : s.acknowledged
                            /\ q.purpose = "engine" => Exported(q)
    BY <1>1, <1>2, <1>6, <2>1 DEF Underway
  <2>3. \A s \in Stored(q) : s \in Stored(q)'
    BY <1>1, <1>4, <2>2 DEF Stored, Same
  <2> HIDE DEF p
  <2>4. /\ publisher'[e].pc \in Labels \ {"idle", "planned"} => Stored(q)' # {}
        /\ publisher'[e].pc \in {"acknowledge", "done"} =>
              file'[e] = Intact(q.artifact) /\ q.artifact \in renamed'[e]
        /\ publisher'[e].pc = "done" =>
              /\ \E s \in Stored(q)' : s.acknowledged
              /\ q.purpose = "engine" => Exported(q)'
    BY <1>2, <1>3, <1>4, <2>2, <2>3 DEF At
  <2>5. publisher'[e].receipt = q
    BY <1>2, <2>1 DEF p
  <2>6. Stored(publisher[e].receipt)' = Stored(q)'
    BY <2>5 DEF Stored
  <2>8. publisher'[e].pc \in Labels \ {"idle", "planned"} => Stored(publisher[e].receipt)' # {}
    BY <2>4, <2>6
  <2>9. publisher'[e].pc \in {"acknowledge", "done"} =>
           /\ file'[e] = Intact(publisher'[e].receipt.artifact)
           /\ publisher'[e].receipt.artifact \in renamed'[e]
    BY <2>4, <2>5
  <2>10. publisher'[e].pc = "done" =>
           /\ \E s \in Stored(publisher[e].receipt)' : s.acknowledged
           /\ publisher'[e].receipt.purpose = "engine" => Exported(publisher[e].receipt)'
    BY <2>4, <2>5, <2>6 DEF Exported
  <2>11. publisher'[e].receipt \in Receipt /\ publisher'[e].receipt.destination = e
    BY <2>2, <2>5
  <2> QED BY <2>8, <2>9, <2>10, <2>11 DEF Underway, At
<1> QED BY <1>5, <1>6

\* A call that returned, and one that was not made, has nothing under way.
LEMMA NothingUnderway ==
    ASSUME NEW d \in Destinations, publisher'[d].pc \in {"idle", "planned"},
           ~ At(d, "idle")' => /\ publisher'[d].receipt \in Receipt
                               /\ publisher'[d].receipt.destination = d
    PROVE  Underway(d)'
BY DEF Underway, At, Labels

\* A publication that goes on has the receipt it had.
LEMMA GoesOn ==
    ASSUME TypeOK, NEW d \in Destinations, NEW label \in Labels, Goto(d, label)
    PROVE  publisher'[d].pc = label /\ publisher'[d].receipt = publisher[d].receipt
BY DEF Goto, TypeOK

\* What a call does to its own destination is what its position says next.
LEMMA OwnDestination ==
    ASSUME IInv, NEW d \in Destinations, Call(d)
    PROVE  Underway(d)'
<1>0. PICK p : p = publisher[d].receipt
  OBVIOUS
<1>1. /\ TypeOK /\ Underway(d) /\ receipts \subseteq Receipt
      /\ publisher \in [Destinations -> [pc : Labels, receipt : Receipt \cup {None}]]
      /\ file \in [Destinations -> File \cup {None}]
      /\ renamed \in [Destinations -> SUBSET Artifacts]
  BY DEF IInv, IntentBytesAcknowledgment, TypeOK, Labels
<1>2. /\ ~ At(d, "idle") => p \in Receipt /\ p.destination = d /\ p.artifact \in Artifacts
      /\ publisher[d].pc \in Labels \ {"idle", "planned"} => Stored(p) # {}
      /\ publisher[d].pc \in {"acknowledge", "done"} =>
            file[d] = Intact(p.artifact) /\ p.artifact \in renamed[d]
  BY <1>0, <1>1 DEF Underway, Receipt
<1>3. Return(d) => Underway(d)'
  <2>1. Return(d) => publisher'[d].pc = "idle"
    BY <1>1 DEF Return, Idle
  <2> QED BY <2>1, NothingUnderway DEF At
<1>4. ASSUME NEW q \in receipts, q.destination = d, Become(d, "inspect", q), UNCHANGED receipts
      PROVE  Underway(d)'
  <2>1. publisher'[d].pc = "inspect" /\ publisher'[d].receipt = q
    BY <1>1, <1>4 DEF Become
  <2>2. q \in Stored(q)' /\ q \in Receipt
    BY <1>1, <1>4 DEF Stored, Same
  <2>3. Stored(publisher[d].receipt)' # {}
    BY <2>1, <2>2 DEF Stored
  <2> QED BY <1>4, <2>1, <2>2, <2>3 DEF Underway, At
<1>5. ASSUME NEW from \in {"planned", "prepare again"}, NEW to \in {"inspect", "stage"},
             PrepareExportReceipt(d, from, to)
      PROVE  Underway(d)'
  <2>1. CASE SetReceipt(p, FALSE) /\ Goto(d, to)
    <3>1. p \in Receipt /\ p.destination = d
      BY <1>2, <1>5 DEF PrepareExportReceipt, At
    <3>2. publisher'[d].pc = to /\ publisher'[d].receipt = p
      BY <1>0, <1>1, <2>1, GoesOn DEF Labels
    <3>3. Stored(p)' # {}
      BY <1>1, <2>1, <3>1, ReceiptWritten
    <3>4. Stored(publisher[d].receipt)' # {}
      BY <3>2, <3>3 DEF Stored
    <3> QED BY <3>1, <3>2, <3>4 DEF Underway, At
  <2>2. CASE Return(d)
    BY <1>3, <2>2
  <2> QED BY <1>0, <1>5, <2>1, <2>2 DEF PrepareExportReceipt
<1>6. ASSUME NEW purpose \in Purposes, Scan(d, purpose) PROVE Underway(d)'
  <2> DEFINE n == [destination |-> d, artifact |-> Plan,
                   purpose |-> purpose, acknowledged |-> FALSE]
  <2>1. n \in Receipt /\ n.destination = d
    BY <1>1, PlanIsArtifact DEF Receipt
  <2> HIDE DEF n
  <2>2. Become(d, "planned", n)
    BY <1>6 DEF Scan, n
  <2>3. publisher'[d].pc = "planned" /\ publisher'[d].receipt = n
    BY <1>1, <2>2 DEF Become
  <2> QED BY <2>1, <2>3, NothingUnderway
<1>7. ASSUME NEW purpose \in Purposes, Recover(d, purpose) PROVE Underway(d)'
  <2>1. PICK q \in receipts : /\ Pending(d, purpose) = {q} /\ Become(d, "inspect", q)
                              /\ UNCHANGED receipts
    BY <1>7 DEF Recover, NoStorage
  <2>2. q.destination = d
    BY <2>1 DEF Pending
  <2> QED BY <1>4, <2>1, <2>2
<1>8. CASE ResumeExport(d)
  BY <1>4, <1>8 DEF ResumeExport, NoStorage
<1>9. CASE Prepare(d) \/ PrepareAgain(d)
  BY <1>5, <1>9 DEF Prepare, PrepareAgain
<1>10. CASE Inspect(d)
  <2>1. /\ At(d, "inspect") /\ receipts' = receipts /\ file' = file /\ renamed' = renamed
        /\ p \in Receipt /\ p.destination = d /\ Stored(p) # {}
    BY <1>2, <1>10 DEF Inspect, NoStorage, NoFiles, At, Labels
  <2>2. CASE Return(d)
    BY <1>3, <2>2
  <2>3. CASE Claims(d) /\ file[d].intact /\ Goto(d, "acknowledge")
    <3>1. file[d] = Intact(p.artifact) /\ p.artifact \in renamed[d]
      <4>1. file[d] \in File /\ file[d].artifact = p.artifact /\ file[d] # None
        BY <1>0, <1>1, <2>3 DEF Claims
      <4> QED BY <2>3, <4>1 DEF Intact, File, IInv, FileWasRenamed
    <3>2. publisher'[d].pc = "acknowledge" /\ publisher'[d].receipt = p
      BY <1>0, <1>1, <2>3, GoesOn DEF Labels
    <3>3. Stored(publisher[d].receipt)' # {}
      BY <2>1, <3>2 DEF Stored
    <3> QED BY <2>1, <3>1, <3>2, <3>3 DEF Underway, At
  <2>4. CASE Goto(d, "prepare again") \/ Goto(d, "stage")
    <3>1. publisher'[d].pc \in {"prepare again", "stage"} /\ publisher'[d].receipt = p
      BY <1>0, <1>1, <2>4, GoesOn DEF Labels
    <3>2. Stored(publisher[d].receipt)' # {}
      BY <2>1, <3>1 DEF Stored
    <3> QED BY <2>1, <3>1, <3>2 DEF Underway, At
  <2> QED BY <1>10, <2>2, <2>3, <2>4 DEF Inspect
<1>11. CASE Rename(d)
  <2>1. /\ At(d, "stage") /\ receipts' = receipts /\ Goto(d, "acknowledge")
        /\ p \in Receipt /\ p.destination = d /\ Stored(p) # {}
        /\ file' = [file EXCEPT ![d] = Intact(p.artifact)]
        /\ renamed' = [renamed EXCEPT ![d] = @ \cup {p.artifact}]
    BY <1>0, <1>2, <1>11 DEF Rename, NoStorage, At, Labels, Intact
  <2>2. file'[d] = Intact(p.artifact) /\ p.artifact \in renamed'[d]
    BY <1>1, <2>1
  <2>3. publisher'[d].pc = "acknowledge" /\ publisher'[d].receipt = p
    BY <1>0, <1>1, <2>1, GoesOn DEF Labels
  <2>4. Stored(publisher[d].receipt)' # {}
    BY <2>1, <2>3 DEF Stored
  <2> QED BY <2>1, <2>2, <2>3, <2>4 DEF Underway, At
<1>12. CASE AcknowledgeExport(d)
  <2>1. /\ At(d, "acknowledge") /\ file' = file /\ renamed' = renamed
        /\ p \in Receipt /\ p.destination = d
        /\ file[d] = Intact(p.artifact) /\ p.artifact \in renamed[d]
    BY <1>2, <1>12 DEF AcknowledgeExport, NoFiles, At
  <2>2. CASE Return(d)
    BY <1>3, <2>2
  <2>3. CASE Acknowledge(p) /\ Goto(d, "done")
    <3>1. publisher'[d].pc = "done" /\ publisher'[d].receipt = p
      BY <1>0, <1>1, <2>3, GoesOn DEF Labels
    <3>2. /\ \E q \in Stored(p)' : q.acknowledged
          /\ p.purpose = "engine" => \A r \in DOMAIN p.artifact : p.artifact \in Range(exports'[r])
      <4>1. CASE UNCHANGED <<receipts, exports>> /\ \E q \in Stored(p) : q.acknowledged
        <5>1. PICK q \in Stored(p) : q.acknowledged
          BY <4>1
        <5>2. q \in Stored(p)'
          BY <4>1, <5>1 DEF Stored
        <5>3. p.purpose = "engine" => Exported(p)
          BY <5>1 DEF IInv, AcknowledgedIsExported, Stored, Same, Exported
        <5> QED BY <4>1, <5>1, <5>2, <5>3 DEF Exported
      <4>2. CASE SetReceipt(p, TRUE) /\ (p.purpose = "engine" => Exported(p)')
        <5>1. [p EXCEPT !.acknowledged = TRUE] \in Stored(p)'
          BY <1>1, <2>1, <4>2, ReceiptWritten
        <5>2. [p EXCEPT !.acknowledged = TRUE].acknowledged
          BY <2>1 DEF Receipt
        <5> QED BY <4>2, <5>1, <5>2 DEF Exported
      <4> QED BY <1>1, <2>1, <2>3, <4>1, <4>2, Acknowledged
    <3>3. PICK q \in Stored(p)' : q.acknowledged
      BY <3>2
    <3>4. q \in Stored(publisher[d].receipt)'
      BY <3>1, <3>3 DEF Stored
    <3>5. \A r \in DOMAIN p.artifact : p.purpose = "engine" => p.artifact \in Range(exports'[r])
      BY <3>2
    <3>6. p.purpose = "engine" => Exported(publisher[d].receipt)'
      BY <3>1, <3>5 DEF Exported
    <3> QED BY <2>1, <3>1, <3>3, <3>4, <3>6 DEF Underway, At
  <2> QED BY <1>0, <1>12, <2>2, <2>3 DEF AcknowledgeExport
<1>13. CASE Done(d) \/ Fail(d) \/ LostAcknowledgment(d) \/ CrashAfterRename(d)
  BY <1>3, <1>13 DEF Done, Fail, LostAcknowledgment, CrashAfterRename
<1>14. CASE Disturb(d)
  <2>1. publisher' = publisher /\ At(d, "idle")
    BY <1>14 DEF Disturb
  <2> QED BY <2>1, NothingUnderway DEF At
<1> QED
  BY <1>6, <1>7, <1>8, <1>9, <1>10, <1>11, <1>12, <1>13, <1>14 DEF Call, Publish, FinishPublication

\* Where every publication is goes on to determine what of it is durable.
LEMMA UnderwayStep ==
    ASSUME IInv, [Next]_vars
    PROVE  \A d \in Destinations : Underway(d)'
<1>1. TypeOK
  BY DEF IInv, IntentBytesAcknowledgment
<1>2. CASE Quiet
  BY <1>2 DEF IInv, Underway, Quiet, At, Stored, Exported
<1>3. ASSUME NEW d \in Destinations, Call(d) PROVE \A e \in Destinations : Underway(e)'
  BY <1>1, <1>3, CallInvolves, OwnDestination, Elsewhere
<1>4. CASE UNCHANGED vars
  BY <1>2, <1>4 DEF vars, Quiet
<1>5. ASSUME NEW r \in RecordIds, Edit(r) PROVE Quiet
  BY <1>5 DEF Edit, NoFiles, Quiet
<1> QED BY <1>2, <1>3, <1>4, <1>5 DEF Next, Call

\* Nothing is published, prepared or exported when the store is opened first.
LEMMA InitIInv == Init => IInv
<1> SUFFICES ASSUME Init PROVE IInv
  OBVIOUS
<1>1. TypeOK
  <2>1. 0 \in 0 .. MaxEdits /\ 0 \in 0 .. MaxFaults
    BY PublicationAssumption
  <2>2. <<>> \in Seq(Artifacts)
    OBVIOUS
  <2> QED BY <2>1, <2>2 DEF Init, TypeOK, Idle
<1>2. \A d \in Destinations : renamed[d] = {} /\ file[d] = None /\ publisher[d].pc = "idle"
  BY DEF Init, Idle
<1>3. receipts = {} /\ \A r \in RecordIds : exports[r] = <<>> /\ DOMAIN exports[r] = {}
  BY DEF Init
<1> QED BY <1>1, <1>2, <1>3 DEF IInv, IntentBytesAcknowledgment, VisibleHasReceipt,
     AcknowledgedWasVisible, ExportedOnce, FileWasRenamed, AcknowledgedIsExported, Underway,
     At, Labels, Range

\* What a publication has made durable follows from where it is; every action, fault and
\* other caller keeps this.
THEOREM Invariance == Spec => []IInv
<1>1. IInv /\ [Next]_vars => IInv'
  <2> SUFFICES ASSUME IInv, [Next]_vars PROVE IInv'
    OBVIOUS
  <2>1. TypeOK'
    BY TypeStep DEF IInv, IntentBytesAcknowledgment
  <2> QED BY <2>1, OrderStep, FileStep, ExportStep, UnderwayStep
          DEF IInv, IntentBytesAcknowledgment
<1> QED BY InitIInv, <1>1, PTL DEF Spec

\* Whatever is visible at a destination has a durable receipt, success is reported of
\* durable bytes only, and a record is exported once for one artifact.
THEOREM Durable == Spec => []PublishedIsDurable
<1>1. IInv => PublishedIsDurable
  <2> SUFFICES ASSUME IInv, NEW d \in Destinations, At(d, "done")
               PROVE  LET p == publisher[d].receipt IN
                      /\ file[d] = [artifact |-> p.artifact, intact |-> TRUE]
                      /\ \E q \in receipts : Same(p, q) /\ q.acknowledged
                      /\ p.purpose = "engine" =>
                            \A r \in DOMAIN p.artifact : p.artifact \in Range(exports[r])
    BY DEF IInv, PublishedIsDurable, SuccessIsDurable
  <2>1. Underway(d)
    BY DEF IInv
  <2> QED BY <2>1 DEF Underway, At, Intact, Stored, Exported
<1> QED BY Invariance, <1>1, PTL

\* No step exports a record whose artifact is not what the store holds at that moment, of
\* that record and of every other member.
THEOREM ChangedIsNeverAcknowledged == Spec => NeverAcknowledgeChanged
<1> DEFINE Honest == \A r \in RecordIds : exports'[r] # exports[r] =>
              LET a == exports'[r][Len(exports'[r])] IN
              /\ \A m \in DOMAIN a : record[m] = a[m] /\ a \in Range(exports'[m])
              /\ record' = record
<1>1. ASSUME IInv, [Next]_vars, NEW r \in RecordIds, exports'[r] # exports[r]
      PROVE  LET a == exports'[r][Len(exports'[r])] IN
             /\ \A m \in DOMAIN a : record[m] = a[m] /\ a \in Range(exports'[m])
             /\ record' = record
  <2>1. TypeOK
    BY <1>1 DEF IInv, IntentBytesAcknowledgment
  <2>2. PICK d \in Destinations : Involves(d)
    BY <1>1, <2>1, OneDestination DEF Quiet
  <2>3. PICK p : p = publisher[d].receipt
    OBVIOUS
  <2>4. At(d, "acknowledge") /\ Unchanged(p.artifact) /\ Acknowledge(p) /\ record' = record
    BY <1>1, <2>2, <2>3 DEF Involves, Writes
  <2>5. p \in Receipt /\ p.artifact \in Artifacts
    BY <1>1, <2>3, <2>4 DEF IInv, Underway, At, Receipt
  <2>6. /\ exports'[r] = Append(exports[r], p.artifact)
        /\ exports' # exports /\ p.purpose = "engine"
    BY <1>1, <2>1, <2>4, <2>5, Acknowledged
  <2>7. Exported(p)'
    BY <2>1, <2>4, <2>5, <2>6, Acknowledged
  <2>8. exports[r] \in Seq(Artifacts)
    BY <2>1 DEF TypeOK
  <2>9. exports'[r][Len(exports'[r])] = p.artifact
    BY <2>5, <2>6, <2>8
  <2>10. \A m \in DOMAIN p.artifact :
            record[m] = p.artifact[m] /\ p.artifact \in Range(exports'[m])
    BY <2>4, <2>7 DEF Unchanged, Exported
  <2> QED BY <2>4, <2>9, <2>10
<1>2. IInv /\ [Next]_vars => [Honest]_vars
  BY <1>1
<1> QED BY Invariance, <1>2, PTL DEF Spec, NeverAcknowledgeChanged
=============================================================================

---------------------------- MODULE Panel_proofs -----------------------------
(***************************************************************************)
(* Proofs about what panels work with: the corpus of prior records         *)
(* (Priors), the import of references (References), and overlapping panels *)
(* (CachedPanel, whose theorems are those of CachedPanel_proofs), each for *)
(* every value of its constants, and then MCPanel, which composes them.    *)
(*                                                                         *)
(* CorpusInv says that one future rebuilds the corpus, of admitted records *)
(* it has not come to yet, and that whoever is settled is in the corpus or *)
(* on its way.  ImportInv is led by the write lock: the process inside a   *)
(* transaction is the only one, so what it has read is still so when it    *)
(* writes.                                                                 *)
(***************************************************************************)
EXTENDS MCPanel, SequenceTheorems, TLAPS

------------------------------------------------------------------------------
(* The corpus of prior records (Priors).                                   *)

\* The futures that rebuild the corpus.
Rebuilding == {r \in Records : prior_pc[r] \in Records \cup {"seeding"}}
\* A record is in the corpus.
InCorpus(x) == \E n \in DOMAIN all : all[n] = x

\* A future gates a record that was not generated yet, and adds one that was admitted.
Stages ==
    \A r \in Records :
        /\ prior_pc[r] \in Records \cup {"seeding", "primed", "exclude", "gate"}
           => stored[r] = "none"
        /\ prior_pc[r] \in {"append", "embed"} => stored[r] = "admitted"
        /\ prior_pc[r] \in {"primed", "exclude"} => cell = "full"

\* One future rebuilds the corpus, from the records that were admitted when it began.
Rebuilt ==
    /\ \A r, q \in Rebuilding : r = q
    /\ cell = "running" <=> Rebuilding # {}
    /\ left \subseteq Corpus!Admitted
    /\ \A r \in Records : prior_pc[r] \in Records => prior_pc[r] \in left

\* A rebuild that began and is over, without the cell being full, cancelled the launch.
Begun == cell = "empty" /\ began # {} => prior_cancelled

\* A corpus holds each record once, only admitted ones, and caches what is true of it.
Exact ==
    /\ \A n, k \in DOMAIN all : all[n] = all[k] => n = k
    /\ \A n \in DOMAIN all : all[n] \in Corpus!Admitted
    /\ \A i \in Corpus!Items : exclusions[i] \in {{}, Corpus!Positions(i)}

\* Whoever is settled is in the corpus, unless the rebuild has yet to come to it.
Covered(x) == \/ x \in skipped \/ x \in Corpus!Appending
              \/ cell = "running" /\ x \in left
              \/ InCorpus(x)
\* Whoever is settled is in the corpus, or on its way there.
Settled == cell # "empty" => \A x \in Corpus!Admitted : Covered(x)

\* The inductive invariant of the corpus.
CorpusInv == /\ Corpus!TypeOK /\ Stages /\ Rebuilt /\ Begun /\ Exact /\ Settled
             /\ Corpus!GatedAgainstSettled

\* Where a future may be, besides at a record it embeds.
Strings == {"idle", "seeding", "primed", "exclude", "gate", "append", "embed", "done", "failed"}

\* insert adds what is not there yet, and forgets what was cached of the shorter corpus.
LEMMA Insertion ==
    ASSUME Corpus!TypeOK, NEW x \in Records, Corpus!insert(x)
    PROVE  /\ all' \in Seq(Records) /\ exclusions' \in [Corpus!Items -> SUBSET Nat]
           /\ \/ UNCHANGED <<all, exclusions>> /\ InCorpus(x)
              \/ /\ ~ InCorpus(x) /\ Len(all') = Len(all) + 1
                 /\ \A n \in 1 .. Len(all) : all'[n] = all[n]
                 /\ all'[Len(all) + 1] = x
                 /\ exclusions' = [i \in Corpus!Items |-> {}]
<1>1. all \in Seq(Records) /\ exclusions \in [Corpus!Items -> SUBSET Nat]
  BY DEF Corpus!TypeOK
<1>2. Corpus!contains_record(x) <=> InCorpus(x)
  BY <1>1 DEF Corpus!contains_record, Corpus!Contains, InCorpus
<1>3. CASE Corpus!contains_record(x)
  BY <1>1, <1>2, <1>3 DEF Corpus!insert, Corpus!corpus
<1>4. CASE ~ Corpus!contains_record(x)
  <2>1. all' = Append(all, x) /\ exclusions' = [i \in Corpus!Items |-> {}]
    BY <1>4 DEF Corpus!insert
  <2>2. /\ all' \in Seq(Records) /\ Len(all') = Len(all) + 1
        /\ \A n \in 1 .. Len(all) : all'[n] = all[n]
        /\ all'[Len(all) + 1] = x
    BY <1>1, <2>1, AppendProperties
  <2> QED BY <1>2, <1>4, <2>1, <2>2
<1> QED BY <1>3, <1>4

\* An insertion leaves what is in the corpus where it is.
LEMMA InsertionGrows ==
    ASSUME Corpus!TypeOK, NEW x \in Records, Corpus!insert(x)
    PROVE  /\ InCorpus(x)'
           /\ \A y : InCorpus(y) => InCorpus(y)'
<1>1. all \in Seq(Records) /\ all' \in Seq(Records)
  BY Insertion DEF Corpus!TypeOK
<1>2. CASE UNCHANGED <<all, exclusions>> /\ InCorpus(x)
  BY <1>2 DEF InCorpus
<1>3. CASE /\ Len(all') = Len(all) + 1
           /\ \A n \in 1 .. Len(all) : all'[n] = all[n]
           /\ all'[Len(all) + 1] = x
  <2>1. Len(all) + 1 \in DOMAIN all'
    BY <1>1, <1>3
  <2>2. \A n \in DOMAIN all : n \in DOMAIN all' /\ all'[n] = all[n]
    BY <1>1, <1>3
  <2> QED BY <1>3, <2>1, <2>2 DEF InCorpus
<1> QED BY <1>2, <1>3, Insertion

\* An insertion keeps the corpus exact.
LEMMA InsertionExact ==
    ASSUME Corpus!TypeOK, Exact, NEW x \in Records, Corpus!insert(x), stored' = stored,
           stored[x] = "admitted"
    PROVE  Exact'
<1>1. all \in Seq(Records) /\ all' \in Seq(Records)
  BY Insertion DEF Corpus!TypeOK
<1>2. CASE UNCHANGED <<all, exclusions>>
  BY <1>2 DEF Exact, Corpus!Admitted, Corpus!Positions
<1>3. CASE /\ ~ InCorpus(x) /\ Len(all') = Len(all) + 1
           /\ \A n \in 1 .. Len(all) : all'[n] = all[n]
           /\ all'[Len(all) + 1] = x
           /\ exclusions' = [i \in Corpus!Items |-> {}]
  <2>1. DOMAIN all = 1 .. Len(all) /\ DOMAIN all' = 1 .. Len(all) + 1 /\ Len(all) \in Nat
    BY <1>1, <1>3
  <2>2. \A n \in DOMAIN all' : \/ n \in DOMAIN all /\ all'[n] = all[n] /\ all[n] # x
                               \/ n = Len(all) + 1 /\ all'[n] = x
    BY <1>3, <2>1 DEF InCorpus
  <2>3. ASSUME NEW n \in DOMAIN all', NEW k \in DOMAIN all', all'[n] = all'[k] PROVE n = k
    BY <2>2, <2>3 DEF Exact
  <2>4. ASSUME NEW n \in DOMAIN all' PROVE all'[n] \in Corpus!Admitted'
    BY <2>2 DEF Exact, Corpus!Admitted
  <2>5. \A i \in Corpus!Items : exclusions'[i] = {}
    BY <1>3
  <2> QED BY <2>3, <2>4, <2>5 DEF Exact
<1> QED BY <1>2, <1>3, Insertion

\* Every step keeps the shape of every variable of the corpus.
LEMMA PriorTypes ==
    ASSUME Corpus!PriorConstants, Corpus!TypeOK, Stages, Rebuilt, [Corpus!Next]_Corpus!vars
    PROVE  Corpus!TypeOK'
<1> USE DEF Corpus!TypeOK, Corpus!To, Corpus!corpus, Corpus!history
<1>1. ASSUME NEW r \in Records, Corpus!SeedStart(r) PROVE Corpus!TypeOK'
  BY <1>1 DEF Corpus!SeedStart, Corpus!Admitted
<1>2. ASSUME NEW r \in Records, Corpus!SeedNext(r) PROVE Corpus!TypeOK'
  BY <1>2 DEF Corpus!SeedNext, Corpus!SeedFails
<1>3. ASSUME NEW r \in Records, Corpus!SeedEmbedded(r) PROVE Corpus!TypeOK'
  <2>1. CASE Corpus!SeedFails(r)
    BY <2>1 DEF Corpus!SeedFails
  <2>2. CASE left' = left \ {prior_pc[r]} /\ Corpus!To(r, "seeding") /\ Corpus!insert(prior_pc[r])
             /\ UNCHANGED <<stored, cell, prior, prior_cancelled, known, skipped, began>>
    BY <1>3, <2>2, Insertion DEF Corpus!SeedEmbedded
  <2>3. CASE left' = left \ {prior_pc[r]} /\ Corpus!To(r, "seeding") /\ skipped' = skipped
               \cup {prior_pc[r]}
             /\ UNCHANGED <<stored, Corpus!corpus, cell, prior, prior_cancelled, known, began>>
    BY <1>3, <2>3 DEF Corpus!SeedEmbedded
  <2> QED BY <1>3, <2>1, <2>2, <2>3 DEF Corpus!SeedEmbedded
<1>4. ASSUME NEW r \in Records,
             Corpus!SeedDone(r) \/ Corpus!Primed(r) \/ Corpus!Gate(r) \/ Corpus!Admit(r)
               \/ Corpus!AppendRecord(r)
      PROVE Corpus!TypeOK'
  BY <1>4 DEF Corpus!SeedDone, Corpus!Primed, Corpus!Gate, Corpus!Admit, Corpus!AppendRecord
<1>5. ASSUME NEW r \in Records, Corpus!SnapshotAll(r) PROVE Corpus!TypeOK'
  <2>1. Corpus!Range(all) \in SUBSET Records
    BY DEF Corpus!Range
  <2>2. Corpus!Admitted \ (skipped \cup Corpus!Appending) \in SUBSET Records
    BY DEF Corpus!Admitted
  <2> QED BY <1>5, <2>1, <2>2 DEF Corpus!SnapshotAll, Corpus!Take
<1>6. ASSUME NEW r \in Records, Corpus!SnapshotExcluding(r) PROVE Corpus!TypeOK'
  <2>1. ASSUME NEW e PROVE Corpus!Filtered(e) \in SUBSET Records
    BY DEF Corpus!Filtered
  <2>2. Corpus!Admitted \ (skipped \cup Corpus!Appending) \in SUBSET Records
    BY DEF Corpus!Admitted
  <2>3. Corpus!Positions(ItemOf(r)) \in SUBSET Nat /\ ItemOf(r) \in Corpus!Items
    BY DEF Corpus!Positions, Corpus!Items
  <2> QED BY <1>6, <2>1, <2>2, <2>3 DEF Corpus!SnapshotExcluding, Corpus!Take
<1>7. ASSUME NEW r \in Records, Corpus!Appended(r) PROVE Corpus!TypeOK'
  <2>1. CASE Corpus!insert(r) /\ Corpus!To(r, "done")
               /\ UNCHANGED <<skipped, stored, cell, left, prior, prior_cancelled, known, began>>
    BY <2>1, Insertion
  <2>2. CASE /\ skipped' = skipped \cup {r} /\ prior_pc' \in {[prior_pc EXCEPT ![r] = "done"],
                                                     [prior_pc EXCEPT ![r] = "failed"]}
             /\ UNCHANGED <<Corpus!corpus, stored, cell, left, prior, prior_cancelled, known, began>>
    BY <2>2
  <2> QED BY <1>7, <2>1, <2>2 DEF Corpus!Appended
<1>8. CASE Corpus!Cancel
  BY <1>8 DEF Corpus!Cancel
<1>9. CASE UNCHANGED Corpus!vars
  BY <1>9 DEF Corpus!vars
<1> QED BY <1>1, <1>2, <1>3, <1>4, <1>5, <1>6, <1>7, <1>8, <1>9 DEF Corpus!Next, Corpus!Drive

\* A place is not a record.
LEMMA PlacesAreNoRecords ==
    ASSUME Corpus!PriorConstants PROVE \A s \in Strings : s \notin Records
BY DEF Corpus!PriorConstants, Strings

\* What is admitted stays so, and only a rebuild changes what the others wait for.
LEMMA AdmittedStays ==
    ASSUME Corpus!PriorConstants, Corpus!TypeOK, Stages, Rebuilt, [Corpus!Next]_Corpus!vars
    PROVE  /\ \A x \in Records : stored[x] = "admitted" => stored'[x] = "admitted"
           /\ Corpus!Admitted \subseteq Corpus!Admitted'
           /\ cell = "full" => cell' = "full"
<1> DEFINE Goal == /\ \A x \in Records : stored[x] = "admitted" => stored'[x] = "admitted"
                   /\ cell = "full" => cell' = "full"
<1> USE DEF Corpus!To
<1>0. \A s \in Strings : s \notin Records
  BY PlacesAreNoRecords
<1>1. ASSUME NEW r \in Records,
             Corpus!SeedStart(r) \/ Corpus!SeedNext(r) \/ Corpus!SeedEmbedded(r)
               \/ Corpus!SeedDone(r)
      PROVE  Goal
  <2>1. stored' = stored
    BY <1>1
       DEF Corpus!SeedStart, Corpus!SeedNext, Corpus!SeedEmbedded, Corpus!SeedDone, Corpus!SeedFails
  <2>2. Corpus!SeedStart(r) => cell = "empty"
    BY DEF Corpus!SeedStart
  <2>3. Corpus!SeedNext(r) \/ Corpus!SeedEmbedded(r) => cell = "running"
    BY DEF Corpus!SeedNext, Corpus!SeedEmbedded, Rebuilt, Rebuilding, Corpus!TypeOK
  <2>4. Corpus!SeedDone(r) => cell' = "full"
    BY DEF Corpus!SeedDone
  <2> QED BY <1>1, <2>1, <2>2, <2>3, <2>4
<1>2. ASSUME NEW r \in Records, Corpus!Gate(r) PROVE Goal
  BY <1>2 DEF Corpus!Gate, Corpus!TypeOK, Stages
<1>3. ASSUME NEW r \in Records, Corpus!Admit(r) PROVE Goal
  BY <1>3 DEF Corpus!Admit, Corpus!TypeOK
<1>4. ASSUME NEW r \in Records,
             Corpus!Primed(r) \/ Corpus!SnapshotAll(r) \/ Corpus!SnapshotExcluding(r)
               \/ Corpus!AppendRecord(r)
                                \/ Corpus!Appended(r)
      PROVE  Goal
  BY <1>4
     DEF Corpus!Primed, Corpus!SnapshotAll, Corpus!SnapshotExcluding, Corpus!AppendRecord,
         Corpus!Appended
<1>5. ASSUME Corpus!Cancel \/ UNCHANGED Corpus!vars PROVE Goal
  BY <1>5 DEF Corpus!Cancel, Corpus!vars
<1>6. Goal
  BY <1>1, <1>2, <1>3, <1>4, <1>5 DEF Corpus!Next, Corpus!Drive
<1> QED BY <1>6 DEF Corpus!Admitted

\* Every step keeps what is known of where a future is.
LEMMA StagesStep ==
    ASSUME Corpus!PriorConstants, Corpus!TypeOK, Stages, Rebuilt, [Corpus!Next]_Corpus!vars
    PROVE  Stages'
<1>0. \A s \in Strings : s \notin Records
  BY PlacesAreNoRecords
<1>1. cell = "full" => cell' = "full"
  BY AdmittedStays
<1> USE DEF Corpus!TypeOK, Corpus!To, Strings
<1>2. ASSUME NEW r \in Records, Corpus!SeedStart(r) PROVE Stages'
  BY <1>0, <1>1, <1>2 DEF Corpus!SeedStart, Stages
<1>3. ASSUME NEW r \in Records, Corpus!SeedNext(r) PROVE Stages'
  BY <1>0, <1>1, <1>3 DEF Corpus!SeedNext, Corpus!SeedFails, Stages
<1>4. ASSUME NEW r \in Records, Corpus!SeedEmbedded(r) PROVE Stages'
  BY <1>0, <1>1, <1>4 DEF Corpus!SeedEmbedded, Corpus!SeedFails, Stages
<1>5. ASSUME NEW r \in Records, Corpus!SeedDone(r) \/ Corpus!Primed(r) PROVE Stages'
  BY <1>0, <1>1, <1>5 DEF Corpus!SeedDone, Corpus!Primed, Stages
<1>6. ASSUME NEW r \in Records, Corpus!SnapshotAll(r) \/ Corpus!SnapshotExcluding(r) PROVE Stages'
  BY <1>0, <1>1, <1>6 DEF Corpus!SnapshotAll, Corpus!SnapshotExcluding, Corpus!Take, Stages
<1>7. ASSUME NEW r \in Records, Corpus!Gate(r) PROVE Stages'
  BY <1>0, <1>1, <1>7 DEF Corpus!Gate, Stages
<1>8. ASSUME NEW r \in Records, Corpus!Admit(r) PROVE Stages'
  BY <1>0, <1>1, <1>8 DEF Corpus!Admit, Stages
<1>9. ASSUME NEW r \in Records, Corpus!AppendRecord(r) PROVE Stages'
  BY <1>0, <1>1, <1>9 DEF Corpus!AppendRecord, Stages
<1>10. ASSUME NEW r \in Records, Corpus!Appended(r) PROVE Stages'
  BY <1>0, <1>1, <1>10 DEF Corpus!Appended, Stages
<1>11. CASE Corpus!Cancel \/ UNCHANGED Corpus!vars
  BY <1>11 DEF Corpus!Cancel, Corpus!vars, Stages
<1> QED BY <1>2, <1>3, <1>4, <1>5, <1>6, <1>7, <1>8, <1>9, <1>10, <1>11
           DEF Corpus!Next, Corpus!Drive

\* Every step keeps what is known of the rebuild.
LEMMA RebuiltStep ==
    ASSUME Corpus!PriorConstants, Corpus!TypeOK, Stages, Rebuilt, [Corpus!Next]_Corpus!vars
    PROVE  Rebuilt'
<1>0. \A s \in Strings : s \notin Records
  BY PlacesAreNoRecords
<1>1. Corpus!Admitted \subseteq Corpus!Admitted'
  BY AdmittedStays
<1> USE DEF Corpus!TypeOK, Corpus!To, Strings
\* A future that does not touch the rebuild.
<1>2. ASSUME NEW r \in Records, prior_pc[r] \notin Records \cup {"seeding"},
             NEW place \in Strings \ {"seeding"}, prior_pc' = [prior_pc EXCEPT ![r] = place],
             UNCHANGED <<cell, left>>
      PROVE  Rebuilt'
  <2>1. Rebuilding' = Rebuilding
    BY <1>0, <1>2 DEF Rebuilding
  <2> QED BY <1>0, <1>1, <1>2, <2>1 DEF Rebuilt
<1>3. ASSUME NEW r \in Records, Corpus!SeedStart(r) PROVE Rebuilt'
  <2>0. prior_pc[r] \notin Records \cup {"seeding"} /\ "failed" \in Strings \ {"seeding"}
    BY <1>0, <1>3 DEF Corpus!SeedStart
  <2>1. CASE prior_cancelled /\ Corpus!To(r, "failed") /\ UNCHANGED <<cell, left>>
    BY <1>2, <2>0, <2>1
  <2>2. CASE ~ prior_cancelled /\ Corpus!To(r, "seeding") /\ cell' = "running"
               /\ left' = Corpus!Admitted
    <3>1. Rebuilding = {}
      BY <1>3 DEF Corpus!SeedStart, Rebuilt
    <3>2. Rebuilding' = {r}
      BY <1>0, <2>2, <3>1 DEF Rebuilding
    <3>3. \A q \in Records : prior_pc'[q] \notin Records
      BY <1>0, <2>2, <3>1 DEF Rebuilding
    <3> QED BY <1>1, <2>2, <3>2, <3>3 DEF Rebuilt
  <2>3. CASE Corpus!To(r, "failed") /\ prior_cancelled' = TRUE /\ UNCHANGED <<cell, left>>
    BY <1>2, <2>0, <2>3
  <2> QED BY <1>3, <2>1, <2>2, <2>3 DEF Corpus!SeedStart
<1>4. ASSUME NEW r \in Rebuilding, Corpus!SeedFails(r) PROVE Rebuilt'
  <2>1. Rebuilding = {r}
    BY <1>4 DEF Rebuilt
  <2>2. Rebuilding' = {}
    BY <1>0, <1>4, <2>1 DEF Rebuilding, Corpus!SeedFails
  <2> QED BY <1>4, <2>2 DEF Rebuilt, Corpus!SeedFails, Rebuilding
<1>5. ASSUME NEW r \in Records, Corpus!SeedNext(r) PROVE Rebuilt'
  <2>1. r \in Rebuilding /\ Rebuilding = {r}
    BY <1>5 DEF Corpus!SeedNext, Rebuilding, Rebuilt
  <2>2. CASE prior_cancelled /\ Corpus!SeedFails(r)
    BY <1>4, <2>1, <2>2
  <2>3. ASSUME NEW x \in left, Corpus!contains_record(x), left' = left \ {x},
               UNCHANGED <<prior_pc, skipped>>,
               UNCHANGED <<stored, Corpus!corpus, cell, prior, prior_cancelled, known>>
        PROVE  Rebuilt'
    <3>1. \A q \in Records : prior_pc[q] \notin Records
      BY <1>0, <1>5, <2>1 DEF Corpus!SeedNext, Rebuilding
    <3>2. Rebuilding' = Rebuilding
      BY <2>3 DEF Rebuilding
    <3> QED BY <1>1, <2>3, <3>1, <3>2 DEF Rebuilt
  <2>4. ASSUME NEW x \in left, left' = left, Corpus!To(r, x), UNCHANGED skipped,
               UNCHANGED <<stored, Corpus!corpus, cell, prior, prior_cancelled, known>>
        PROVE  Rebuilt'
    <3>1. Rebuilding' = Rebuilding
      BY <2>1, <2>4 DEF Rebuilding
    <3>2. \A q \in Records : prior_pc'[q] \in Records => prior_pc'[q] \in left
      BY <2>4 DEF Rebuilt
    <3> QED BY <1>1, <2>4, <3>1, <3>2 DEF Rebuilt
  <2> QED BY <1>5, <2>2, <2>3, <2>4 DEF Corpus!SeedNext
<1>6. ASSUME NEW r \in Records, Corpus!SeedEmbedded(r) PROVE Rebuilt'
  <2>1. r \in Rebuilding /\ Rebuilding = {r}
    BY <1>6 DEF Corpus!SeedEmbedded, Rebuilding, Rebuilt
  <2>2. CASE Corpus!SeedFails(r)
    BY <1>4, <2>1, <2>2
  <2>3. CASE left' = left \ {prior_pc[r]} /\ Corpus!To(r, "seeding") /\ cell' = cell
    <3>1. Rebuilding' = Rebuilding
      BY <1>0, <2>1, <2>3 DEF Rebuilding
    <3>2. \A q \in Records : prior_pc'[q] \notin Records
      BY <1>0, <2>1, <2>3 DEF Rebuilding
    <3> QED BY <1>1, <2>3, <3>1, <3>2 DEF Rebuilt
  <2> QED BY <1>6, <2>2, <2>3 DEF Corpus!SeedEmbedded
<1>7. ASSUME NEW r \in Records, Corpus!SeedDone(r) PROVE Rebuilt'
  <2>1. r \in Rebuilding /\ Rebuilding = {r}
    BY <1>7 DEF Corpus!SeedDone, Rebuilding, Rebuilt
  <2>2. Rebuilding' = {}
    BY <1>0, <1>7, <2>1 DEF Corpus!SeedDone, Rebuilding
  <2>3. \A q \in Records : prior_pc'[q] \notin Records
    BY <2>2 DEF Rebuilding
  <2> QED BY <1>1, <1>7, <2>2, <2>3 DEF Rebuilt, Corpus!SeedDone
<1>8. ASSUME NEW r \in Records, Corpus!Primed(r) PROVE Rebuilt'
  BY <1>0, <1>2, <1>8 DEF Corpus!Primed
<1>9. ASSUME NEW r \in Records, Corpus!SnapshotAll(r) PROVE Rebuilt'
  BY <1>0, <1>2, <1>9 DEF Corpus!SnapshotAll, Corpus!Take
<1>10. ASSUME NEW r \in Records, Corpus!SnapshotExcluding(r) PROVE Rebuilt'
  BY <1>0, <1>2, <1>10 DEF Corpus!SnapshotExcluding, Corpus!Take
<1>11. ASSUME NEW r \in Records, Corpus!Gate(r) PROVE Rebuilt'
  BY <1>0, <1>2, <1>11 DEF Corpus!Gate
<1>12. ASSUME NEW r \in Records, Corpus!Admit(r) PROVE Rebuilt'
  BY <1>0, <1>2, <1>12 DEF Corpus!Admit
<1>13. ASSUME NEW r \in Records, Corpus!AppendRecord(r) PROVE Rebuilt'
  BY <1>0, <1>2, <1>13 DEF Corpus!AppendRecord
<1>14. ASSUME NEW r \in Records, Corpus!Appended(r) PROVE Rebuilt'
  <2>1. prior_pc[r] \notin Records \cup {"seeding"}
          /\ {"done", "failed"} \subseteq Strings \ {"seeding"}
    BY <1>0, <1>14 DEF Corpus!Appended
  <2>2. prior_pc' = [prior_pc EXCEPT ![r] = "done"] \/ prior_pc' = [prior_pc EXCEPT ![r] = "failed"]
    BY <1>14 DEF Corpus!Appended
  <2>3. UNCHANGED <<cell, left>>
    BY <1>14 DEF Corpus!Appended
  <2> QED BY <1>2, <2>1, <2>2, <2>3
<1>15. CASE Corpus!Cancel \/ UNCHANGED Corpus!vars
  BY <1>1, <1>15 DEF Corpus!Cancel, Corpus!vars, Rebuilt, Rebuilding
<1> QED BY <1>3, <1>5, <1>6, <1>7, <1>8, <1>9, <1>10, <1>11, <1>12, <1>13, <1>14, <1>15
        DEF Corpus!Next, Corpus!Drive

\* A rebuild gives the cell back only to a launch that is cancelled, which it stays.
LEMMA BegunStep ==
    ASSUME Begun, [Corpus!Next]_Corpus!vars
    PROVE  Begun' /\ Corpus!RebuildStep
<1> DEFINE Goal == Begun' /\ Corpus!RebuildStep
\* Only a future that finds the cell empty and the launch alive begins the rebuild.
<1>1. ASSUME NEW r \in Records, Corpus!SeedStart(r) PROVE Goal
  <2>1. cell = "empty"
    BY <1>1 DEF Corpus!SeedStart
  <2>2. CASE prior_cancelled /\ UNCHANGED <<cell, prior_cancelled, began>>
    BY <2>2 DEF Begun, Corpus!RebuildStep
  <2>3. CASE ~ prior_cancelled /\ cell' = "running"
    BY <2>1, <2>3 DEF Begun, Corpus!RebuildStep
  <2>4. CASE ~ prior_cancelled /\ prior_cancelled' = TRUE
    BY <2>1, <2>4 DEF Begun, Corpus!RebuildStep
  <2> QED BY <1>1, <2>2, <2>3, <2>4 DEF Corpus!SeedStart
<1>2. ASSUME NEW r \in Records, Corpus!SeedFails(r) PROVE Goal
  BY <1>2 DEF Corpus!SeedFails, Corpus!history, Begun, Corpus!RebuildStep
<1>3. ASSUME UNCHANGED <<cell, began>>, prior_cancelled => prior_cancelled' PROVE Goal
  BY <1>3 DEF Begun, Corpus!RebuildStep
<1>4. ASSUME NEW r \in Records, Corpus!SeedNext(r) \/ Corpus!SeedEmbedded(r) PROVE Goal
  BY <1>2, <1>3, <1>4 DEF Corpus!SeedNext, Corpus!SeedEmbedded
<1>5. ASSUME NEW r \in Records, Corpus!SeedDone(r) PROVE Goal
  BY <1>5 DEF Corpus!SeedDone, Corpus!history, Begun, Corpus!RebuildStep
<1>6. ASSUME NEW r \in Records,
             \/ Corpus!Primed(r) \/ Corpus!SnapshotAll(r) \/ Corpus!SnapshotExcluding(r)
             \/ Corpus!Gate(r) \/ Corpus!Admit(r) \/ Corpus!AppendRecord(r)
             \/ Corpus!Appended(r)
      PROVE  Goal
  <2>1. UNCHANGED <<cell, began, prior_cancelled>>
    BY <1>6 DEF Corpus!Primed, Corpus!SnapshotAll, Corpus!SnapshotExcluding, Corpus!Gate,
                Corpus!Admit, Corpus!AppendRecord, Corpus!Appended, Corpus!history
  <2> QED BY <1>3, <2>1
<1>7. CASE Corpus!Cancel \/ UNCHANGED Corpus!vars
  BY <1>3, <1>7 DEF Corpus!Cancel, Corpus!vars, Corpus!history
<1> QED BY <1>1, <1>4, <1>5, <1>6, <1>7 DEF Corpus!Next, Corpus!Drive

\* Every step keeps the corpus exact.
LEMMA ExactStep ==
    ASSUME Corpus!PriorConstants, Corpus!TypeOK, Stages, Rebuilt, Exact, [Corpus!Next]_Corpus!vars
    PROVE  Exact'
<1>1. Corpus!Admitted \subseteq Corpus!Admitted'
  BY AdmittedStays
<1>2. ASSUME UNCHANGED <<all, exclusions>> PROVE Exact'
  BY <1>1, <1>2 DEF Exact, Corpus!Positions
<1>3. ASSUME NEW r \in Records, Corpus!SeedEmbedded(r) PROVE Exact'
  <2>1. CASE Corpus!insert(prior_pc[r]) /\ stored' = stored
    <3>1. prior_pc[r] \in Records /\ stored[prior_pc[r]] = "admitted"
      BY <1>3 DEF Corpus!SeedEmbedded, Rebuilt, Corpus!Admitted
    <3> QED BY <2>1, <3>1, InsertionExact
  <2>2. CASE UNCHANGED Corpus!corpus
    BY <1>2, <2>2 DEF Corpus!corpus
  <2> QED BY <1>3, <2>1, <2>2 DEF Corpus!SeedEmbedded, Corpus!SeedFails
<1>4. ASSUME NEW r \in Records, Corpus!Appended(r) PROVE Exact'
  <2>1. CASE Corpus!insert(r) /\ stored' = stored
    <3>1. stored[r] = "admitted"
      BY <1>4 DEF Corpus!Appended, Stages
    <3> QED BY <2>1, <3>1, InsertionExact
  <2>2. CASE UNCHANGED Corpus!corpus
    BY <1>2, <2>2 DEF Corpus!corpus
  <2> QED BY <1>4, <2>1, <2>2 DEF Corpus!Appended
<1>5. ASSUME NEW r \in Records, Corpus!SnapshotExcluding(r) PROVE Exact'
  <2> DEFINE excluded == IF exclusions[ItemOf(r)] # {} THEN exclusions[ItemOf(r)]
                         ELSE Corpus!Positions(ItemOf(r))
  <2>1. ItemOf(r) \in Corpus!Items
    BY DEF Corpus!Items
  <2>2. excluded = Corpus!Positions(ItemOf(r))
    BY <2>1 DEF Exact
  <2>3. exclusions' = [exclusions EXCEPT ![ItemOf(r)] = excluded] /\ all' = all
    BY <1>5 DEF Corpus!SnapshotExcluding
  <2> HIDE DEF excluded
  <2>4. \A i \in Corpus!Items : Corpus!Positions(i)' = Corpus!Positions(i)
    BY <2>3 DEF Corpus!Positions
  <2>5. \A i \in Corpus!Items : exclusions'[i] \in {{}, Corpus!Positions(i)}
    BY <2>2, <2>3 DEF Exact, Corpus!TypeOK
  <2> QED BY <1>1, <2>3, <2>4, <2>5 DEF Exact
<1>6. ASSUME NEW r \in Records,
             \/ Corpus!Primed(r) \/ Corpus!SeedStart(r) \/ Corpus!SeedNext(r)
                \/ Corpus!SeedDone(r) \/ Corpus!SnapshotAll(r)
             \/ Corpus!Gate(r) \/ Corpus!Admit(r) \/ Corpus!AppendRecord(r)
      PROVE  UNCHANGED <<all, exclusions>>
  BY <1>6
     DEF Corpus!Primed, Corpus!SeedStart, Corpus!SeedNext, Corpus!SeedFails, Corpus!SeedDone,
         Corpus!SnapshotAll, Corpus!Gate, Corpus!Admit,
              Corpus!AppendRecord, Corpus!corpus
<1>7. CASE Corpus!Cancel \/ UNCHANGED Corpus!vars
  BY <1>2, <1>7 DEF Corpus!Cancel, Corpus!vars, Corpus!corpus
<1> QED BY <1>2, <1>3, <1>4, <1>5, <1>6, <1>7 DEF Corpus!Next, Corpus!Drive

\* Every step keeps the settled records in the corpus.
LEMMA SettledStep ==
    ASSUME Corpus!PriorConstants, Corpus!TypeOK, Stages, Rebuilt, Settled, [Corpus!Next]_Corpus!vars
    PROVE  Settled'
<1>0. \A s \in Strings : s \notin Records
  BY PlacesAreNoRecords
<1>1. cell # "empty" => \A x \in Corpus!Admitted : Covered(x)
  BY DEF Settled
<1>2. SUFFICES ASSUME cell' # "empty", NEW x \in Corpus!Admitted' PROVE Covered(x)'
  BY DEF Settled
<1>3. x \in Records /\ stored'[x] = "admitted"
  BY <1>2 DEF Corpus!Admitted
<1> USE DEF Corpus!To
\* What covered a record goes on covering it, or something else does.
<1>4. ASSUME cell # "empty", x \in Corpus!Admitted, skipped \subseteq skipped',
             x \in Corpus!Appending => Covered(x)',
             (cell = "running" /\ x \in left) => Covered(x)',
             InCorpus(x) => InCorpus(x)'
      PROVE  Covered(x)'
  <2>1. Covered(x)
    BY <1>1, <1>4
  <2>2. CASE x \in skipped
    BY <1>4, <2>2 DEF Covered
  <2>3. CASE InCorpus(x)
    BY <1>4, <2>3 DEF Covered
  <2> QED BY <1>4, <2>1, <2>2, <2>3 DEF Covered
\* The corpus is as it was.
<1>5. ASSUME cell # "empty", x \in Corpus!Admitted, skipped \subseteq skipped', all' = all,
             x \in Corpus!Appending => Covered(x)', (cell = "running" /\ x \in left) => Covered(x)'
      PROVE  Covered(x)'
  <2>1. InCorpus(x) => InCorpus(x)'
    BY <1>5 DEF InCorpus
  <2> QED BY <1>4, <1>5, <2>1
<1>6. ASSUME UNCHANGED <<stored, all, skipped, cell, left>>,
             x \in Corpus!Appending => x \in Corpus!Appending'
      PROVE  Covered(x)'
  <2>1. cell # "empty" /\ x \in Corpus!Admitted
    BY <1>2, <1>6 DEF Corpus!Admitted
  <2> QED BY <1>5, <1>6, <2>1 DEF Covered
<1>7. ASSUME NEW r \in Records,
             Corpus!Primed(r) \/ Corpus!SnapshotAll(r) \/ Corpus!SnapshotExcluding(r)
      PROVE  Covered(x)'
  <2>1. UNCHANGED <<stored, all, skipped, cell, left>>
    BY <1>7
       DEF Corpus!Primed, Corpus!SnapshotAll, Corpus!SnapshotExcluding, Corpus!Take, Corpus!corpus,
           Corpus!history
  <2>2. x \in Corpus!Appending => x \in Corpus!Appending'
    BY <1>7
       DEF Corpus!Primed, Corpus!SnapshotAll, Corpus!SnapshotExcluding, Corpus!Take,
           Corpus!Appending, Corpus!TypeOK
  <2> QED BY <1>6, <2>1, <2>2
<1>8. ASSUME NEW r \in Records, Corpus!SeedStart(r) PROVE Covered(x)'
  BY <1>2, <1>8 DEF Corpus!SeedStart, Corpus!Admitted, Covered
<1>9. ASSUME NEW r \in Records, Corpus!SeedNext(r) PROVE Covered(x)'
  <2>1. cell' = cell /\ cell = "running" /\ UNCHANGED <<stored, all, skipped>>
    BY <1>2, <1>9 DEF Corpus!SeedNext, Corpus!SeedFails, Rebuilt, Rebuilding, Corpus!corpus
  <2>2. x \in Corpus!Appending => x \in Corpus!Appending'
    BY <1>0, <1>2, <1>9
       DEF Corpus!SeedNext, Corpus!SeedFails, Corpus!Appending, Corpus!TypeOK, Strings
  <2>3. x \in left => x \in left' \/ InCorpus(x)
    BY <1>2, <1>9
       DEF Corpus!SeedNext, Corpus!SeedFails, Corpus!contains_record, Corpus!Contains, InCorpus,
           Corpus!TypeOK
  <2>4. InCorpus(x) => InCorpus(x)'
    BY <2>1 DEF InCorpus
  <2>5. x \in Corpus!Admitted
    BY <1>2, <2>1 DEF Corpus!Admitted
  <2> QED BY <1>4, <2>1, <2>2, <2>3, <2>4, <2>5 DEF Covered
<1>10. ASSUME NEW r \in Records, Corpus!SeedEmbedded(r) PROVE Covered(x)'
  <2>1. /\ cell' = cell /\ cell = "running" /\ stored' = stored
        /\ prior_pc' = [prior_pc EXCEPT ![r] = "seeding"] /\ left' = left \ {prior_pc[r]}
           /\ prior_pc[r] \in Records
    BY <1>2, <1>10 DEF Corpus!SeedEmbedded, Corpus!SeedFails, Rebuilt, Rebuilding
  <2>2. x \in Corpus!Appending => x \in Corpus!Appending'
    BY <1>0, <2>1 DEF Corpus!Appending, Corpus!TypeOK, Strings
  <2>3. x \in Corpus!Admitted
    BY <1>2, <2>1 DEF Corpus!Admitted
  <2>4. PICK y \in Records : y = prior_pc[r]
    BY <2>1
  <2>5. CASE Corpus!insert(prior_pc[r]) /\ skipped' = skipped
    <3>1. Corpus!insert(y)
      BY <2>4, <2>5
    <3>2. InCorpus(y)' /\ (InCorpus(x) => InCorpus(x)')
      BY <3>1, InsertionGrows
    <3>3. x \in left => x \in left' \/ x = y
      BY <2>1, <2>4
    <3> QED BY <1>4, <2>1, <2>2, <2>3, <2>5, <3>2, <3>3 DEF Covered
  <2>6. CASE skipped' = skipped \cup {prior_pc[r]} /\ UNCHANGED Corpus!corpus
    <3>1. x \in left => x \in left' \/ x \in skipped'
      BY <2>1, <2>6
    <3> QED BY <1>5, <2>1, <2>2, <2>3, <2>6, <3>1 DEF Covered, Corpus!corpus
  <2> QED BY <1>2, <1>10, <2>5, <2>6 DEF Corpus!SeedEmbedded, Corpus!SeedFails
<1>11. ASSUME NEW r \in Records, Corpus!SeedDone(r) PROVE Covered(x)'
  <2>1. cell = "running" /\ left = {} /\ UNCHANGED <<stored, all, skipped>>
    BY <1>11 DEF Corpus!SeedDone, Rebuilt, Rebuilding, Corpus!corpus, Corpus!history
  <2>2. x \in Corpus!Appending => x \in Corpus!Appending'
    BY <1>11 DEF Corpus!SeedDone, Corpus!Appending, Corpus!TypeOK
  <2>3. x \in Corpus!Admitted
    BY <1>2, <2>1 DEF Corpus!Admitted
  <2> QED BY <1>5, <2>1, <2>2, <2>3 DEF Covered
<1>12. ASSUME NEW r \in Records, Corpus!Gate(r) PROVE Covered(x)'
  <2>1. UNCHANGED <<all, skipped, cell, left>>
    BY <1>12 DEF Corpus!Gate, Corpus!corpus, Corpus!history
  <2>2. x \in Corpus!Appending => x \in Corpus!Appending'
    BY <1>12 DEF Corpus!Gate, Corpus!Appending, Corpus!TypeOK
  <2>3. x \in Corpus!Admitted
    BY <1>3, <1>12 DEF Corpus!Gate, Corpus!Admitted, Corpus!TypeOK
  <2> QED BY <1>2, <1>5, <2>1, <2>2, <2>3 DEF Covered
<1>13. ASSUME NEW r \in Records, Corpus!Admit(r) PROVE Covered(x)'
  <2>1. UNCHANGED <<all, skipped, cell, left>> /\ prior_pc[r] = "idle"
    BY <1>13 DEF Corpus!Admit, Corpus!corpus, Corpus!history
  <2>2. x \in Corpus!Appending => x \in Corpus!Appending'
    BY <1>13 DEF Corpus!Admit, Corpus!Appending, Corpus!TypeOK
  <2>3. x \in Corpus!Admitted \/ x \in Corpus!Appending'
    BY <1>3, <1>13 DEF Corpus!Admit, Corpus!Admitted, Corpus!Appending, Corpus!TypeOK
  <2> QED BY <1>2, <1>5, <2>1, <2>2, <2>3 DEF Covered
<1>14. ASSUME NEW r \in Records, Corpus!AppendRecord(r) PROVE Covered(x)'
  <2>1. UNCHANGED <<stored, all, skipped, cell, left>>
    BY <1>14 DEF Corpus!AppendRecord, Corpus!corpus, Corpus!history
  <2>2. x \in Corpus!Appending => x \in Corpus!Appending' \/ InCorpus(x)
    BY <1>14
       DEF Corpus!AppendRecord, Corpus!Appending, Corpus!TypeOK, Corpus!contains_record,
           Corpus!Contains, InCorpus
  <2>3. InCorpus(x) => InCorpus(x)'
    BY <2>1 DEF InCorpus
  <2>4. cell # "empty" /\ x \in Corpus!Admitted
    BY <1>2, <2>1 DEF Corpus!Admitted
  <2> QED BY <1>4, <2>1, <2>2, <2>3, <2>4 DEF Covered
<1>15. ASSUME NEW r \in Records, Corpus!Appended(r) PROVE Covered(x)'
  <2>1. UNCHANGED <<stored, cell, left>> /\ skipped \subseteq skipped'
    BY <1>15 DEF Corpus!Appended
  <2>2. x \in Corpus!Appending => x \in Corpus!Appending' \/ x = r
    BY <1>15 DEF Corpus!Appended, Corpus!Appending, Corpus!TypeOK
  <2>3. cell # "empty" /\ x \in Corpus!Admitted
    BY <1>2, <2>1 DEF Corpus!Admitted
  <2>4. CASE Corpus!insert(r) /\ skipped' = skipped
    <3>1. InCorpus(r)' /\ (InCorpus(x) => InCorpus(x)')
      BY <2>4, InsertionGrows
    <3> QED BY <1>4, <2>1, <2>2, <2>3, <3>1 DEF Covered
  <2>5. CASE skipped' = skipped \cup {r} /\ UNCHANGED Corpus!corpus
    BY <1>5, <2>1, <2>2, <2>3, <2>5 DEF Covered, Corpus!corpus
  <2> QED BY <1>15, <2>4, <2>5 DEF Corpus!Appended
<1>16. CASE Corpus!Cancel \/ UNCHANGED Corpus!vars
  <2>1. UNCHANGED <<stored, all, skipped, cell, left, prior_pc>>
    BY <1>16 DEF Corpus!Cancel, Corpus!vars, Corpus!corpus, Corpus!history
  <2> QED BY <1>6, <2>1 DEF Corpus!Appending
<1> QED BY <1>7, <1>8, <1>9, <1>10, <1>11, <1>12, <1>13, <1>14, <1>15, <1>16
           DEF Corpus!Next, Corpus!Drive

\* What a future gates against was exact when it took it, and is not touched since.
LEMMA GatedStep ==
    ASSUME Corpus!PriorConstants, CorpusInv, [Corpus!Next]_Corpus!vars
    PROVE  Corpus!GatedAgainstSettled'
<1>0. \A s \in Strings : s \notin Records
  BY PlacesAreNoRecords
<1> DEFINE Gated(r) == prior_pc[r] = "gate" =>
               /\ {x \in known[r] : ItemOf(x) # ItemOf(r)} \subseteq prior[r]
               /\ \A x \in prior[r] : ItemOf(x) # ItemOf(r)
<1>1. \A r \in Records : Gated(r)
  BY DEF CorpusInv, Corpus!GatedAgainstSettled
<1>2. SUFFICES ASSUME NEW q \in Records PROVE Gated(q)'
  BY DEF Corpus!GatedAgainstSettled
<1>3. ASSUME (prior_pc'[q] = "gate" => prior_pc[q] = "gate"), prior'[q] = prior[q],
             known'[q] = known[q]
      PROVE  Gated(q)'
  BY <1>1, <1>3
<1>4. ASSUME NEW r \in Records, NEW snapshot, Corpus!Take(r, snapshot),
             prior_pc[r] \in {"primed", "exclude"},
             {x \in Corpus!Range(all) : ItemOf(x) # ItemOf(r)} \subseteq snapshot,
             \A x \in snapshot : ItemOf(x) # ItemOf(r)
      PROVE  Gated(q)'
  <2>1. CASE q = r
    <3>1. cell = "full"
      BY <1>4 DEF CorpusInv, Stages
    <3>2. prior'[q] = snapshot /\ known'[q] = Corpus!Admitted \ (skipped \cup Corpus!Appending)
      BY <1>4, <2>1 DEF Corpus!Take, CorpusInv, Corpus!TypeOK
    <3>3. Corpus!Admitted \ (skipped \cup Corpus!Appending) \subseteq Corpus!Range(all)
      BY <3>1 DEF CorpusInv, Settled, Covered, InCorpus, Corpus!Range
    <3> QED BY <1>4, <2>1, <3>2, <3>3
  <2>2. CASE q # r
    BY <1>3, <1>4, <2>2 DEF Corpus!Take, Corpus!To, CorpusInv, Corpus!TypeOK
  <2> QED BY <2>1, <2>2
<1>5. ASSUME NEW r \in Records, Corpus!SnapshotAll(r) PROVE Gated(q)'
  <2>1. CASE Corpus!Positions(ItemOf(r)) = {}
    <3>1. Corpus!Take(r, Corpus!Range(all))
      BY <1>5, <2>1 DEF Corpus!SnapshotAll
    <3>2. \A x \in Corpus!Range(all) : ItemOf(x) # ItemOf(r)
      BY <2>1 DEF Corpus!Positions, Corpus!Range
    <3> QED BY <1>4, <1>5, <3>1, <3>2 DEF Corpus!SnapshotAll
  <2>2. CASE Corpus!Positions(ItemOf(r)) # {}
    BY <1>3, <1>5, <2>2 DEF Corpus!SnapshotAll, Corpus!To, CorpusInv, Corpus!TypeOK
  <2> QED BY <2>1, <2>2
<1>6. ASSUME NEW r \in Records, Corpus!SnapshotExcluding(r) PROVE Gated(q)'
  <2>1. ItemOf(r) \in Corpus!Items
    BY DEF Corpus!Items
  <2>2. Corpus!Take(r, Corpus!Filtered(Corpus!Positions(ItemOf(r))))
    BY <1>6, <2>1 DEF Corpus!SnapshotExcluding, CorpusInv, Exact
  <2>3. Corpus!Filtered(Corpus!Positions(ItemOf(r))) =
            {x \in Corpus!Range(all) : ItemOf(x) # ItemOf(r)}
    BY DEF Corpus!Filtered, Corpus!Positions, Corpus!Range
  <2> QED BY <1>4, <1>6, <2>2, <2>3 DEF Corpus!SnapshotExcluding
<1>7. ASSUME NEW r \in Records, Corpus!SeedStart(r) \/ Corpus!SeedDone(r) \/ Corpus!Primed(r)
      PROVE  Gated(q)'
  BY <1>3, <1>7
     DEF Corpus!SeedStart, Corpus!SeedDone, Corpus!Primed, Corpus!To, Corpus!history, CorpusInv,
         Corpus!TypeOK
<1>8. ASSUME NEW r \in Records, Corpus!SeedNext(r) PROVE Gated(q)'
  BY <1>0, <1>3, <1>8
     DEF Corpus!SeedNext, Corpus!SeedFails, Corpus!To, Corpus!history, CorpusInv, Corpus!TypeOK,
         Strings
<1>9. ASSUME NEW r \in Records, Corpus!SeedEmbedded(r) PROVE Gated(q)'
  BY <1>3, <1>9
     DEF Corpus!SeedEmbedded, Corpus!SeedFails, Corpus!To, Corpus!history, CorpusInv, Corpus!TypeOK
<1>10. ASSUME NEW r \in Records, Corpus!Gate(r) \/ Corpus!Admit(r) PROVE Gated(q)'
  BY <1>3, <1>10 DEF Corpus!Gate, Corpus!Admit, Corpus!To, Corpus!history, CorpusInv, Corpus!TypeOK
<1>11. ASSUME NEW r \in Records, Corpus!AppendRecord(r) \/ Corpus!Appended(r) PROVE Gated(q)'
  BY <1>3, <1>11
     DEF Corpus!AppendRecord, Corpus!Appended, Corpus!To, Corpus!history, CorpusInv, Corpus!TypeOK
<1>12. CASE Corpus!Cancel \/ UNCHANGED Corpus!vars
  BY <1>3, <1>12 DEF Corpus!Cancel, Corpus!vars, Corpus!history
<1> QED BY <1>5, <1>6, <1>7, <1>8, <1>9, <1>10, <1>11, <1>12
           DEF Corpus!Next, Corpus!Drive, CorpusInv

\* The corpus, its rebuild and its futures agree, for any records and items.
THEOREM CorpusInvariance == ASSUME Corpus!PriorConstants PROVE Corpus!Spec => []CorpusInv
<1>1. Corpus!Init => CorpusInv
  <2> SUFFICES ASSUME Corpus!Init PROVE CorpusInv
    OBVIOUS
  <2>0. \A s \in Strings : s \notin Records
    BY PlacesAreNoRecords
  <2>1. all = <<>> /\ all \in Seq(Records)
    BY EmptySeq DEF Corpus!Init
  <2>2. Corpus!TypeOK
    BY <2>1 DEF Corpus!Init, Corpus!TypeOK
  <2>3. Stages /\ Settled /\ Corpus!GatedAgainstSettled
    BY <2>0 DEF Corpus!Init, Stages, Settled, Corpus!GatedAgainstSettled, Strings
  <2>4. Rebuilt /\ Begun
    BY <2>0 DEF Corpus!Init, Rebuilt, Rebuilding, Begun, Strings
  <2>5. Exact
    BY <2>1 DEF Corpus!Init, Exact
  <2> QED BY <2>2, <2>3, <2>4, <2>5 DEF CorpusInv
<1>2. CorpusInv /\ [Corpus!Next]_Corpus!vars => CorpusInv'
  BY PriorTypes, StagesStep, RebuiltStep, BegunStep, ExactStep, SettledStep, GatedStep DEF CorpusInv
<1> QED BY <1>1, <1>2, PTL DEF Corpus!Spec

\* The corpus holds each admitted record once, and a record is gated against all that are settled
\* but its siblings (PriorCorpus, seed_priors, append).
THEOREM Exactness == ASSUME Corpus!PriorConstants
    PROVE  Corpus!Spec => [](Corpus!CorpusExact /\ Corpus!GatedAgainstSettled)
<1>1. CorpusInv => Corpus!CorpusExact /\ Corpus!GatedAgainstSettled
  <2> SUFFICES ASSUME CorpusInv PROVE Corpus!CorpusExact
    BY DEF CorpusInv
  <2>1. Corpus!Range(all) \subseteq Corpus!Admitted
    BY DEF CorpusInv, Exact, Corpus!Range
  <2>2. cell = "running" <=> \E r \in Records : prior_pc[r] \in Records \cup {"seeding"}
    BY DEF CorpusInv, Rebuilt, Rebuilding
  <2> QED BY <2>1, <2>2 DEF CorpusInv, Exact, Corpus!CorpusExact
<1> QED BY <1>1, CorpusInvariance, PTL

\* The corpus of a launch is rebuilt once, whether that fails or not (attempts.rs).
THEOREM NeverRebuiltAgain == ASSUME Corpus!PriorConstants
    PROVE  Corpus!Spec => Corpus!RebuiltOnce
<1>1. CorpusInv /\ [Corpus!Next]_Corpus!vars => [Corpus!RebuildStep]_Corpus!vars
  BY BegunStep DEF CorpusInv
<1> QED BY <1>1, CorpusInvariance, PTL DEF Corpus!Spec, Corpus!RebuiltOnce

------------------------------------------------------------------------------
(* The import of references (References).                                  *)

\* Where a process is inside a transaction, and where it may be at all.
Inside == {"admission", "current", "prepared"}
Places == Inside \cup {"idle", "observe", "begin", "done"}

\* BEGIN IMMEDIATE: one process at most is inside a transaction.
Locked == \A p \in Importers : import[p].pc \in Inside <=> writer = p

\* Where an import is determines what it has seen and what it writes.
Importing(p) ==
    /\ Import!At(p, "observe") => Len(import[p].seen) <= Size
    /\ import[p].pc \in Inside \cup {"begin"} => Len(import[p].seen) = Size
    /\ Import!At(p, "admission") => Len(tx) <= Size
    /\ Import!At(p, "current") => batch # None
    /\ Import!At(p, "prepared") => batch = None /\ Len(tx) = Size
    /\ import[p].pc \in Inside \cup {"observe", "begin"} => registered

\* A batch was committed by an attempt that was made, and not by one under way.
Numbered ==
    /\ committer # None <=> batch # None
    /\ committer # None => committer[2] <= tries[committer[1]]
    /\ \A p \in Importers : import[p].pc \in Inside \cup {"observe", "begin"} =>
                                committer # <<p, tries[p]>>

\* Only a catalogue that validates is registered, and only one registered is imported.
Validated == /\ registered => Import!validate(capture)
             /\ batch # None => registered

\* The inductive invariant of the import.
ImportInv == /\ Import!TypeOK /\ Locked /\ Numbered /\ Validated
             /\ Import!WholeOrNothing /\ Import!ImportAnswers
             /\ \A p \in Importers : Importing(p)

-----------------------------------------------------------------------------
(* What a step can do                                                      *)

\* A step of process p, which another process is not moved by.
Own(p) == \/ Import!Observe(p) \/ Import!BeginCommit(p) \/ Import!Admit(p)
          \/ Import!Rollback(p) \/ Import!Commit(p)
          \/ Import!Cancel(p) \/ Import!Restart(p) \/ \E fresh \in BOOLEAN : Import!Lookup(p, fresh)

\* The other processes stay as they are.
Others(p) == \A q \in Importers \ {p} : import'[q] = import[q] /\ tries'[q] = tries[q]

\* A step is of one process, registers the catalogue or moves a committed reference on.
LEMMA Steps ==
    ASSUME [Import!Next]_Import!vars
    PROVE  \/ UNCHANGED Import!vars
           \/ Import!Register
           \/ \E m \in Import!Members : Import!Advance(m)
           \/ \E p \in Importers : Own(p)
BY DEF Import!Next, Import!Run, Own

\* A process moves only itself.
LEMMA OwnMovesItself ==
    ASSUME Import!TypeOK, NEW p \in Importers, Own(p)
    PROVE  Others(p) /\ UNCHANGED <<capture, registered>>
<1>1. DOMAIN import = Importers /\ DOMAIN tries = Importers
  BY DEF Import!TypeOK
<1>2. Others(p)
  BY <1>1
     DEF Own, Others, Import!Observe, Import!BeginCommit, Import!Admit, Import!Rollback,
         Import!Commit, Import!Cancel, Import!Restart, Import!Lookup,
              Import!Answer, Import!Goto
<1> QED BY <1>2
           DEF Own, Import!Observe, Import!BeginCommit, Import!Admit, Import!Rollback,
               Import!Commit, Import!Cancel, Import!Restart, Import!Lookup,
                    Import!db

\* The database changes only when a process that is prepared commits.
LEMMA OnlyPreparedWrites ==
    ASSUME NEW p \in Importers, Own(p)
    PROVE  \/ UNCHANGED <<batch, life, committer>>
           \/ Import!At(p, "prepared") /\ Import!Write(p)
BY DEF Own, Import!Observe, Import!BeginCommit, Import!Admit, Import!Rollback, Import!Commit,
       Import!Cancel, Import!Restart, Import!Lookup, Import!db

\* What a process may answer, and what is known of it.
Answers == {"error", "already", "cancelled", "applied"}
Process == [pc : Places, fresh : BOOLEAN, seen : Seq(Import!Evidence), cancelled : BOOLEAN,
            answer : Answers \cup {None}]

\* Each process is one of these.
LEMMA ProcessType ==
    Import!TypeOK => import \in [Importers -> Process] /\ tries \in [Importers -> 0 .. 2]
BY DEF Import!TypeOK, Process, Places, Inside, Answers

\* What a command starts with or ends with at once.
LEMMA IdleProcess ==
    /\ Import!Idle \in Process
    /\ [Import!Idle EXCEPT !.pc = "done", !.answer = "error"] \in Process
    /\ [Import!Idle EXCEPT !.pc = "done", !.answer = "already"] \in Process
    /\ \A fresh \in BOOLEAN : [Import!Idle EXCEPT !.pc = "observe", !.fresh = fresh] \in Process
<1>1. <<>> \in Seq(Import!Evidence)
  OBVIOUS
<1> QED BY <1>1 DEF Import!Idle, Process, Places, Inside, Answers

\* A process goes on or answers.
LEMMA ProcessMoves ==
    \A i \in Process :
        /\ \A place \in Places : [i EXCEPT !.pc = place] \in Process
        /\ \A a \in Answers : [i EXCEPT !.pc = "done", !.answer = a] \in Process
BY DEF Process, Places

\* Every step keeps the shape of every variable.
LEMMA TypeStep == Import!TypeOK /\ Locked /\ (\A p \in Importers : Importing(p))
  /\ [Import!Next]_Import!vars => Import!TypeOK'
<1> SUFFICES ASSUME Import!TypeOK, Locked, \A p \in Importers : Importing(p),
                    [Import!Next]_Import!vars
             PROVE  Import!TypeOK'
  OBVIOUS
<1>1. CASE UNCHANGED Import!vars
  BY <1>1 DEF Import!vars, Import!TypeOK
<1>2. CASE Import!Register
  BY <1>2 DEF Import!Register, Import!TypeOK
<1>3. ASSUME NEW m \in Import!Members, Import!Advance(m) PROVE Import!TypeOK'
  BY <1>3 DEF Import!Advance, Import!TypeOK
<1>4. ASSUME NEW p \in Importers, Own(p) PROVE Import!TypeOK'
  <2>1. import \in [Importers -> Process] /\ tries \in [Importers -> 0 .. 2]
    BY ProcessType
  <2>2. import[p] \in Process /\ Import!Idle \in Process
    BY <2>1, IdleProcess
  <2>3. import' \in [Importers -> Process]
    <3>1. \A to \in Process : [import EXCEPT ![p] = to] \in [Importers -> Process]
      BY <2>1
    <3>2. ASSUME NEW place \in Places, Import!Goto(p, place)
          PROVE  import' \in [Importers -> Process]
      <4>1. import' = [import EXCEPT ![p] = [import[p] EXCEPT !.pc = place]]
        BY <2>1, <3>2 DEF Import!Goto
      <4> QED BY <2>2, <3>1, <4>1, ProcessMoves
    <3>3. ASSUME NEW a \in Answers, Import!Answer(p, a) PROVE import' \in [Importers -> Process]
      <4>1. import' = [import EXCEPT ![p] = [import[p] EXCEPT !.pc = "done", !.answer = a]]
        BY <2>1, <3>3 DEF Import!Answer
      <4> QED BY <2>2, <3>1, <4>1, ProcessMoves
    <3>4. CASE Import!Observe(p)
      <4>1. <<p, tries[p]>> \in Import!Evidence
        BY <2>1 DEF Import!Evidence
      <4>2. Append(import[p].seen, <<p, tries[p]>>) \in Seq(Import!Evidence)
        BY <2>2, <4>1 DEF Process
      <4>3. ASSUME import' = [import EXCEPT ![p].seen = Append(@, <<p, tries[p]>>)]
            PROVE  import' \in [Importers -> Process]
        <5>1. import' = [import EXCEPT ![p] =
                            [import[p] EXCEPT !.seen = Append(import[p].seen, <<p, tries[p]>>)]]
          BY <2>1, <4>3
        <5>2. \A x \in Seq(Import!Evidence) : [import[p] EXCEPT !.seen = x] \in Process
          BY <2>2 DEF Process
        <5> QED BY <3>1, <4>2, <5>1, <5>2
      <4> QED BY <3>2, <3>3, <3>4, <4>3 DEF Import!Observe, Places, Inside, Answers
    <3>5. CASE Import!BeginCommit(p) \/ Import!Rollback(p)
      BY <3>2, <3>3, <3>5 DEF Import!BeginCommit, Import!Rollback, Places, Inside, Answers
    <3>6. CASE Import!Admit(p)
      BY <2>1, <3>2, <3>6 DEF Import!Admit, Places, Inside
    <3>7. CASE Import!Commit(p)
      BY <3>3, <3>7 DEF Import!Commit, Import!Answer, Answers
    <3>8. CASE Import!Cancel(p)
      <4>1. import' = [import EXCEPT ![p] = [import[p] EXCEPT !.cancelled = TRUE]]
        BY <2>1, <3>8 DEF Import!Cancel
      <4>2. [import[p] EXCEPT !.cancelled = TRUE] \in Process
        BY <2>2 DEF Process
      <4> QED BY <3>1, <4>1, <4>2
    <3>9. CASE Import!Restart(p)
      BY <2>2, <3>1, <3>9 DEF Import!Restart
    <3>10. ASSUME NEW fresh \in BOOLEAN, Import!Lookup(p, fresh)
           PROVE  import' \in [Importers -> Process]
      BY <3>1, <3>10, IdleProcess DEF Import!Lookup
    <3> QED BY <1>4, <3>4, <3>5, <3>6, <3>7, <3>8, <3>9, <3>10 DEF Own
  <2>4. tries' \in [Importers -> 0 .. 2]
    <3>1. CASE tries' = tries
      BY <2>1, <3>1
    <3>2. CASE tries' # tries
      <4>1. tries[p] < 2 /\ tries' = [tries EXCEPT ![p] = @ + 1]
        BY <1>4, <3>2
           DEF Own, Import!Observe, Import!BeginCommit, Import!Admit, Import!Rollback,
               Import!Commit, Import!Cancel, Import!Restart,
                          Import!Lookup
      <4>2. tries[p] + 1 \in 0 .. 2
        BY <2>1, <4>1
      <4> QED BY <2>1, <4>1, <4>2
    <3> QED BY <3>1, <3>2
  <2>5. writer' \in Importers \cup {None}
    BY <1>4
       DEF Own, Import!Observe, Import!BeginCommit, Import!Admit, Import!Rollback, Import!Commit,
           Import!Cancel, Import!Restart, Import!Lookup,
                Import!Write, Import!Release, Import!TypeOK
  <2>6. tx' \in Seq(Import!Evidence)
    <3>1. CASE tx' = tx \/ tx' = <<>>
      <4>1. <<>> \in Seq(Import!Evidence) /\ tx \in Seq(Import!Evidence)
        BY DEF Import!TypeOK
      <4> QED BY <3>1, <4>1
    <3>2. CASE tx' # tx /\ tx' # <<>>
      <4>1. Import!Admit(p)
        BY <1>4, <3>2
           DEF Own, Import!Observe, Import!BeginCommit, Import!Rollback, Import!Commit,
               Import!Cancel, Import!Restart, Import!Lookup,
                          Import!Write, Import!Release
      <4>2. Len(tx) < Size /\ tx' = Append(tx, import[p].seen[Len(tx) + 1])
            /\ Import!At(p, "admission")
        BY <3>2, <4>1 DEF Import!Admit
      <4>3. Len(import[p].seen) = Size /\ import[p].seen \in Seq(Import!Evidence)
              /\ tx \in Seq(Import!Evidence)
        BY <2>2, <4>2 DEF Importing, Import!At, Inside, Import!TypeOK, Process
      <4>4. import[p].seen[Len(tx) + 1] \in Import!Evidence
        BY <4>2, <4>3
      <4> QED BY <4>2, <4>3, <4>4
    <3> QED BY <3>1, <3>2
  <2>7. /\ batch' \in Seq(Import!Evidence) \cup {None} /\ committer' \in Import!Evidence \cup {None}
        /\ life' \in [Import!Members -> {None, "admitted", "rejected", "exported"}]
    <3>1. CASE UNCHANGED <<batch, life, committer>>
      BY <3>1 DEF Import!TypeOK
    <3>2. CASE Import!Write(p)
      <4>1. <<p, tries[p]>> \in Import!Evidence
        BY <2>1 DEF Import!Evidence
      <4> QED BY <3>2, <4>1 DEF Import!Write, Import!TypeOK
    <3> QED BY <1>4, <3>1, <3>2, OnlyPreparedWrites
  <2> QED BY <1>4, <2>3, <2>4, <2>5, <2>6, <2>7, OwnMovesItself DEF Import!TypeOK, Process, Places,
                                                                   Inside, Answers
<1> QED BY <1>1, <1>2, <1>3, <1>4, Steps

-----------------------------------------------------------------------------
(* The transaction                                                         *)

\* The lock is taken and given back with the transaction.
LEMMA LockStep ==
    ASSUME Import!TypeOK, Locked, Import!ReferenceConstants, [Import!Next]_Import!vars
    PROVE  Locked'
<1>0. None \notin Importers
  BY DEF Import!ReferenceConstants
<1>1. CASE UNCHANGED Import!vars \/ Import!Register \/ \E m \in Import!Members : Import!Advance(m)
  BY <1>1 DEF Import!vars, Import!Register, Import!Advance, Locked
<1>2. ASSUME NEW p \in Importers, Own(p) PROVE Locked'
  <2>1. import \in [Importers -> Process] /\ Others(p)
    BY <1>2, ProcessType, OwnMovesItself
  <2>2. import[p] \in Process
    BY <2>1
  <2>3. ASSUME import'[p].pc \in Inside <=> writer' = p,
               \A q \in Importers \ {p} : writer' = q <=> writer = q
        PROVE  Locked'
    BY <2>1, <2>3 DEF Locked, Others
  <2>4. CASE Import!Observe(p) \/ Import!Cancel(p) \/ \E fresh \in BOOLEAN : Import!Lookup(p, fresh)
    <3>1. writer' = writer
      BY <2>4 DEF Import!Observe, Import!Cancel, Import!Lookup
    <3>2. import'[p].pc \in Inside <=> import[p].pc \in Inside
      <4>1. CASE Import!Observe(p)
        BY <2>1, <2>2, <4>1
           DEF Import!Observe, Import!Answer, Import!Goto, Import!At, Inside, Process
      <4>2. CASE Import!Cancel(p)
        BY <2>1, <2>2, <4>2 DEF Import!Cancel, Process
      <4>3. ASSUME NEW fresh \in BOOLEAN, Import!Lookup(p, fresh)
            PROVE  import'[p].pc \in Inside <=> import[p].pc \in Inside
        BY <2>1, <4>3 DEF Import!Lookup, Import!Idle, Import!At, Inside
      <4> QED BY <2>4, <4>1, <4>2, <4>3
    <3> QED BY <2>3, <3>1, <3>2 DEF Locked
  <2>5. CASE Import!BeginCommit(p)
    <3>1. \/ import'[p].pc = "done" /\ writer' = writer
          \/ import'[p].pc = "admission" /\ writer = None /\ writer' = p
      BY <2>1, <2>2, <2>5 DEF Import!BeginCommit, Import!Answer, Import!Goto, Process
    <3>2. import[p].pc \notin Inside
      BY <2>5 DEF Import!BeginCommit, Import!At, Inside
    <3> QED BY <1>0, <2>3, <3>1, <3>2 DEF Locked, Inside
  <2>6. CASE Import!Admit(p)
    <3>1. import'[p].pc \in Inside /\ import[p].pc \in Inside /\ writer' = writer
      BY <2>1, <2>2, <2>6 DEF Import!Admit, Import!Goto, Import!At, Inside, Process
    <3> QED BY <2>3, <3>1 DEF Locked
  <2>7. CASE Import!Rollback(p) \/ Import!Commit(p)
    <3>1. import'[p].pc = "done" /\ import[p].pc \in Inside /\ writer' = None
      BY <2>1, <2>2, <2>7
         DEF Import!Rollback, Import!Commit, Import!Write, Import!Release, Import!Answer,
             Import!At, Inside, Process
    <3> QED BY <1>0, <2>3, <3>1 DEF Locked, Inside
  <2>8. CASE Import!Restart(p)
    <3>1. import'[p].pc = "idle" /\ writer' = IF writer = p THEN None ELSE writer
      BY <2>1, <2>8 DEF Import!Restart, Import!Release, Import!Idle
    <3> QED BY <1>0, <2>3, <3>1 DEF Locked, Inside
  <2> QED BY <1>2, <2>4, <2>5, <2>6, <2>7, <2>8 DEF Own
<1> QED BY <1>1, <1>2, Steps

\* What the others may rely on: nobody but the holder of the lock changes a transaction or
\* the batch.
LEMMA OthersFrame ==
    ASSUME Import!TypeOK, Locked, Import!ReferenceConstants, NEW p \in Importers, Own(p),
           NEW q \in Importers, q # p, import[q].pc \in Inside
    PROVE  UNCHANGED <<tx, batch, life, committer>>
<1>1. writer = q /\ q # None /\ import[p].pc \notin Inside
  BY DEF Locked, Import!ReferenceConstants
<1>2. UNCHANGED <<batch, life, committer>>
  BY <1>1, OnlyPreparedWrites DEF Import!At, Inside
<1>3. tx' = tx
  BY <1>1
     DEF Own, Import!Observe, Import!BeginCommit, Import!Admit, Import!Rollback, Import!Commit,
         Import!Cancel, Import!Restart, Import!Lookup,
              Import!At, Inside
<1> QED BY <1>2, <1>3

\* Every process keeps to its course: what it has seen, what its transaction holds.
LEMMA ImportingStep ==
    ASSUME Import!TypeOK, Locked, Import!ReferenceConstants, \A p \in Importers : Importing(p),
           [Import!Next]_Import!vars
    PROVE  \A p \in Importers : Importing(p)'
<1>0. None \notin Importers /\ None \notin Seq(Import!Evidence) /\ Size \in Nat
  BY DEF Import!ReferenceConstants
<1>1. CASE UNCHANGED Import!vars \/ Import!Register \/ \E m \in Import!Members : Import!Advance(m)
  BY <1>1 DEF Import!vars, Import!Register, Import!Advance, Importing, Import!At
<1>2. ASSUME NEW p \in Importers, Own(p), NEW q \in Importers PROVE Importing(q)'
  <2>1. /\ import \in [Importers -> Process] /\ Others(p) /\ UNCHANGED <<capture, registered>>
        /\ tx \in Seq(Import!Evidence)
    BY <1>2, ProcessType, OwnMovesItself DEF Import!TypeOK
  <2>2. import[p] \in Process /\ import[p].seen \in Seq(Import!Evidence)
          /\ Len(import[p].seen) \in Nat
        /\ Len(tx) \in Nat
    BY <2>1 DEF Process
  <2>3. CASE q # p
    <3>1. import'[q] = import[q] /\ Importing(q)
      BY <2>1, <2>3 DEF Others
    <3>2. CASE import[q].pc \in Inside
      <4>1. UNCHANGED <<tx, batch>>
        BY <1>2, <2>3, <3>2, OthersFrame
      <4> QED BY <2>1, <3>1, <4>1 DEF Importing, Import!At
    <3>3. CASE import[q].pc \notin Inside
      BY <2>1, <3>1, <3>3 DEF Importing, Import!At, Inside
    <3> QED BY <3>2, <3>3
  <2>4. CASE q = p
    <3>1. Importing(p)
      OBVIOUS
    <3>2. CASE Import!Observe(p)
      <4>1. \A e \in Import!Evidence : Len(Append(import[p].seen, e)) = Len(import[p].seen) + 1
        BY <2>2
      <4>2. <<p, tries[p]>> \in Import!Evidence
        BY ProcessType DEF Import!Evidence
      <4>3. registered /\ Import!At(p, "observe")
        BY <3>1, <3>2 DEF Import!Observe, Importing, Import!At
      <4>4. \/ import'[p].pc = "done"
            \/ /\ import'[p].pc = "observe" /\ Len(import[p].seen) < Size
               /\ import'[p].seen = Append(import[p].seen, <<p, tries[p]>>)
            \/ /\ import'[p].pc = "begin" /\ Len(import[p].seen) = Size
               /\ import'[p].seen = import[p].seen
        BY <2>1, <2>2, <3>2 DEF Import!Observe, Import!Answer, Import!Goto, Import!At, Process
      <4>5. import'[p].pc = "observe" => Len(import'[p].seen) <= Size
        BY <1>0, <2>2, <4>1, <4>2, <4>4
      <4> QED BY <2>1, <2>4, <4>3, <4>4, <4>5 DEF Importing, Import!At, Inside
    <3>3. CASE Import!BeginCommit(p)
      <4>1. \/ import'[p].pc = "done"
            \/ import'[p].pc = "admission" /\ tx' = <<>> /\ import'[p].seen = import[p].seen
        BY <2>1, <2>2, <3>3 DEF Import!BeginCommit, Import!Answer, Import!Goto, Process
      <4>2. registered /\ Len(import[p].seen) = Size
        BY <3>1, <3>3 DEF Import!BeginCommit, Importing, Import!At
      <4> QED BY <1>0, <2>1, <2>4, <4>1, <4>2 DEF Importing, Import!At, Inside
    <3>4. CASE Import!Admit(p)
      <4>1. registered /\ Len(import[p].seen) = Size /\ Len(tx) <= Size
        BY <3>1, <3>4 DEF Import!Admit, Importing, Import!At, Inside
      <4>2. import'[p].seen = import[p].seen /\ batch' = batch
            /\ \/ import'[p].pc = "current" /\ batch # None
               \/ /\ import'[p].pc = "admission" /\ Len(tx) < Size
                  /\ tx' = Append(tx, import[p].seen[Len(tx) + 1])
               \/ import'[p].pc = "prepared" /\ batch = None /\ ~ Len(tx) < Size /\ tx' = tx
        BY <2>1, <2>2, <3>4 DEF Import!Admit, Import!Goto, Import!At, Process, Import!db
      <4>3. Len(tx) < Size => Len(Append(tx, import[p].seen[Len(tx) + 1])) = Len(tx) + 1
        <5>1. Len(tx) < Size => import[p].seen[Len(tx) + 1] \in Import!Evidence
          BY <1>0, <2>2, <4>1
        <5> QED BY <2>1, <5>1
      <4> QED BY <1>0, <2>1, <2>2, <2>4, <4>1, <4>2, <4>3 DEF Importing, Import!At, Inside
    <3>5. CASE Import!Rollback(p) \/ Import!Commit(p)
      <4>1. import'[p].pc = "done"
        BY <2>1, <2>2, <3>5 DEF Import!Rollback, Import!Commit, Import!Answer, Process
      <4> QED BY <2>4, <4>1 DEF Importing, Import!At, Inside
    <3>6. CASE Import!Cancel(p)
      <4>1. import'[p].pc = import[p].pc /\ import'[p].seen = import[p].seen
            /\ UNCHANGED <<tx, batch>>
        BY <2>1, <2>2, <3>6 DEF Import!Cancel, Process, Import!db
      <4> QED BY <2>1, <2>4, <3>1, <4>1 DEF Importing, Import!At
    <3>7. CASE Import!Restart(p)
      <4>1. import'[p].pc = "idle"
        BY <2>1, <3>7 DEF Import!Restart, Import!Idle
      <4> QED BY <2>4, <4>1 DEF Importing, Import!At, Inside
    <3>8. ASSUME NEW fresh \in BOOLEAN, Import!Lookup(p, fresh) PROVE Importing(q)'
      <4>1. \/ import'[p].pc = "done"
            \/ import'[p].pc = "observe" /\ import'[p].seen = <<>> /\ registered
        BY <2>1, <3>8 DEF Import!Lookup, Import!Idle
      <4> QED BY <1>0, <2>1, <2>4, <4>1 DEF Importing, Import!At, Inside
    <3> QED BY <1>2, <3>2, <3>3, <3>4, <3>5, <3>6, <3>7, <3>8 DEF Own
  <2> QED BY <2>3, <2>4
<1> QED BY <1>1, <1>2, Steps

-----------------------------------------------------------------------------
(* The batch                                                               *)

\* What is committed, and by whom, in the two ways a step leaves it.
LEMMA BatchStep ==
    ASSUME Import!TypeOK, Import!ReferenceConstants, \A p \in Importers : Importing(p),
           NEW p \in Importers,
           Own(p)
    PROVE  \/ UNCHANGED <<batch, life, committer>>
           \/ /\ batch = None /\ registered /\ Importing(p) /\ Import!At(p, "prepared")
              /\ batch' = tx /\ tx # None /\ DOMAIN tx = Import!Members
              /\ committer' = <<p, tries[p]>> /\ committer' # None
              /\ life' = [m \in Import!Members |-> IF m \in Import!Train THEN "admitted" ELSE None]
              /\ import'[p].pc = "done" /\ tries' = tries
<1>1. CASE UNCHANGED <<batch, life, committer>>
  BY <1>1
<1>2. CASE Import!At(p, "prepared") /\ Import!Write(p)
  <2>1. batch = None /\ Len(tx) = Size /\ registered /\ tx \in Seq(Import!Evidence)
    BY <1>2 DEF Importing, Import!At, Inside, Import!TypeOK
  <2>2. DOMAIN tx = Import!Members /\ tx # None /\ Import!Train \subseteq Import!Members
    BY <2>1 DEF Import!Members, Import!ReferenceConstants, Import!Train
  <2>3. import \in [Importers -> Process] /\ tries \in [Importers -> 0 .. 2]
    BY ProcessType
  <2>4. <<p, tries[p]>> \in Import!Evidence
    BY <2>3 DEF Import!Evidence
  <2>5. <<p, tries[p]>> # None
    BY <2>4 DEF Import!ReferenceConstants
  <2>6. life' = [m \in Import!Members |-> IF m \in Import!Train THEN "admitted" ELSE None]
    BY <1>2, <2>2 DEF Import!Write
  <2>7. UNCHANGED <<batch, life, committer>> \/ (import'[p].pc = "done" /\ tries' = tries)
    <3>1. CASE Import!Commit(p)
      <4>1. import[p] \in Process
        BY <2>3
      <4> QED BY <1>2, <2>3, <3>1, <4>1
                 DEF Import!Commit, Import!Answer, Import!Write, Import!At, Process
    <3>2. CASE Import!Cancel(p) \/ Import!Restart(p)
                 \/ \E fresh \in BOOLEAN : Import!Lookup(p, fresh)
      BY <3>2 DEF Import!Cancel, Import!Restart, Import!Lookup, Import!db
    <3> QED BY <1>2, <3>1, <3>2
               DEF Own, Import!Observe, Import!BeginCommit, Import!Admit, Import!Rollback, Import!At
  <2> QED BY <1>2, <2>1, <2>2, <2>5, <2>6, <2>7 DEF Import!Write
<1> QED BY <1>1, <1>2, OnlyPreparedWrites

\* The attempt that committed is one that was made and is over.
LEMMA NumberedStep ==
    ASSUME Import!TypeOK, Numbered, Import!ReferenceConstants, \A p \in Importers : Importing(p),
           [Import!Next]_Import!vars
    PROVE  Numbered'
<1>1. CASE UNCHANGED Import!vars \/ Import!Register \/ \E m \in Import!Members : Import!Advance(m)
  BY <1>1 DEF Import!vars, Import!Register, Import!Advance, Numbered
<1>2. ASSUME NEW p \in Importers, Own(p) PROVE Numbered'
  <2>1. import \in [Importers -> Process] /\ tries \in [Importers -> 0 .. 2] /\ Others(p)
    BY <1>2, ProcessType, OwnMovesItself
  <2>2. import[p] \in Process /\ tries[p] \in Nat
    BY <2>1
  <2>3. CASE UNCHANGED <<batch, life, committer>>
    <3>1. \/ tries' = tries /\ (import'[p].pc \in Inside \cup {"observe", "begin"} =>
                                    import[p].pc \in Inside \cup {"observe", "begin"})
          \/ tries'[p] = tries[p] + 1
      <4>1. CASE Import!Observe(p) \/ Import!BeginCommit(p)
        BY <2>1, <2>2, <4>1
           DEF Import!Observe, Import!BeginCommit, Import!Answer, Import!Goto, Import!At, Inside,
               Process
      <4>2. CASE Import!Admit(p) \/ Import!Rollback(p) \/ Import!Commit(p)
        BY <2>1, <2>2, <4>2
           DEF Import!Admit, Import!Rollback, Import!Commit, Import!Answer, Import!Goto, Import!At,
               Inside, Process
      <4>3. CASE Import!Cancel(p) \/ Import!Restart(p)
        BY <2>1, <2>2, <4>3 DEF Import!Cancel, Import!Restart, Import!Idle, Inside, Process
      <4>4. CASE \E fresh \in BOOLEAN : Import!Lookup(p, fresh)
        BY <2>1, <4>4 DEF Import!Lookup
      <4> QED BY <1>2, <4>1, <4>2, <4>3, <4>4 DEF Own
    <3>2. committer # None => committer[1] \in Importers /\ committer[2] \in Nat
      BY DEF Import!TypeOK, Import!Evidence
    <3>3. \A q \in Importers : tries[q] \in Nat /\ tries'[q] \in Nat /\ tries[q] <= tries'[q]
      BY <2>1, <2>2, <3>1 DEF Others
    <3>4. committer' # None <=> batch' # None
      BY <2>3 DEF Numbered
    <3>5. committer' # None => committer'[2] <= tries'[committer'[1]]
      <4>1. committer # None => committer[2] <= tries[committer[1]]
        BY DEF Numbered
      <4> QED BY <2>3, <3>2, <3>3, <4>1
    <3>6. ASSUME NEW q \in Importers, import'[q].pc \in Inside \cup {"observe", "begin"},
                 committer' = <<q, tries'[q]>>
          PROVE  FALSE
      <4>0. committer = <<q, tries'[q]>>
        BY <2>3, <3>6
      <4>1. CASE import'[q] = import[q] /\ tries'[q] = tries[q]
        BY <3>6, <4>0, <4>1 DEF Numbered
      <4>2. q # p => import'[q] = import[q] /\ tries'[q] = tries[q]
        BY <2>1 DEF Others
      <4>3. CASE q = p /\ tries'[p] = tries[p] + 1
        <5>1. tries'[p] \in Nat /\ committer \in Import!Evidence
          <6>1. <<p, tries'[p]>> \in Import!Evidence
            BY <2>2, <4>3 DEF Import!Evidence
          <6> QED BY <2>2, <4>0, <4>3, <6>1
        <5>2. committer # None
          BY <5>1 DEF Import!ReferenceConstants
        <5>3. committer[2] <= tries[committer[1]]
          BY <5>2 DEF Numbered
        <5>4. committer[1] = p /\ committer[2] = tries[p] + 1
          BY <4>0, <4>3
        <5> QED BY <2>2, <5>3, <5>4
      <4>4. CASE q = p /\ tries' = tries
        <5>1. tries'[p] # tries[p] + 1
          BY <2>2, <4>4
        <5>2. import[p].pc \in Inside \cup {"observe", "begin"}
          BY <3>1, <3>6, <4>4, <5>1
        <5> QED BY <4>0, <4>4, <5>2 DEF Numbered
      <4> QED BY <3>1, <4>1, <4>2, <4>3, <4>4
    <3> QED BY <3>4, <3>5, <3>6 DEF Numbered
  <2>4. CASE /\ batch' = tx /\ tx # None /\ committer' = <<p, tries[p]>> /\ committer' # None
             /\ import'[p].pc = "done" /\ tries' = tries
    <3>1. committer'[2] <= tries'[committer'[1]]
      BY <2>2, <2>4
    <3>2. \A q \in Importers : q # p => committer' # <<q, tries'[q]>>
      BY <2>4
    <3> QED BY <2>4, <3>1, <3>2 DEF Numbered, Inside
  <2> QED BY <1>2, <2>3, <2>4, BatchStep
<1> QED BY <1>1, <1>2, Steps

\* Nothing is registered or committed of a catalogue that does not validate.
LEMMA ValidatedStep ==
    ASSUME Import!TypeOK, Validated, Import!ReferenceConstants, \A p \in Importers : Importing(p),
           [Import!Next]_Import!vars
    PROVE  Validated'
<1>1. CASE UNCHANGED Import!vars \/ Import!Register \/ \E m \in Import!Members : Import!Advance(m)
  BY <1>1 DEF Import!vars, Import!Register, Import!Advance, Validated, Import!validate
<1>2. ASSUME NEW p \in Importers, Own(p) PROVE Validated'
  <2>1. UNCHANGED <<capture, registered>>
    BY <1>2, OwnMovesItself
  <2>2. batch' = batch \/ registered
    BY <1>2, BatchStep
  <2> QED BY <2>1, <2>2 DEF Validated, Import!validate
<1> QED BY <1>1, <1>2, Steps

\* A committed batch stays, and a batch is committed whole.
LEMMA WholeStep ==
    ASSUME Import!TypeOK, Import!WholeOrNothing, Import!ReferenceConstants,
           \A p \in Importers : Importing(p),
           [Import!Next]_Import!vars
    PROVE  Import!WholeOrNothing' /\ (batch # None => batch' = batch) /\ capture' = capture
<1>1. CASE UNCHANGED Import!vars \/ Import!Register
  BY <1>1 DEF Import!vars, Import!Register, Import!WholeOrNothing, Import!Whole, Import!Train
<1>2. ASSUME NEW m \in Import!Members, Import!Advance(m)
      PROVE  Import!WholeOrNothing' /\ batch' = batch /\ capture' = capture
  <2>1. Import!Whole /\ life[m] # None /\ UNCHANGED <<batch, capture>>
    BY <1>2 DEF Import!Advance, Import!WholeOrNothing
  <2>2. PICK to \in {"rejected", "exported"} : life' = [life EXCEPT ![m] = to]
    BY <1>2 DEF Import!Advance
  <2>3. to # None
    BY DEF Import!ReferenceConstants
  <2>4. \A n \in Import!Members : life'[n] # None <=> life[n] # None
    BY <2>1, <2>2, <2>3 DEF Import!TypeOK
  <2> QED BY <2>1, <2>4 DEF Import!WholeOrNothing, Import!Whole, Import!Train
<1>3. ASSUME NEW p \in Importers, Own(p)
      PROVE  Import!WholeOrNothing' /\ (batch # None => batch' = batch) /\ capture' = capture
  <2>1. capture' = capture
    BY <1>3, OwnMovesItself
  <2>2. CASE UNCHANGED <<batch, life, committer>>
    BY <2>1, <2>2 DEF Import!WholeOrNothing, Import!Whole, Import!Train
  <2>3. CASE /\ batch = None /\ batch' = tx /\ tx # None /\ DOMAIN tx = Import!Members
             /\ life' = [m \in Import!Members |-> IF m \in Import!Train THEN "admitted" ELSE None]
    <3>1. "admitted" # None
      BY DEF Import!ReferenceConstants
    <3>2. \A m \in Import!Members : life'[m] # None <=> m \in Import!Train
      BY <2>3, <3>1
    <3>3. Import!Train' = Import!Train
      BY <2>1 DEF Import!Train
    <3> QED BY <2>1, <2>3, <3>2, <3>3 DEF Import!WholeOrNothing, Import!Whole
  <2> QED BY <1>3, <2>1, <2>2, <2>3, BatchStep
<1> QED BY <1>1, <1>2, <1>3, Steps

-----------------------------------------------------------------------------
(* The answers                                                             *)

\* The answer of process p is true.
Truthful(p) ==
    /\ import[p].answer = "applied" => committer = <<p, tries[p]>>
    /\ import[p].answer = "already" => Import!Whole /\ committer # <<p, tries[p]>>
    /\ import[p].answer = "cancelled" => committer # <<p, tries[p]>>

\* Every step keeps the answers that were given true, and gives a true one.
LEMMA AnswersStep ==
    ASSUME Import!TypeOK, Numbered, Import!WholeOrNothing, Import!ImportAnswers,
           Import!ReferenceConstants,
           \A p \in Importers : Importing(p), [Import!Next]_Import!vars
    PROVE  Import!ImportAnswers'
<1>1. ASSUME \A q \in Importers : Import!At(q, "done")' => Truthful(q)'
      PROVE  Import!ImportAnswers'
  BY <1>1 DEF Import!ImportAnswers, Truthful
<1>2. \A q \in Importers : Import!At(q, "done") => Truthful(q)
  BY DEF Import!ImportAnswers, Truthful
<1>3. /\ Import!Whole => Import!Whole'
      /\ batch # None => Import!Whole /\ Import!Whole'
  BY WholeStep DEF Import!WholeOrNothing, Import!Whole
<1>4. CASE UNCHANGED Import!vars \/ Import!Register \/ \E m \in Import!Members : Import!Advance(m)
  BY <1>1, <1>2, <1>3, <1>4 DEF Import!vars, Import!Register, Import!Advance, Truthful, Import!At
<1>5. ASSUME NEW p \in Importers, Own(p), NEW q \in Importers, Import!At(q, "done")'
      PROVE  Truthful(q)'
  <2>1. import \in [Importers -> Process] /\ tries \in [Importers -> 0 .. 2] /\ Others(p)
    BY <1>5, ProcessType, OwnMovesItself
  <2>2. import[p] \in Process /\ tries[p] \in Nat
    BY <2>1
  <2>3. \/ committer' = committer
        \/ batch = None /\ committer' = <<p, tries[p]>>
    BY <1>5, BatchStep
  <2>4. CASE q # p
    <3>1. import'[q] = import[q] /\ tries'[q] = tries[q] /\ Truthful(q)
      BY <1>2, <1>5, <2>1, <2>4 DEF Others, Import!At
    <3>2. committer = <<q, tries[q]>> => committer' = committer
      <4>1. <<q, tries[q]>> \in Import!Evidence
        BY <2>1 DEF Import!Evidence
      <4>2. <<q, tries[q]>> # None
        BY <4>1 DEF Import!ReferenceConstants
      <4> QED BY <2>3, <4>2 DEF Numbered
    <3>3. committer # <<q, tries[q]>> => committer' # <<q, tries[q]>>
      BY <2>3, <2>4
    <3> QED BY <1>3, <3>1, <3>2, <3>3 DEF Truthful
  <2>5. CASE q = p
    <3>1. import'[p].pc = "done"
      BY <1>5, <2>5 DEF Import!At
    <3>2. import[p].pc \in Inside \cup {"observe", "begin"} => committer # <<p, tries[p]>>
      BY DEF Numbered
    <3>3. CASE Import!Observe(p)
      <4>1. import'[p].answer = "error"
        BY <2>1, <2>2, <3>1, <3>3 DEF Import!Observe, Import!Answer, Import!Goto, Import!At, Process
      <4> QED BY <2>5, <4>1 DEF Truthful
    <3>4. CASE Import!BeginCommit(p)
      <4>1. import'[p].answer \in {"cancelled", "error"} /\ UNCHANGED <<tries, committer>>
        BY <2>1, <2>2, <3>1, <3>4
           DEF Import!BeginCommit, Import!Answer, Import!Goto, Process, Import!db
      <4> QED BY <2>5, <3>2, <3>4, <4>1 DEF Truthful, Import!BeginCommit, Import!At
    <3>5. CASE Import!Admit(p)
      BY <2>1, <2>2, <3>1, <3>5 DEF Import!Admit, Import!Goto, Import!At, Process
    <3>6. CASE Import!Rollback(p)
      <4>1. import'[p].answer = "cancelled" /\ UNCHANGED <<tries, committer>>
        BY <2>1, <2>2, <3>6 DEF Import!Rollback, Import!Answer, Process, Import!db
      <4> QED BY <2>5, <3>2, <3>6, <4>1 DEF Truthful, Import!Rollback, Import!At, Inside
    <3>7. CASE Import!Commit(p)
      <4>1. CASE Import!At(p, "current")
        <5>1. import'[p].answer = "already" /\ UNCHANGED <<tries, committer>>
          BY <2>1, <2>2, <3>7, <4>1 DEF Import!Commit, Import!Answer, Import!At, Process, Import!db
        <5>2. batch # None
          BY <4>1 DEF Importing
        <5> QED BY <1>3, <2>5, <3>2, <4>1, <5>1, <5>2 DEF Truthful, Import!At, Inside
      <4>2. CASE Import!At(p, "prepared")
        <5>1. \/ import'[p].answer = "error"
              \/ import'[p].answer = "applied" /\ committer' = <<p, tries[p]>>
                 /\ tries' = tries
          BY <2>1, <2>2, <3>7, <4>2
             DEF Import!Commit, Import!Answer, Import!Write, Import!At, Process
        <5> QED BY <2>5, <5>1 DEF Truthful
      <4> QED BY <3>7, <4>1, <4>2 DEF Import!Commit
    <3>8. CASE Import!Cancel(p)
      <4>1. import'[p].pc = import[p].pc
        BY <2>1, <2>2, <3>8 DEF Import!Cancel, Process
      <4> QED BY <3>1, <3>8, <4>1 DEF Import!Cancel, Import!At
    <3>9. CASE Import!Restart(p)
      BY <2>1, <3>1, <3>9 DEF Import!Restart, Import!Idle
    <3>10. ASSUME NEW fresh \in BOOLEAN, Import!Lookup(p, fresh) PROVE Truthful(q)'
      <4>1. /\ tries'[p] = tries[p] + 1 /\ UNCHANGED <<batch, committer>>
            /\ \/ import'[p].answer = "error"
               \/ import'[p].answer = "already" /\ batch # None
        BY <2>1, <3>1, <3>10 DEF Import!Lookup, Import!Idle, Import!db
      <4>2. committer # <<p, tries'[p]>>
        <5>1. SUFFICES ASSUME committer = <<p, tries'[p]>> PROVE FALSE
          OBVIOUS
        <5>2. <<p, tries'[p]>> \in Import!Evidence
          BY <2>2, <4>1 DEF Import!Evidence
        <5>3. committer # None
          BY <5>1, <5>2 DEF Import!ReferenceConstants
        <5>4. committer[2] <= tries[committer[1]]
          BY <5>3 DEF Numbered
        <5> QED BY <2>2, <4>1, <5>1, <5>4
      <4> QED BY <1>3, <2>5, <4>1, <4>2 DEF Truthful
    <3> QED BY <1>5, <3>3, <3>4, <3>5, <3>6, <3>7, <3>8, <3>9, <3>10 DEF Own
  <2> QED BY <2>4, <2>5
<1> QED BY <1>1, <1>4, <1>5, Steps

-----------------------------------------------------------------------------
(* The theorems                                                            *)

\* Nothing is registered, imported or committed at first.
LEMMA InitIsFine == Import!ReferenceConstants /\ Import!Init => ImportInv
<1> SUFFICES ASSUME Import!ReferenceConstants, Import!Init PROVE ImportInv
  OBVIOUS
<1>1. <<>> \in Seq(Import!Evidence) /\ Len(<<>>) = 0
  OBVIOUS
<1>2. Import!TypeOK
  <2>1. import \in [Importers -> Process]
    BY IdleProcess DEF Import!Init
  <2>2. tries \in [Importers -> 0 .. 2] /\ life \in [Import!Members -> {None}]
    BY DEF Import!Init
  <2> QED BY <1>1, <2>1, <2>2 DEF Import!Init, Import!TypeOK, Process, Places, Inside, Answers
<1>3. \A p \in Importers : import[p].pc = "idle"
  BY DEF Import!Init, Import!Idle
<1>4. Locked
  BY <1>3 DEF Import!Init, Locked, Inside, Import!ReferenceConstants
<1>5. Numbered /\ Validated /\ Import!WholeOrNothing
  BY <1>3 DEF Import!Init, Numbered, Validated, Import!WholeOrNothing, Inside
<1>6. Import!ImportAnswers
  BY <1>3 DEF Import!ImportAnswers, Import!At
<1>7. \A p \in Importers : Importing(p)
  BY <1>3 DEF Importing, Import!At, Inside
<1> QED BY <1>2, <1>4, <1>5, <1>6, <1>7 DEF ImportInv

\* The invariant is kept by every step.
LEMMA IInvStep == Import!ReferenceConstants /\ ImportInv /\ [Import!Next]_Import!vars => ImportInv'
BY TypeStep, LockStep, ImportingStep, NumberedStep, ValidatedStep, WholeStep, AnswersStep
DEF ImportInv

\* What no split shares: a member held out is of role test, one with a record of role train,
\* and a catalogue that validates keeps these apart in every family and component.
LEMMA SplitsAreApart == ImportInv => Import!HeldOutIsDisjoint
<1> SUFFICES ASSUME ImportInv, Import!population # None, NEW h \in Import!population.members,
                    NEW m \in Import!Members,
                    life[m] # None
             PROVE  /\ capture[m].family # capture[h].family
                    /\ capture[m].component # capture[h].component
  BY DEF Import!HeldOutIsDisjoint
<1>1. Import!Whole
  BY DEF Import!population
<1>2. h \in Import!Members /\ capture[h].role = "test" /\ capture[m].role = "train"
  BY <1>1 DEF Import!population, Import!Whole, Import!Train
<1>3. Import!validate(capture)
  BY <1>1 DEF ImportInv, Validated, Import!Whole
<1> QED BY <1>2, <1>3 DEF Import!validate

\* The inductive invariant holds of every catalogue and any number of import processes.
THEOREM ImportInvariance == ASSUME Import!ReferenceConstants PROVE Import!Spec => []ImportInv
<1>1. Import!Init => ImportInv
  BY InitIsFine
<1>2. ImportInv /\ [Import!Next]_Import!vars => ImportInv'
  BY IInvStep
<1> QED BY <1>1, <1>2, PTL DEF Import!Spec

\* A batch is in the database whole or not at all, every answer an import gives is what is
\* committed, and no family or component is both trained on and held out.
THEOREM ImportedWhole == ASSUME Import!ReferenceConstants
    PROVE  Import!Spec => []Import!ImportIsWhole
<1>1. ImportInv => Import!ImportIsWhole
  BY SplitsAreApart DEF ImportInv, Import!ImportIsWhole
<1> QED BY <1>1, ImportInvariance, PTL

\* The first batch's evidence stays: a population that was captured is captured again as the
\* same, whatever is imported, cancelled, excluded or exported afterwards.
THEOREM EvidenceStays == ASSUME Import!ReferenceConstants
    PROVE  Import!Spec => Import!FirstEvidenceStays
<1>1. ImportInv /\ [Import!Next]_Import!vars => [Import!EvidenceStep]_Import!vars
  <2> SUFFICES ASSUME ImportInv, [Import!Next]_Import!vars, Import!population # None
               PROVE  Import!population' = Import!population
    BY DEF Import!EvidenceStep
  <2>1. Import!Whole
    BY DEF Import!population
  <2>2. batch' = batch /\ capture' = capture /\ Import!WholeOrNothing'
    BY <2>1, WholeStep DEF ImportInv, Import!Whole
  <2>3. Import!Whole'
    BY <2>1, <2>2 DEF Import!WholeOrNothing, Import!Whole
  <2> QED BY <2>1, <2>2, <2>3 DEF Import!population, Import!Train
<1> QED BY <1>1, ImportInvariance, PTL DEF Import!Spec, Import!FirstEvidenceStays

------------------------------------------------------------------------------
(* The components in the system that composes them.                        *)

\* The theorems about overlapping panels, of the instance that the system composes.
Sharing == INSTANCE CachedPanel_proofs WITH
    Panels <- SharedPanels, Judges <- SharedJudges, MaxGrades <- SharedGrades,
    MaxLaunches <- SharedLaunches, cache <- shared_cache, grades <- shared_grades,
    launches <- shared_launches, cancelled <- shared_cancelled,
    pc <- shared_pc, op <- shared_op, grade <- shared_grade,
    stopped <- shared_stopped, failure <- shared_failure,
    observed <- shared_observed

\* The overlapping panels of the system begin as those of the proofs.
LEMMA SharingInit == Sharing!Init <=> Overlapping!Init
BY DEF Sharing!Init, Overlapping!Init, Sharing!Keys, Overlapping!Keys, Sharing!Range,
       Overlapping!Range

\* The overlapping panels of the system step as those of the proofs.
LEMMA SharingNext == Sharing!Next <=> Overlapping!Next
  BY DEF Sharing!vars, Overlapping!vars, Sharing!panel, Overlapping!panel, Sharing!process,
         Overlapping!process, Sharing!Keys, Overlapping!Keys, Sharing!Range, Overlapping!Range,
         Sharing!Classes, Overlapping!Classes, Sharing!Rank, Overlapping!Rank, Sharing!Failure,
         Overlapping!Failure, Sharing!Started, Overlapping!Started, Sharing!Start,
         Overlapping!Start, Sharing!OnError, Overlapping!OnError, Sharing!Looking,
         Overlapping!Looking, Sharing!Hit, Overlapping!Hit, Sharing!Miss, Overlapping!Miss,
         Sharing!LookupFails, Overlapping!LookupFails, Sharing!Collected, Overlapping!Collected,
         Sharing!Draining, Overlapping!Draining, Sharing!Call, Overlapping!Call, Sharing!Skip,
         Overlapping!Skip, Sharing!Send, Overlapping!Send, Sharing!Answer, Overlapping!Answer,
         Sharing!Put, Overlapping!Put, Sharing!Keeps, Overlapping!Keeps, Sharing!Fails,
         Overlapping!Fails, Sharing!CallFails, Overlapping!CallFails, Sharing!PutFails,
         Overlapping!PutFails, Sharing!Finish, Overlapping!Finish, Sharing!Cancel,
         Overlapping!Cancel, Sharing!Crash, Overlapping!Crash, Sharing!Request,
         Overlapping!Request, Sharing!Panel, Overlapping!Panel, Sharing!Next, Overlapping!Next

\* What overlapping panels are known to do, of the instance that the system composes.
LEMMA SharedSealed == Overlapping!Spec => [][Overlapping!SealedStep]_Overlapping!vars
<1>1. Sharing!PanelAssumption
  BY OverlappingAssumption
     DEF Overlapping!PanelAssumption, Sharing!PanelAssumption, Overlapping!Failure,
         Sharing!Failure, Overlapping!Keys, Sharing!Keys, Overlapping!Classes, Sharing!Classes,
         Overlapping!Range, Sharing!Range
<1>2. Sharing!Spec => Sharing!SealedSendsNothing
  BY <1>1, Sharing!SentForAReason, PTL DEF Sharing!NothingIsSentInVain
<1>3. Sharing!SealedStep <=> Overlapping!SealedStep
  BY DEF Sharing!SealedStep, Overlapping!SealedStep, Sharing!Keys, Overlapping!Keys,
         Sharing!Range, Overlapping!Range
<1>4. [Sharing!Next]_Sharing!vars <=> [Overlapping!Next]_Overlapping!vars
  BY SharingNext
     DEF Sharing!vars, Overlapping!vars, Sharing!panel, Overlapping!panel, Sharing!process,
         Overlapping!process
<1>5. [Sharing!SealedStep]_Sharing!vars <=> [Overlapping!SealedStep]_Overlapping!vars
  BY <1>3
     DEF Sharing!vars, Overlapping!vars, Sharing!panel, Overlapping!panel, Sharing!process,
         Overlapping!process
<1> QED BY <1>2, <1>4, <1>5, SharingInit, PTL
        DEF Sharing!Spec, Overlapping!Spec, Sharing!SealedSendsNothing

\* A behaviour is about one component, and each of its steps is one of that component.
LEMMA Turns ==
    MCNext \/ UNCHANGED MCvars =>
        /\ scenario' = scenario
        /\ scenario = "shared" => [Overlapping!Next]_Overlapping!vars
        /\ scenario = "prior" => [Corpus!Next]_Corpus!vars
        /\ scenario = "import" => [Import!Next]_Import!vars
<1>1. ASSUME MCNext PROVE /\ scenario' = scenario
                          /\ scenario = "shared" => Overlapping!Next
                          /\ scenario = "prior" => Corpus!Next
                          /\ scenario = "import" => Import!Next
  BY <1>1 DEF MCNext, panel_step, shared_step, prior_step, import_step, Turn
<1>2. ASSUME UNCHANGED MCvars
      PROVE  /\ UNCHANGED scenario /\ UNCHANGED Overlapping!vars
             /\ UNCHANGED Corpus!vars /\ UNCHANGED Import!vars
  BY <1>2 DEF MCvars, shared_vars, prior_vars, import_vars, Overlapping!vars,
              Overlapping!process, Overlapping!panel, Corpus!vars, Import!vars
<1> QED BY <1>1, <1>2

\* The corpus holds the admitted records once each, whoever seeds or appends them, and a
\* record is never gated against one that misses a settled record or holds its sibling
\* (PriorCorpus, seed_priors, append).
THEOREM CorpusStaysExact == MCSpec => []CorpusIsExact
<1>1. MCInit => (scenario = "prior" => Corpus!Init)
  BY DEF MCInit
<1>2. [MCNext]_MCvars => /\ scenario' = scenario
                         /\ scenario = "prior" => [Corpus!Next]_Corpus!vars
  BY Turns
<1>3. Corpus!Spec => [](Corpus!CorpusExact /\ Corpus!GatedAgainstSettled)
  BY Exactness, CorpusAssumption
<1>4. CorpusIsExact <=> (scenario = "prior" => Corpus!CorpusExact /\ Corpus!GatedAgainstSettled)
  BY DEF CorpusIsExact
<1>5. (scenario = "prior") /\ scenario' = scenario => (scenario = "prior")'
  OBVIOUS
<1>6. ~ (scenario = "prior") /\ scenario' = scenario => ~ (scenario = "prior")'
  OBVIOUS
<1> QED BY <1>1, <1>2, <1>3, <1>4, <1>5, <1>6, PTL DEF MCSpec, Corpus!Spec

\* A batch of references is in the database whole or not at all, an importer's answer is what
\* is committed, and nothing held out shares a family with what is trained on
\* (reference_import.rs, catalogue.rs).
THEOREM ImportStaysWhole == MCSpec => []ImportIsWhole
<1>1. MCInit => (scenario = "import" => Import!Init)
  BY DEF MCInit, ImportInit
<1>2. [MCNext]_MCvars => /\ scenario' = scenario
                         /\ scenario = "import" => [Import!Next]_Import!vars
  BY Turns
<1>3. Import!Spec => [](Import!ImportIsWhole)
  BY ImportedWhole, ImportAssumption
<1>4. ImportIsWhole <=> (scenario = "import" => Import!ImportIsWhole)
  BY DEF ImportIsWhole
<1>5. (scenario = "import") /\ scenario' = scenario => (scenario = "import")'
  OBVIOUS
<1>6. ~ (scenario = "import") /\ scenario' = scenario => ~ (scenario = "import")'
  OBVIOUS
<1> QED BY <1>1, <1>2, <1>3, <1>4, <1>5, <1>6, PTL DEF MCSpec, Import!Spec

\* The first evidence of a member stays (reference_import.rs), the corpus of a launch is never
\* rebuilt again, be it after a failure (attempts.rs), and no overlapping panel sends after one
\* of them met a failure of the launch (cached_panel.rs).
THEOREM WhatIsSettledStays == MCSpec => SettledStays
<1>1. MCInit => /\ scenario = "import" => Import!Init
                /\ scenario = "prior" => Corpus!Init
                /\ scenario = "shared" => Overlapping!Init
  BY DEF MCInit, ImportInit
<1>2. [MCNext]_MCvars => /\ scenario' = scenario
                         /\ scenario = "shared" => [Overlapping!Next]_Overlapping!vars
                         /\ scenario = "prior" => [Corpus!Next]_Corpus!vars
                         /\ scenario = "import" => [Import!Next]_Import!vars
  BY Turns
<1>3. Import!Spec => [][Import!EvidenceStep]_Import!vars
  BY EvidenceStays, ImportAssumption DEF Import!FirstEvidenceStays
<1>4. Corpus!Spec => [][Corpus!RebuildStep]_Corpus!vars
  BY NeverRebuiltAgain, CorpusAssumption DEF Corpus!RebuiltOnce
<1>5. /\ [Import!EvidenceStep]_Import!vars => Import!EvidenceStep
      /\ [Corpus!RebuildStep]_Corpus!vars => Corpus!RebuildStep
      /\ [Overlapping!SealedStep]_Overlapping!vars => Overlapping!SealedStep
  <2>1. ASSUME UNCHANGED Import!vars PROVE Import!EvidenceStep
    <3>1. Import!population' = Import!population
      BY <2>1 DEF Import!vars, Import!population, Import!Whole, Import!Train
    <3> QED BY <3>1 DEF Import!EvidenceStep
  <2>2. ASSUME UNCHANGED Corpus!vars PROVE Corpus!RebuildStep
    BY <2>2 DEF Corpus!vars, Corpus!RebuildStep
  <2>3. ASSUME UNCHANGED Overlapping!vars PROVE Overlapping!SealedStep
    <3>1. shared_op' = shared_op
      BY <2>3 DEF Overlapping!vars, Overlapping!panel
    <3> QED BY <3>1 DEF Overlapping!SealedStep
  <2> QED BY <2>1, <2>2, <2>3
<1>6. (scenario = "import") /\ scenario' = scenario => (scenario = "import")'
  OBVIOUS
<1>7. ~ (scenario = "import") /\ scenario' = scenario => ~ (scenario = "import")'
  OBVIOUS
<1>8. (scenario = "prior") /\ scenario' = scenario => (scenario = "prior")'
  OBVIOUS
<1>9. ~ (scenario = "prior") /\ scenario' = scenario => ~ (scenario = "prior")'
  OBVIOUS
<1>10. (scenario = "shared") /\ scenario' = scenario => (scenario = "shared")'
  OBVIOUS
<1>11. ~ (scenario = "shared") /\ scenario' = scenario => ~ (scenario = "shared")'
  OBVIOUS
<1> QED BY <1>1, <1>2, <1>3, <1>4, <1>5, <1>6, <1>7, <1>8, <1>9, <1>10, <1>11, SharedSealed, PTL
        DEF MCSpec, SettledStays, Import!Spec, Corpus!Spec, Overlapping!Spec
==============================================================================

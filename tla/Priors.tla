------------------------------- MODULE Priors -------------------------------
(***************************************************************************)
(* The prior corpus of one launch (gw-engine/src/priors.rs), its one-time  *)
(* rebuild from the store (attempts.rs) and the diversity gate that reads  *)
(* it (gw-generate/src/user_synth.rs), as the sibling futures of all       *)
(* shards use them (sibling.rs, step.rs).  A vector is abstracted to the   *)
(* record it was computed from: two are similar when their items have one  *)
(* topic.                                                                  *)
(***************************************************************************)
EXTENDS Naturals, Sequences, FiniteSets, SequencesExt

CONSTANTS Records,    \* records of the run, one future each
          ItemOf(_),  \* the seed item of a record (record_item_id)
          TopicOf(_)  \* what its user turn is about

\* No record is named like a place a future may be at.
PriorConstants ==
    Records \cap {"idle", "seeding", "primed", "exclude", "gate", "append", "embed",
                  "done", "failed"} = {}

VARIABLES stored,      \* the state of each record in the store
          pc,          \* where the future of each record is
          all,         \* the corpus: the records whose vectors it holds, in order
          exclusions,  \* exclusion_indices: cached positions of each item, or {}
          cell,        \* the OnceCell of the rebuild: "empty", "running" or "full"
          left,        \* records the rebuild has yet to look at
          prior,       \* the snapshot each future gates against
          cancelled,   \* the token of the launch
          skipped,     \* history: records whose embedding failed
          known,       \* history: settled records when each future took its snapshot
          began        \* history: the futures that began the rebuild

vars == <<stored, pc, all, exclusions, cell, left, prior, cancelled, skipped, known,
          began>>
corpus == <<all, exclusions>>
history == <<skipped, known, began>>

Items == {ItemOf(r) : r \in Records}
Admitted == {r \in Records : stored[r] = "admitted"}
To(r, place) == pc' = [pc EXCEPT ![r] = place]

contains_record(r) == Contains(all, r)

\* Mutated: an append keeps what the cache says of the shorter corpus.
insertKeepingIndices(r) ==
    IF contains_record(r) THEN UNCHANGED corpus
    ELSE all' = Append(all, r) /\ UNCHANGED exclusions
\* insert: the identity is checked again, under the write lock.
insert(r) ==
    IF contains_record(r) THEN UNCHANGED corpus
    ELSE all' = Append(all, r) /\ exclusions' = [i \in Items |-> {}]

--------------------------------------------------------------------------
(* prepare_generation_priors: the first future that generates rebuilds the *)
(* corpus; the others wait for it.                                         *)

Primed(r) ==
    /\ pc[r] = "idle" /\ stored[r] = "none" /\ cell = "full"
    /\ To(r, "primed")
    /\ UNCHANGED <<stored, corpus, cell, left, prior, cancelled, history>>

\* The cell is free: read the store once; a failed read or a cancelled launch ends the future.
SeedStart(r) ==
    /\ pc[r] = "idle" /\ stored[r] = "none" /\ cell = "empty"
    /\ \/ cancelled /\ To(r, "failed") /\ UNCHANGED <<cell, left, cancelled, began>>
       \/ /\ ~ cancelled /\ To(r, "seeding") /\ cell' = "running" /\ left' = Admitted
          /\ began' = began \cup {r} /\ UNCHANGED cancelled
       \/ /\ ~ cancelled /\ To(r, "failed") /\ cancelled' = TRUE
          /\ began' = began \cup {r} /\ UNCHANGED <<cell, left>>
    /\ UNCHANGED <<stored, corpus, prior, skipped, known>>

\* Mutated: the cell is released and the token is not cancelled.
SeedFailsQuietly(r) ==
    /\ To(r, "failed") /\ cell' = "empty" /\ left' = {}
    /\ UNCHANGED <<stored, corpus, prior, cancelled, history>>
\* A failure that is not the record's own cancels the launch, then frees the cell.
SeedFails(r) ==
    /\ To(r, "failed") /\ cell' = "empty" /\ left' = {} /\ cancelled' = TRUE
    /\ UNCHANGED <<stored, corpus, prior, history>>

SeedNext(r) ==
    /\ pc[r] = "seeding" /\ left # {}
    /\ \/ cancelled /\ SeedFails(r)
       \/ /\ ~ cancelled
          /\ \E x \in left :
                 IF contains_record(x)
                 THEN left' = left \ {x} /\ UNCHANGED <<pc, skipped>>
                 ELSE left' = left /\ To(r, x) /\ UNCHANGED skipped
          /\ UNCHANGED <<stored, corpus, cell, prior, cancelled, known, began>>

\* The embedding of x, which the rebuild awaited, comes back or fails.
SeedEmbedded(r) ==
    /\ pc[r] \in Records
    /\ \/ SeedFails(r)
       \/ /\ left' = left \ {pc[r]} /\ To(r, "seeding")
          /\ \/ insert(pc[r]) /\ UNCHANGED skipped
             \/ skipped' = skipped \cup {pc[r]} /\ UNCHANGED corpus
          /\ UNCHANGED <<stored, cell, prior, cancelled, known, began>>

SeedDone(r) ==
    /\ pc[r] = "seeding" /\ left = {}
    /\ cell' = "full" /\ To(r, "primed")
    /\ UNCHANGED <<stored, corpus, left, prior, cancelled, history>>

--------------------------------------------------------------------------
(* snapshot and gate: the corpus without the vectors of the same item.     *)

Positions(item) == {n \in DOMAIN all : ItemOf(all[n]) = item}
Filtered(excluded) == {all[n] : n \in DOMAIN all \ excluded}
Appending == {r \in Records : pc[r] \in {"append", "embed"}}

Take(r, snapshot) ==
    /\ prior' = [prior EXCEPT ![r] = snapshot]
    /\ known' = [known EXCEPT ![r] = Admitted \ (skipped \cup Appending)]
    /\ To(r, "gate")

\* The read lock shows no vector of the item: the whole corpus is shared.
SnapshotAll(r) ==
    /\ pc[r] = "primed"
    /\ IF Positions(ItemOf(r)) = {} THEN Take(r, Range(all))
       ELSE To(r, "exclude") /\ UNCHANGED <<prior, known>>
    /\ UNCHANGED <<stored, corpus, cell, left, cancelled, skipped, began>>

\* The write lock: cached positions are used, missing ones computed and cached.
SnapshotExcluding(r) ==
    /\ pc[r] = "exclude"
    /\ LET excluded == IF exclusions[ItemOf(r)] # {} THEN exclusions[ItemOf(r)]
                       ELSE Positions(ItemOf(r))
       IN  /\ exclusions' = [exclusions EXCEPT ![ItemOf(r)] = excluded]
           /\ Take(r, Filtered(excluded))
    /\ UNCHANGED <<stored, all, cell, left, cancelled, skipped, began>>

\* The gate passes and the record is generated, or the future ends.
Gate(r) ==
    /\ pc[r] = "gate"
    /\ \/ /\ \A x \in prior[r] : TopicOf(x) # TopicOf(r)
          /\ ~ cancelled
          /\ stored' = [stored EXCEPT ![r] = "open"] /\ To(r, "idle")
       \/ To(r, "failed") /\ UNCHANGED stored
    /\ UNCHANGED <<corpus, cell, left, prior, cancelled, history>>

--------------------------------------------------------------------------
(* persist_and_emit: admission is durable first; then the vector is added. *)

Admit(r) ==
    /\ pc[r] = "idle" /\ stored[r] = "open"
    /\ \/ stored' = [stored EXCEPT ![r] = "admitted"] /\ To(r, "append")
       \/ stored' = [stored EXCEPT ![r] = "closed"] /\ To(r, "done")
    /\ UNCHANGED <<corpus, cell, left, prior, cancelled, history>>

AppendRecord(r) ==
    /\ pc[r] = "append"
    /\ To(r, IF contains_record(r) THEN "done" ELSE "embed")
    /\ UNCHANGED <<stored, corpus, cell, left, prior, cancelled, history>>

\* Only a failure of the accounting is an error of the record's future.
Appended(r) ==
    /\ pc[r] = "embed"
    /\ \/ insert(r) /\ To(r, "done") /\ UNCHANGED skipped
       \/ /\ skipped' = skipped \cup {r} /\ pc' \in {[pc EXCEPT ![r] = "done"],
                                                     [pc EXCEPT ![r] = "failed"]}
          /\ UNCHANGED corpus
    /\ UNCHANGED <<stored, cell, left, prior, cancelled, known, began>>

Cancel == ~ cancelled /\ cancelled' = TRUE
          /\ UNCHANGED <<stored, pc, corpus, cell, left, prior, history>>

\* A launch finds whatever earlier launches left; its corpus is empty.
Init == /\ stored \in [Records -> {"none", "open", "admitted"}]
        /\ pc = [r \in Records |-> "idle"]
        /\ all = <<>> /\ exclusions = [i \in Items |-> {}]
        /\ cell = "empty" /\ left = {} /\ cancelled = FALSE
        /\ prior = [r \in Records |-> {}] /\ known = [r \in Records |-> {}]
        /\ skipped = {} /\ began = {}

Drive(r) == \/ Primed(r) \/ SeedStart(r) \/ SeedNext(r) \/ SeedEmbedded(r)
            \/ SeedDone(r) \/ SnapshotAll(r) \/ SnapshotExcluding(r) \/ Gate(r)
            \/ Admit(r) \/ AppendRecord(r) \/ Appended(r)

Next == Cancel \/ \E r \in Records : Drive(r)

Spec == Init /\ [][Next]_vars

\* The runtime polls every future that can move; an embedding answers or fails.
FairSpec == Spec /\ \A r \in Records : WF_vars(Drive(r))

--------------------------------------------------------------------------
TypeOK ==
    /\ stored \in [Records -> {"none", "open", "admitted", "closed"}]
    /\ pc \in [Records -> Records \cup {"idle", "seeding", "primed", "exclude", "gate",
                                        "append", "embed", "done", "failed"}]
    /\ all \in Seq(Records) /\ exclusions \in [Items -> SUBSET Nat]
    /\ cell \in {"empty", "running", "full"} /\ left \subseteq Records
    /\ prior \in [Records -> SUBSET Records] /\ known \in [Records -> SUBSET Records]
    /\ cancelled \in BOOLEAN /\ skipped \subseteq Records /\ began \subseteq Records

\* Each record counts once, although the rebuild and its own future may both be
\* embedding it (the identity check of insert); only durably admitted records
\* count; and a cached exclusion is the one the corpus as it is now calls for.
CorpusExact ==
    /\ \A n, k \in DOMAIN all : all[n] = all[k] => n = k
    /\ Range(all) \subseteq Admitted
    /\ \A i \in Items : exclusions[i] \in {{}, Positions(i)}
    /\ cell = "running" <=> \E r \in Records : pc[r] \in Records \cup {"seeding"}

\* A record is gated against every record that was settled when it took its
\* snapshot and never against its own item, so no future that begins after a
\* record joined can bring a second one on its topic into the run
\* (generate_and_persist, revise_once).
GatedAgainstSettled ==
    \A r \in Records : pc[r] = "gate" =>
        /\ {x \in known[r] : ItemOf(x) # ItemOf(r)} \subseteq prior[r]
        /\ \A x \in prior[r] : ItemOf(x) # ItemOf(r)

\* The corpus of a launch is rebuilt once.  A rebuild that failed on something other
\* than a record hands the cell to the next waiter, and that one must not read the
\* store and embed everything again (prepare_generation_priors).
RebuildStep == began' # began => began = {}
RebuiltOnce == [][RebuildStep]_vars

\* Every future ends: no one waits for a rebuild that nobody runs.
Ended(r) == pc[r] \in {"done", "failed"} \/ (pc[r] = "idle" /\ stored[r] = "admitted")
FuturesEnd == \A r \in Records : <>[]Ended(r)
=============================================================================

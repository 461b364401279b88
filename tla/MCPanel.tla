------------------------------- MODULE MCPanel -------------------------------
(* What an item waits for. One panel of four positions over three          *)
(* requests, relaunched once (CachedPanel, with the variables of its       *)
(* module); two panels that overlap (the same module again); the shared    *)
(* prior corpus; and the import of reference evidence.                     *)
EXTENDS CachedPanel
CONSTANTS p1, p2, j1, j2, j3, r1, r2, r3,
          SharedPanels, SharedJudges, SharedGrades, SharedLaunches, \* panels that overlap
          Records, ItemOf(_), TopicOf(_),        \* the futures of the prior corpus
          Size, Families, Components, Importers  \* the batch of references

VARIABLES scenario, \* the component the behaviour is about; the others stay idle
          shared_cache, shared_grades, shared_launches, shared_cancelled,
          shared_pc, shared_op, shared_grade, shared_stopped,
          shared_failure, shared_observed,
          stored, prior_pc, all, exclusions, cell, left, prior,
          prior_cancelled, skipped, known, began,
          capture, registered, batch, life, writer, tx, import, committer,
          tries

MCPanels == {p1}
MCJudges == <<j1, j2, j1, j3>>

------------------------------------------------------------------------------
(* Two overlapping panels with two requests over three positions, under    *)
(* one token.                                                              *)
MCSharedPanels == {p1, p2}
MCSharedJudges == <<j1, j2, j1>>
Overlapping == INSTANCE CachedPanel WITH
    Panels <- SharedPanels, Judges <- SharedJudges, MaxGrades <- SharedGrades,
    MaxLaunches <- SharedLaunches, cache <- shared_cache, grades <- shared_grades,
    launches <- shared_launches, cancelled <- shared_cancelled,
    pc <- shared_pc, op <- shared_op, grade <- shared_grade,
    stopped <- shared_stopped, failure <- shared_failure,
    observed <- shared_observed
ASSUME OverlappingAssumption == Overlapping!PanelAssumption
shared_vars == <<shared_cache, shared_grades, shared_launches,
                 shared_cancelled, shared_pc, shared_op,
                 shared_grade, shared_stopped, shared_failure,
                 shared_observed>>

------------------------------------------------------------------------------
(* Three futures on one topic, two of them siblings.                       *)
MCRecords == {r1, r2, r3}
SeedOf(r) == IF r = r3 THEN "b" ELSE "a"
OneTopic(r) == "t"
Corpus == INSTANCE Priors WITH pc <- prior_pc, cancelled <- prior_cancelled
ASSUME CorpusAssumption == Corpus!PriorConstants
prior_vars == <<stored, prior_pc, all, exclusions, cell, left, prior,
                prior_cancelled, skipped, known, began>>

------------------------------------------------------------------------------
(* Two members and two importers. The first member is trained on and has   *)
(* the first family and component; the second shares nothing with it or is *)
(* held out.                                                               *)
Import == INSTANCE References
ASSUME ImportAssumption == Import!ReferenceConstants
ImportInit ==
    /\ Import!Init
    /\ capture[1] = [family |-> "f1", component |-> "c1", role |-> "train", use |-> "training"]
    /\ capture[2].family = "f2" \/ capture[2].role = "test"
    /\ capture[2].component = "c2" \/ capture[2].role = "test"
import_vars == <<capture, registered, batch, life, writer, tx, import,
                 committer, tries>>

------------------------------------------------------------------------------
MCvars == <<scenario, vars, shared_vars, prior_vars, import_vars>>
shared_idle == /\ shared_cache = None /\ shared_grades = None /\ shared_launches = None /\ shared_cancelled = None
               /\ shared_pc = None /\ shared_op = None /\ shared_grade = None
               /\ shared_stopped = None /\ shared_failure = None /\ shared_observed = None
prior_idle == /\ stored = None /\ prior_pc = None /\ all = None /\ exclusions = None
              /\ cell = None /\ left = None /\ prior = None /\ prior_cancelled = None
              /\ skipped = None /\ known = None /\ began = None
import_idle == /\ capture = None /\ registered = None /\ batch = None /\ life = None
               /\ writer = None /\ tx = None /\ import = None /\ committer = None
               /\ tries = None

MCInit ==
    /\ scenario \in {"panel", "shared", "prior", "import"}
    /\ Init
    /\ IF scenario = "shared" THEN Overlapping!Init ELSE shared_idle
    /\ IF scenario = "prior" THEN Corpus!Init ELSE prior_idle
    /\ IF scenario = "import" THEN ImportInit ELSE import_idle

\* A step of one component: no other takes one.
Turn(name) ==
    /\ scenario = name /\ UNCHANGED scenario
    /\ IF name = "panel" THEN TRUE ELSE UNCHANGED vars
    /\ IF name = "shared" THEN TRUE ELSE UNCHANGED shared_vars
    /\ IF name = "prior" THEN TRUE ELSE UNCHANGED prior_vars
    /\ IF name = "import" THEN TRUE ELSE UNCHANGED import_vars
panel_step == Turn("panel") /\ Next
shared_step == Turn("shared") /\ Overlapping!Next
prior_step == Turn("prior") /\ Corpus!Next
import_step == Turn("import") /\ Import!Next
MCNext == panel_step \/ shared_step \/ prior_step \/ import_step
MCSpec == MCInit /\ [][MCNext]_MCvars

\* The fairness of each component, while the behaviour is about it.
MCFairSpec == /\ MCSpec
              /\ \A p \in Panels : WF_vars(scenario = "panel" /\ Panel(p))
              /\ \A r \in Records : WF_prior_vars(scenario = "prior" /\ Corpus!Drive(r))
              /\ \A p \in Importers : WF_import_vars(scenario = "import" /\ Import!Run(p))

------------------------------------------------------------------------------
\* The prior corpus holds the admitted records once each, whoever seeds or appends it,
\* and a record is never gated against a corpus that misses a settled one or holds its
\* sibling's (PriorCorpus, seed_priors, append).
CorpusIsExact == scenario = "prior" => Corpus!CorpusExact /\ Corpus!GatedAgainstSettled

\* A batch of references is in the database whole or not at all, an importer's answer
\* is what is committed, and nothing held out shares a family with what is trained on
\* (reference_import.rs, catalogue.rs).
ImportIsWhole == scenario = "import" => Import!ImportIsWhole

\* The first evidence of a member stays its evidence (reference_import.rs); no future
\* begins the rebuild of the corpus again, be it after one that failed (attempts.rs); and
\* after a failure of the launch no panel sends, not one that overlaps the failed panel
\* either (cached_panel.rs).
SettledStays ==
    [][/\ scenario = "import" => Import!EvidenceStep
       /\ scenario = "prior" => Corpus!RebuildStep
       /\ scenario = "shared" => Overlapping!SealedStep]_<<import_vars, prior_vars, shared_vars>>

\* Every panel, every future of the corpus and every import comes to an end, if
\* endpoints answer or fail, container runs end and the lock is waited for with a timeout.
EveryoneReturns ==
    /\ PanelReturns
    /\ \A r \in Records : <>[](scenario = "prior" => Corpus!Ended(r))
    /\ \A p \in Importers : /\ []<>(scenario = "import" => Import!Between(p))
                            /\ []<>(writer # p)
==============================================================================

# Ghostwriter: TLA+ specifications and proofs

Ghostwriter (`src/crates`) generates training records with language models: a
teacher writes candidate answers, a rail of verifiers and judges grades them,
one per prompt is admitted, and the admitted ones are published as a Parquet
artifact, screened, paired and prepared for training. Everything that matters
survives in one SQLite database; the process that drives it may be killed,
cancelled or refused money at any moment, and is simply launched again. These
modules say what the parts of this system may and may not do, check it with TLC on
small instances, and prove part of it with TLAPS for all instances.

Paths below are relative to `src/crates`.

## 1. The system

**Generation of a run**

| Part | State it keeps | Operations | What makes it correct |
|---|---|---|---|
| **Record store** (`gw-storage/record_mutations.rs`, `record_data.rs`) | `records`, `lifecycle_history`, `record_mutations` | insert, insert-and-transition, transition/advance, the record half of an export acknowledgment | a command commits once however often it is retried; a stale snapshot never overwrites; envelope, history and receipts agree |
| **Run start** (`gw-cli/config.rs`, `gw-engine/plan.rs`, `seed.rs`, `gw-storage/run_manifest.rs`) | the manifest of a run | layer the options, capture the seed plan, register, resume, replay | who takes a run up goes on with what it started with; every input is taken once |
| **Executor** (`gw-engine/executor.rs`, `checkpoint.rs`, `gw-storage/runledger.rs`) | shard cursors and run status (durable); permits, token, breaker, tasks (memory) | launch, drive shards, trip, join, publish, set status, resume | permits conserved; cursors step; terminal status and artifact only after a full drain |
| **Best-of-k group** (`gw-engine/sibling.rs`, `step.rs`, `revise.rs`) | lifecycle states of `k` siblings and their retries; futures in memory | fan out, generate, verify, judge, elect, finalize, retain, revise once, park at `Error` | one winner, the best; nothing decided is overwritten; the teacher is not asked again for what is stored |
| **Prior corpus** (`gw-engine/priors.rs`, `gw-generate/user_synth.rs`) | vectors of admitted prompts (memory) | rebuild once, append, snapshot, gate | each record once; rebuilt once, not again after a failure; no item is gated by its own siblings, nor against a corpus that misses a settled record |
| **Admission** (`gw-storage/admission.rs`, `attempts.rs`, `accounting.rs`; `gw-engine/admission.rs`) | policy, launches, attempts (durable); gate, live set (memory) | register a launch, admit, observe, settle, release | at most one unresolved request per run under a finite policy; never past the limit; a superseded or failed launch sends nothing |
| **Publication** (`gw-storage/publication.rs`, `receipts.rs`, `artifact.rs`) | `export_receipts` (durable), a file per destination | plan, prepare, inspect, stage+rename, acknowledge, recover | visible bytes have a receipt; only what was visible and is unchanged is acknowledged; once per record and artifact |
| **Dashboard** (`gw-tui/event_loop.rs`, `model.rs`, `gw-engine/event.rs`) | a bounded channel, a screen | emit, receive, poll, cancel | what it shows is the store or it says what it lost; an older snapshot replaces nothing |

**The path of a model request**

| Part | State it keeps | Operations | What makes it correct |
|---|---|---|---|
| **Provider client** (`gw-providers/client.rs`, `retry.rs`, `observation.rs`, `observed_sse.rs`; `gw-storage/attempts.rs`) | receipts of a call (durable); attempt, stream (memory) | send, retry, observe, settle, interpret | one admitted attempt per physical send; evidence is durable before it is used; nothing is sent again after an accounting failure |
| **Embeddings client** (`embeddings.rs`) | the same | one request | a vector for each text, by the index the endpoint names |
| **Stream decoder** (`sse.rs`) | a line buffer | read a chunk, yield, flush | what it yields does not depend on where chunks were cut |
| **Generation and ingest** (`gw-generate/assistant.rs`, `tool_calls.rs`, `gw-providers/delta.rs`, `gw-format/ingest.rs`) | the accumulated turn | gate a candidate, accumulate, retry a truncated answer, assemble | a turn is the whole of one stream; requests follow an accepted gate |
| **Serving profiles and gateway** (`gw-providers/serving_profile/`) | profiles, evidence of what served a request | prepare a body, compare evidence | every control is in the body, refused or reported; "consistent" means served by what was asked for |

**Grading and what becomes of records**

| Part | State it keeps | Operations | What makes it correct |
|---|---|---|---|
| **Judge panel** (`gw-judge/cached_panel.rs`, `panel.rs`; `gw-storage/cache.rs`) | `verdict_cache` (durable); futures (memory) | look up, call, grade, store, stop, drain | started calls drain; the gravest failure wins; a cached grade is never paid for again |
| **Judge requests** (`effective_contract.rs`, `request_identity.rs`, `interpretation.rs`) | none | build, key, interpret, restore | a vote answers this request, once per judge, and the ledger holds it as accepted |
| **Verification and decision** (`verifier/`, `grader.rs`, `consensus.rs`, `decision.rs`) | what a record persists of its judging | verify, weigh, decide, reconcile | evidence is what the contract asks for; a failed verifier has the last word; a stored grading reconciles to itself |
| **Evaluation** (`gw-eval/promote.rs`, `outcomes.rs`, `separation.rs`, `gw-judge/calibration_*.rs`) | none | promote, audit, calibrate | missing evidence never promotes; a report rederives to its own verdict |
| **Reference import** (`gw-schema/reference_catalogue.rs`, `gw-storage/reference_*.rs`) | batches, members, evidence | register, run, import | whole or not at all; held-out families are disjoint |
| **Screening** (`gw-eval/screening*.rs`, `gw-storage/screened_publication.rs`) | plans, witnesses, receipts | plan, extend, publish | nothing released is connected to what is held out or protected at that moment |
| **Preference pairs** (`gw-engine/preference.rs`, `gw-format/preference.rs`) | assessments | assess, project, prepare | a pair says what its records say; never both ways |
| **Coding tasks** (`gw-cli/coding/`) | containers of a daemon | create, start, exec, kill, remove, classify | nothing it reports as settled is left running; the report is one its reader accepts |

**Training**

| Part | State it keeps | Operations | What makes it correct |
|---|---|---|---|
| **Rendering and projection** (`gw-schema/tool_links.rs`, `tool_training.rs`, `gw-format/projection.rs`, `render/`) | none | link, project, render | links resolve; units render; nothing is lost or said twice |
| **Examples and prepared inputs** (`gw-schema/prepared_*.rs`, `gw-storage/prepared_sft.rs`, `artifact.rs`) | an artifact, a frame | prepare, validate, verify | loss is on the target's own tokens; every turn of the source is accounted for |
| **Checkpoints** (`gw-storage/training_checkpoint.rs`, `*lora_checkpoint.rs`; `adapters/trl`) | tensors, ledgers | train, seal, verify | trained on every example in turn; what is declared is what is stored |
| **Rewards** (`gw-schema/reward_batch.rs`, `gw-judge/numeric_reward.rs`) | none | export, sample, reward | a reward is for the completion it is listed with |
| **Artifact assessment** (`gw-providers/artifact_assessment/`) | none | index, walk a lineage, report | eligible means all of it was reviewed for this use |

Command-line parsing and wiring (`gw-cli`), serialized types (`gw-schema`), and
the third-party training loops keep no state of their own.

How they interact. The executor runs one task per shard; each task takes a
permit, runs `run_group` for one seed item, and commits the cursor. `run_group`
moves records by guarded commands of the record store and sends model requests
through clients whose every physical send first calls `StoreObserver::begin`. All
tasks of a launch share one cancellation token: a denied request, a lost
accounting acknowledgment, a systemic fault and Ctrl-C all end up there. When
every shard has drained, the executor publishes; the acknowledgment of a
publication moves the selected records to `Exported` through the record store.
Two launches of one run may overlap: they share nothing but the database.
Downstream of the store everything is files: a component reads what an earlier one
sealed, works out again what it can, and refuses what does not agree.

What is hard. Crashes between any two durable steps; acknowledgments that are
lost after the commit; concurrent siblings, shards and processes; a token that
can be set between a check and its use; faults that have to be attributed to the
right record; a file system and a database that cannot commit together; a daemon
that answers late or not at all; records that change between being read and being
used; and checks downstream that must agree with the writers they check.
`PROJECT.json` lists the individual hazards with the line where each one bites
and the properties that watch it.

## 2. The modules

| Modules | Checked in |
|---|---|
| `Admission`, `Screening`, `Store_proofs` | `MCStore`; `Admission` with fairness in `MCAdmission` |
| `BestOfK`, `BestOfK_proofs` | `MCBestOfK` |
| `Executor`, `RunStart`, `Dashboard`, `Sandbox`, `Launch_proofs` | `MCLaunch`; `Dashboard` also by itself |
| `CachedPanel`, `CachedPanel_proofs`, `Priors`, `References`, `Panel_proofs` | `MCPanel` |
| `Publication`, `Publication_proofs` | `MCPublication` |
| `ProviderCall`, `EmbeddingCall`, `AttemptLedger`, `SseDecoder`, `Generation`, `ServingRequest`, `Gateway`, `TeacherPath_proofs` | `MCTeacherPath`; `ProviderCall` also by itself, with `MCProviderCall.cfg` |
| `RecordStore`, `Grading`, `JudgeRequest`, `Evaluation`, `Preference`, `Corpora_proofs` | `MCCorpora` |
| `Conversation`, `SftExample`, `TrainingInput`, `Checkpoints`, `Rewards`, `Assessment` | `MCTraining` |

An MC module that checks several components instantiates each with its constants and
adds one variable, `scenario`, which an initial state sets once: the behaviour is then
one of that component, and the variables of the others keep the values they start with. Components in one
module answer one question together - what becomes of a launch, of a model request, of
a judged record - but share no variable, so the state spaces add up rather than multiply.
The constants of the components that theorems are about are constants of the MC module
too, and what a theorem assumes of them (`SandboxConstants`, `PriorConstants` and the like) is assumed there
by name and evaluated by TLC on every run.

A step is a transaction, or the code between two suspension points. SQLite runs
every operation of the store in one `BEGIN IMMEDIATE` transaction, so each is
one action, and what is *not* atomic is the caller: it reads, computes, sends,
and may die or never hear the answer. Operators carry the name of the function
they model. A digest is the content it covers (BLAKE3 and SHA-256 are taken as
injective). Definitions commented `Mutated:` are plausible bugs, each next to
the definition it would replace; no specification uses them. They show that the
property paired with them in `PROJECT.json` can fail.

**RecordStore.** `records`, `rows` and `mutations` are the three tables; `Store`
is the three writes of a commit.
A command *is* the tuple that `command_id` hashes, so `already_applied` compares commands.
An envelope is its lifecycle (state, attempt counter, history) and an opaque
body; timestamps and error texts are left out, since history only ever grows
and no old envelope can come back. A writer holds the snapshot it read
(`Issue`), sends, and is `answered` or, when the acknowledgment is lost,
`unknown`, from where it retries the same command. `EngineEdge` is the set of
moves `step` and the parking functions ask for; the store itself checks no
legality. `AcknowledgeExport` includes the branch that only assigns the state.

**BestOfK.** `rec[i]` and `retry[i]` are the attempt-0 and attempt-1 records of
sibling `i`; a record carries its decision, its aggregate, and whether its text
can be rendered (`clean`: ingest does not look for control tokens in the reasoning). One that cannot
fails at the judge edge, which renders it (`render_judge_candidate`, step.rs:310), and is parked
at `Error`; only one that its verifier rejects gets past without a judge (`CanJudge`). So the
same rendering cannot fail when an admitted record is formatted (`AdmittedRenders`), and the format
edge has no failure of its own. `task[i]` is the program counter of the concurrent
`drive_sibling` future, `pc` that of `process_item`. Everything but `rec`,
`retry` and `committed` is lost in `EndLaunch`, which every interruption,
crash and systemic fault leads to. Model answers, gates and judges are
nondeterministic. Left out because no reachable step needs them: the
`PendingRevise` outcome (a retry is reconciled with its tag and so is never at
`Revising` unless cancelled, which returns `Interrupted` first) and the state
`Exported` (an engine publication only happens after every cursor has passed
its items).

**Executor.** An item has an outcome only: decided, all errored, interrupted, or
a systemic fault. `CircuitBreaker::observe` is two steps because it is two
atomics. `mark_run_failed` may itself fail to write. A failing publication may
or may not have put the artifact in place.

**Admission.** `Register`, `Admission` and `merge_metadata` translate the
transactions; `LockGate` ... `Wake` are the stretches of `StoreObserver::begin`
between its awaits. `owned` is the live set as sampled before the transaction,
which is what `Wait` is decided on. A caller's future may be dropped at every
await (`DropBegin`, `Released`): memory ownership ends, nothing is persisted.
`AdmitFails` covers both a rolled-back transaction and a commit whose
acknowledgment is lost. Costs are small integers; a cost of `None` in `Metadata`
is an invalid one. Left out: the interpretation column (it is in `ProviderCall`), the
token sums, which no decision reads, and the snapshot revision (`Dashboard`).

**Publication.** An artifact is its frozen selection, a function from records to
projections (its identity hashes exactly that). `Unchanged` is
`selected_records` plus `checked_projection`. `file[d]` is what a reader of the
destination sees; staging is invisible, so `Rename` is one step. `Disturb` lets
somebody delete or damage the published file between publications. The doc
comment of `publish_export` requires publications to one destination to be
serialized; hence one publisher per destination. `Edit` is any other caller's
guarded command on a record. The `Reference` purpose is not modelled.

**CachedPanel.** A position of the panel is the key of its effective request, so
equal positions share one (`prepare`): the next request looked up is that of the first
position without one. All panels of the instance are
over one content hash: candidates of equal content have one, and a resumed record
meets its own rows. Contract failures of `prepare` are left out, because
`Judges` is a panel that passed its checks. A grade is the number of the answer it came
from, so a grade tells which paid answer it is. `OnError` is the callback of
`step.rs`, called when the panel polls a failure; the token it cancels is read
under the admission gate (`Send`). A cache write that fails may have happened.

**ProviderCall.** `ledger` holds the receipts of one call in order; `held` is the
`ActiveAttempt`, `latest` what the call would interpret. Of a response only its
cumulative usage is kept and whether an event parses, which is all that the
control depends on. `InFlight` is what a write that was not acknowledged may have
left behind; `BeginFails`, `ObserveFails`, `SettleFails`, `InterpretFails` and
`Drop` (the future is dropped in the midst of it) choose from it. `Busy` stands
for the error statuses that are retried, `Status` for the others. The call is
always observed, as every call of the engine is; delays and the limiter's timing
are left out. What other callers do to the run's admission is in `Admission`.

**SseDecoder.** A byte is abstracted to what `process_line` tells apart; `ingest` is a
recursive function. The reference, `Meaning`, reads the whole text symbol by symbol.

**AttemptLedger** is the abstract specification of an observed call: what is in the
ledger and what the caller was told, and nothing of endpoints, retries or streams.
`ProviderCall` and `EmbeddingCall` instantiate it with a refinement mapping
(`ImplementsLedger`): the abstract receipts are the outcomes and interpretations of the
concrete ones, the answer is what was told.

**EmbeddingCall.** One physical attempt, no retry; the answer is validated as a whole
(`order_and_validate`, over all data an endpoint may send) before it is settled and told.

**Generation.** Text is a sequence of marks, a control token or a word. `Chunks` are
the deltas a stream may deliver in any order and number; `accumulate`, `into_turn` and
`StreamedToolCalls` are pure; the stages of a record are actions. The gate's embedding
arithmetic is an attribute of the candidate (`near_prior`).

**ServingRequest.** A body is a function from fields to values. Controls are applied one
by one, as `controls.rs` does; `Parts` says what a control writes.

**Gateway.** Replicas load, measure, expire and reload; `documents` and `snapshots` are
all evidence a caller may hold; `Consistent` is the code's comparison, evaluated by
the property on *every* combination of request, answer, evidence and revocation reading. The
gateway is honest: it reports the generation it measured, and keeps it through an answer.

**RunStart.** `effective_policy` layers file, environment and flags; `items_for_shard` lays the
candidates over shards; `Preflight` compares manifests, and `Register` does it again in the
transaction. Two launches of one run may be at any of these points.

**Priors.** The once-cell's rebuild looks at one stored record per step and awaits its
embedding, while futures of other shards append theirs. A vector is the record it was
made of; similarity is having one topic. A rebuild that fails on something other than a record cancels
the launch before it hands the cell on (`SeedFails`); the history `began` says who began one
(`RebuiltOnce`). An append is not stopped by a cancellation.

**JudgeRequest.** One judge after the other, since concurrency is in `CachedPanel`: the
request as sent, its contract, its key, the accumulated answer, its interpretation, and
what a cached row restores, over two launches with two prompts and program versions.

**Grading.** The verifier's evidence rules, the weighted consensus, the decision, what
`judge` persists, and what `reconcile` and a later launch derive from it. Scores are tenths,
correlations hundredths, in exact integer arithmetic.

**Evaluation.** Three commands over one report each; numbers are small integers, `NaN`,
absent ones, and one past `Huge` overflows. The outcome audit follows `analyze_outcomes` from
its configuration checks to its minimum of prompts: rows of records that the corpus does not declare are ignored, and the
mean gap of the selections (in twelfths) is compared with its Hoeffding radius
`sqrt(-2 ln(1 - confidence) / n)` by their squares. `doubt` stands for the confidence: it is `-288 ln(1 - confidence)`,
a whole number, or absent for a confidence that is not between 0 and 1. The calibration fit is its squared
error per group, as an exact integer; the optimizer's arithmetic is left out.

**Screening.** `Freeze` and its extension group a population by item, text and parent;
`Begin` ... `Acknowledge` are the transactions of a screened publication, between which
`Edit` changes the store. A similarity of prompts is equality of abstract texts.

**Preference.** `Assess` freezes what it saw; `Regrade`, `Reverify`, `Move` and `Rewrite` change
records; `Prepare` compares with the store as it is then. `project` is what a trainer reads.

**References.** Registration freezes a capture; importers look up, observe each member,
and commit under the writer lock row by row, where they may be cancelled or time out.

**Sandbox.** A supervisor and a Docker daemon whose creation may take effect after the
supervisor gave up (`late`). `budget` is the wall limit. The program in the container,
and the wrapper around it, are part of the daemon's answer.

**Conversation.** Messages come one at a time from a set of shapes; every consumer
(`validate_tool_links`, `wire_messages`, `validate_tool_training_source`,
`project_sft_units`, `render`) is an operator evaluated on every conversation. A turn of
a rendered document lists the messages whose text it holds.

**SftExample.** A text is its spans, each of an owner and a kind. Both adapters are modelled:
`PrepareSerial` renders a canonical serial conversation; `PrepareText` is `prepare_target`, which renders
the target (`render_text`, the Qwen profile), lets a tokenizer cut it (`Cuts`: any offsets
that leave out combining marks, with one token of two characters at most), gives each token
the combining sequences it touches (`label_tokens`), and rejects what it cannot attribute (`accepted`). `Alter` is external:
one label, one interval or one piece of the file is changed on the way to the validator,
`validate_example`. Tokenizers whose tokens share characters and the text renderer of the Gemma profile
are left out.

**TrainingInput.** An export selects and freezes rows. The adapter begins with a snapshot that the Rust
verifier accepted (`Begin`) and takes one row per step (`BuildRow`, the loop of `build`): a row that is held
out or cannot be projected is rejected as a whole, and of another each wanted turn becomes an
example or a rejection. `Seal` counts them. `Damage`, of the artifact before or after the build, and `Alter`, of
the sealed input, are external. `verify` accepts or refuses what arrives.

**Checkpoints.** `Train` takes one microbatch after another in the recipe's order, `Seal`
writes the frame, `Damage` and `Misstatements` spoil a part of it, and the verifier works from the
bytes. A tensor holds one number, a float32 is two cells and a bfloat16 its upper one. Full models
have tied heads only.
The arithmetic of training is external: a step changes a parameter or does not.

**Rewards, Assessment.** One submission, with at most one thing wrong with it in each of
the ways the type allows (`Slips`), against the stateless evaluator (the adapter checks the report once more, which is left out, so the model
lets through more than the code); the walk of a lineage
takes one artifact per step.

**Dashboard.** Engine and screen meet in the bounded channel, but are not composed: `Dashboard` has an
engine of its own that is only what it emits. `emit` drops an event when
it is full and counts its record as `lost`.

## 3. What TLC checks

| Run | Instance | Shows |
|---|---|---|
| `store` | 2 launches x 2 callers, 2 limits, 2 attempts, 2 epochs; 3 records in 2 items, 1 edit | `RequestsAreAdmitted` (one unresolved request, below the limit, in epoch order, owned), `SealedNeverAdmits`, `ReleaseIsSeparated` |
| `best_of_k` | k = 2, 2 aggregates, 3 launches, fair | `OneWinner`, `NeverRespend`, `GroupIsDecided` (the best of a whole group, one dataset record that renders, the cursor past finished records only), `NoClobber`, `EventuallyCommitted` |
| `launch` | 2 shards of 2 items, 1 permit, threshold 2, 3 launches, fair; 2 starts over 8 sources, 6 settings, all layerings of 6 policies; a channel of 2 events; 2 rows of 1 case | `LaunchIsSound`, `LaunchMovesForward`, `StartIsFaithful`, `ScreenCatchesUp`, `SupervisorLeavesNothing`, `EveryProcessEnds` |
| `panel` | 1 panel of 4 positions over 3 requests and 2 launches, 2 panels of 3 positions; 3 futures on one topic; 2 importers of 2 members, fair | `PanelKeepsTheGravest`, `NothingIsSentInVain`, `CorpusIsExact`, `ImportIsWhole`, `SettledStays`, `EveryoneReturns` |
| `admission_wait` | 1 launch x 2 callers, fair | `BeginReturns` |
| `publication` | 2 records, 1 projection, 2 destinations, 1 fault, 1 edit | `PublishedIsDurable` (intent before bytes before acknowledgment, once), `NeverAcknowledgeChanged` |
| `teacher_path` | 3 attempts, 3 events, usage to 2; texts of 6 symbols in chunks of 4; streams of 3 deltas over 19; 2 texts to embed; 5 profiles x 2 controls over 12; 1 replica, 2 attempts, 1 reload | `CallIsAccounted`, `NoResendAfterAccounting`, `ImplementsLedger`, `ChunkingDoesNotMatter`, `TurnIsTheWholeStream`, `EmbeddingIsPerText`, `ServedAsAsked` |
| `stream_reset_not_retried` | 2 attempts | a counterexample, see below |
| `corpora` | 1 record, 2 writers, 2 bodies, 2 artifacts, counter to 5; panels of up to 3 judges over 2 tests; 9 panels of 2 over 2 launches; 3 candidates, numbers of 3 sizes, audits of 4 records under 1 or 2 prompts; 2 records changing twice | `OneStory` (envelope, history and receipts describe one history; a command commits once), `NothingIsLost` (no update is lost, no answer untrue), `GradesAreEarned`, `GatesAreHonest`, `PairsAreSound` |
| `training` | conversations of 4 messages of 12 shapes and of 5 of 8; texts of 19 characters, altered up to 13; inputs of 2 or 3 records; 3 examples, 2 updates, 1 fault; 2 tasks and 3 completions; lineages of 3 artifacts, 1 slip | `ExamplesTeachTheTarget`, `InputIsItsSource`, `CheckpointIsWhatItSays`, `RewardsAreEarned`, `EligibleMeansReviewed` |
| `dashboard_outlives_the_engine` | 1 record, a channel of 2 events, fair | a counterexample, see below |

A property of an MC module is the conjunction of the properties of its components that
answer one question, each guarded by its scenario; the components state and comment them
one by one.

*Bounds.* Each is a named constant. `MaxAttempts` of `RecordStore` is the width
of the counter, so the runs reach its overflow check; five transitions are the
longest way through the engine's edges. Two siblings suffice for every
interaction between a winner and another member, and two aggregates for a tie and
an order. Three launches allow two interruptions before the last. Two shards
on one permit make one of them wait; with a threshold of two the breaker can
trip, disarm, and be raced. Two attempts let an orphan meet a new request, two
epochs let a launch be superseded, two launches contend, and the smaller limit is
reached by one request. One fault and one edit place, for example, a crash
after the rename and a change before the recovery, at either destination. Three distinct
requests let two failures of different gravity meet a third that still runs. Three
futures of two items are the least that a rebuild, an append and an exclusion need.
Three events let usage rise, fall, and follow an event that does not parse. Six symbols are two
complete lines, or a line and one cut anywhere. Three deltas are two fragments of a call
and its finish, or two interleaved calls cut before theirs. Four messages are two
calls with two answers in either order. Three examples in microbatches of two leave a short
one at the end of an epoch, and two updates reach into the next. Three artifacts are a
base, a parent and what is asked for, or a diamond. Four records under one or two prompts are the least
that selections need to gain something under both; a certified lower bound from so few is
possible because the audited confidences are low (`doubt` 16 and 24: about 0.05 and 0.08), so that verdicts on both
sides of every gate occur. Nineteen characters hold a conversation of five messages with an answer of two, so
that the answer's marks and whitespace stand next to a boundary; thirteen, in which a file
is altered, hold one of three.

Deadlock checking is off where the system may stop: a settled item, an ended
run, a returned call, exhausted bounds, an idle publisher and a written report
are legitimate ends; liveness properties cover the places where stopping would be
wrong. Symmetry is used only in runs without liveness, over sets of model values that
nothing orders.

*Fairness.* `BestOfK!FairSpec` assumes that whatever can run eventually does
(tokio polls ready futures, and a model request ends) and that an unsettled run is
launched again; the last launch is undisturbed (`MayDisturb`), since no system
makes progress under endless crashes. In `Executor!FairSpec` each shard task is
strongly fair, because tokio's semaphore is FIFO and a waiting shard is served
although the permit is taken by others in between. In `Admission!FairSpec` the
gate is a FIFO mutex, hence strong fairness for `LockGate` and `Settle`, which lock it;
the endpoint owes nothing, so that a request in flight may never end (`Ends` has no
fairness). `CachedPanel!FairSpec` polls a panel that can move, `Priors!FairSpec` every future.
`References!FairSpec` runs an import on: its containers are bounded, and SQLite's
busy timeout ends a wait for the writer lock. `Sandbox!FairSpec` runs the supervisor,
every call of which is under a timer (`CONTROL_LIMIT`, the wall limit); nothing is
assumed of the daemon. `Dashboard!FairSpec` polls the loop and lets the engine finish; nobody
has to press a key. Nothing is assumed about metadata arriving or about cancellation.
A waiting caller of `begin` needs no notification: the code wakes it every 100 ms (`Wake`).

That a model request ends is an assumption about the endpoint, which the code does
not enforce: the HTTP client is built without a timeout
(`gw-providers/client.rs:186`). An endpoint that accepts a request and then says
nothing holds its call, the permit, and under a finite policy the only admission of
the run, until the process is killed: cancellation is cooperative and does not interrupt a
request. `EventuallyCommitted`, `EveryProcessEnds` and `EveryoneReturns` make this assumption and say that nothing
else can stop a launch. `BeginReturns` does not make it: a caller that waits for an
admission is answered unless the endpoint never answers a request of the caller's own
launch, and is answered even then once the launch is cancelled.

*Counterexamples.* `retry.rs` (line 3-4) lists stream resets among what is retried, and
`sse.rs:159-160` expects that an incomplete response is seen by "the retry layer".
`ResetIsRetried` states that, and `stream_reset_not_retried` violates it: only
`send_once` is inside the retried closure, and it returns at the response headers.
A stream that breaks off afterwards is settled as failed and ends the call at its
first attempt, however many the policy allows.

`commands/tui.rs` (line 69-70) says that "when the engine finishes + drops the sink
the channel closes and this returns". `ReturnsWithTheEngine` states that, and
`dashboard_outlives_the_engine` violates it: at the end of the channel the loop only
stops polling it (`event_loop.rs:104`), and leaves the end to a key or to the token, which
nothing cancels for a finished engine.

*Words and code.* Where modelling met other statements that the code does not keep, the
modules follow the code:

- "The stored `content` is ALWAYS clean" (`gw-format/ingest.rs:5`), but a refusal takes the
  place of an empty content as it came (`gw-generate/assistant.rs:195-199`), after the cleaning.
- A training example is one "ending at an assistant" (`gw-format/projection.rs:23`), but a
  system message before the target and no user message between become a user turn after it
  (`gw-format/render/gemma4.rs:138-144`).
- An implicit tool result may answer a call that an explicit one has answered
  (`gw-schema/tool_links.rs:59-61,130-150` against lines 28 and 119-121);
  `LinksResolve` says what does hold.
- A refusal streamed in pieces keeps only its last piece (`assistant.rs:298-300`).
- The usage a record keeps is the first a stream reports (`assistant.rs:318-321`), the
  ledger keeps the latest.
- Strict tool training accepts an empty `tool_calls` list, which `wire_messages` refuses.
- A comment names the encoding of a seed plan `seed-plan-v1` (`gw-schema/run_manifest.rs:67`),
  `gw-engine/plan.rs:58` writes `seed-plan-v3`.

## 4. What is proved

`BestOfK_proofs` proves, for every `K`, every set of aggregates and every number
of launches:

| Theorem | Statement |
|---|---|
| `TypeCorrect` | `Spec => []TypeOK` |
| `NeverTwoWinners` | `Spec => []OneWinner` (INVARIANT 11 of the engine) |
| `TeacherNeverRespent` | `Spec => []NeverRespend` |
| `DecidedRecordsAreKept` | `Spec => NoClobber`, an action property |
| `GroupsAreDecidedOnce` | `Spec => []GroupIsDecided`: `WinnerIsBest`, `OneDatasetRecord`, `DecideTogether`, `CursorPastDoneOnly` and `AdmittedRenders` |

They rest on `KAssumption` (`K` is a positive natural), `ScoresAssumption`,
`LaunchesAssumption` and `NoneAssumption` (`None` is no record, no index and no decision),
which TLC evaluates in the run `best_of_k`. The first four follow from `Invariance`,
`Spec => []IInv`. `OneWinner` alone is not inductive: a step that admits the
elected sibling is harmless only if no other sibling was established when it
was elected, and an election sees every established sibling only if every
sibling has a record by then. Hence

- `Discipline`: where the item is (`pc`) determines what every sibling future may
  be doing, and a future that is past its generation has a record; a joined one
  has a record or left an interruption behind;
- `JudgedHasDecision`: what a reconcile step reads exists;
- `WinnerStandsAlone`: during the finalization nobody but the winner is
  established;
- `NeverRespend`: an answer is only ever stored where nothing was stored, which
  is also what `NoClobber` needs.

The lemmas `RecStep` and `RetryStep` say once, over all actions, what a step can
do to one record; the preservation of the record-related conjuncts is argued from
them, and `TypeStep` and `DisciplineStep` go through the actions one by one.

`GroupIsDecided` relates the records to an election that may have been repeated by later
launches, so it needs a second invariant, `GInv`. `GroupDriven` says nobody is
decided before all were driven; `RunnersUp` that whoever was rejected for another's sake was
beaten by a sibling that still stands, which survives a crash between the two, because the
election of the next launch finds the same order (`BeatsTransitive`); `Graded` that only an
admissible record is established; `SingleRevise` that one sibling at most revises
and its retry alone exists; `Settling` how far the loops came, so the cursor passes
only what they dealt with; and `AllRender` that what is admitted, or is at `Judged` and admissible, was rendered
by its judge, so that formatting it cannot fail. `EdgeStep` lists the edges a step may take a record along, for all actions at once.

`TeacherPath_proofs` proves, of `ProviderCall`, for every retry policy, every usage an endpoint may
report and every length of a stream:

| Theorem | Statement |
|---|---|
| `Accounted` | `Spec => []CallIsAccounted` |
| `NeverResent` | `Spec => NoResendAfterAccounting`, an action property |
| `Implements` | `Spec => ImplementsLedger`: the call implements `AttemptLedger` |

They rest on `CallAssumption` and `NoneAssumption`, and follow from `Invariance`. Its
conjuncts: `Position`, the receipt a call owns is the newest; `Phases`, what each receipt
holds is determined by where the call is suspended; `Ending`, the error and the outcome
still to be written are those of the newest receipt; `Usages`; and `ReturnIsAccounted`, what
was told is on the ledger. A failing write is the hard case: it may leave the ledger of
before or of after, and the call returns either way. `Sound` says what holds of *any* ledger a write
may leave behind, and the lemma `Abandoned` covers every failure and every drop with it. In the
refinement every step maps to a write, to an answer, to both at once, or to a stutter:
observing usage, waiting and sending are not seen by the contract.

Of `EmbeddingCall` it proves, for any number of texts and any set of answers, that

| Theorem | Statement |
|---|---|
| `EmbeddingsArePerText` | `MCSpec => EmbeddingIsPerText`: an answer that is returned has the vector of each text in its place, and the call implements `AttemptLedger` |

from `EmbeddingConstants`. `Suspended` is the invariant: where the call is determines the one receipt
it may have and what it holds. That the vectors are in order is a counting argument: the
code checks that there are as many data as texts and that every text is named, and sorts by the index; that
no index then occurs twice is a pigeonhole, a surjection between finite sets of one size
being injective. Both kinds of call implement one contract, which has room for retries
that an embedding call never makes.

Of `SseDecoder` it proves, for any length of a response body and of its chunks, that

| Theorem | Statement |
|---|---|
| `ChunksStayWhole` | `MCSpec => []ChunkingDoesNotMatter`: what the consumer gets depends on the bytes and their end only, never on where the chunks were cut |

from `DecoderAssumption`, that the length is a natural number. The invariant is `DecoderInv`: what was
yielded, followed by what is ready, is what the bytes so far amount to, and while the buffer is still to be
read it is the line being read. The step that matters is a chunk: `IngestReads` says that
what `ingest` finds in the line being read and the chunk together is what the symbol by symbol scan adds
to its items over that chunk, and leaves the line the scan is at. It goes by induction on the
length of the chunk; a chunk that ends a line is cut after it (`ChunkEndsLine`), and
what is left is a shorter chunk after a longer text, unless the sentinel came, after which neither side
reads on. Both sides are computations that must first be shown to exist: `ingest`, recursive over texts, by induction on their
length (`IngestExists`), and the library's fold, recursive over sets of positions, on their cardinality
(`ScanExists`). An induction over the naturals is the existence of a least element
(`Inductive`).

`Store_proofs` proves, of `Admission`, for any number of launches and callers, any limits and costs,
and any number of attempts and policies:

| Theorem | Statement |
|---|---|
| `Admitted` | `Spec => []RequestsAreAdmitted`: `OneUnresolved`, `DispatchThreshold`, `EpochOrder` and `LiveIsOwned` |
| `FailedNeverAdmits` | `Spec => SealedNeverAdmits`, an action property |

They rest on `AdmissionAssumption` and `NoneAssumption`. The lemma `LedgerStep` says the four
ways a step can leave the ledger: untouched, a launch registered, an intent appended after an
admission, or an unsettled receipt rewritten by the caller that holds it. `OneUnresolved` and
`EpochOrder` follow from that and `Registered` (what a launch registered is the effective
policy or an older one). `DispatchThreshold` is about the past, so it also needs that a receipt
an admission relied on is never written again: a writer's attempt is its own and
unsettled. That, and that no admission is decided in a launch already sealed, is `Custody`: who holds which
attempt and which gate, argued action by action through the frame lemmas `CustodyFrame` and `LiveFrame`.
The sum of the known costs stays uninterpreted; its value is a recursion over the receipts, and only
that equal prefixes have equal sums is used.

Of `Screening` it proves, for any finite set of records (which are naturals, so that a group has a
least one) and any items, texts and protected texts,

| Theorem | Statement |
|---|---|
| `ReleaseStaysSeparated` | `MCSpec => ReleaseIsSeparated`: `WitnessAccepts`, and the action properties `AcknowledgedStep` and `QuarantineStep` |

from `ScreeningConstants`. `ReleaseInv` says of every plan, the frozen one and the one being
published, that some records explain it: those it was frozen from, whatever was edited since. Of them its
groups are the `Components`: closed, connected and apart, each with all its reasons for quarantine.
The planner finds a group by growing it from a record; `ComponentIsLeast` and
`ComponentsAreClasses` say that what it finds is the least closed set and that these are the classes of a
partition. An extension starts from records that were grouped before: `EarlierGroupsAreInside` says
that an earlier group lies inside one new group, because the base has to be in the new population as it was, and
so a quarantine reaches all that joins it. A publication acknowledges only if the plan's records
are still those in the database; then the groups are the components of the records as they *are*, and what
is released is connected to nothing held out.

`Corpora_proofs` proves, of `RecordStore`, for any records, writers and bodies, and any width of the
attempt counter:

| Theorem | Statement |
|---|---|
| `TablesTellOneStory` | `Spec => []OneStory` |
| `NothingIsEverLost` | `Spec => []NothingIsLost` |
| `CommitsAreForever` | no step forgets a committed command, lets a refused one commit later, or changes a record other than by extending its history |

They rest on the constants' types and `NoneAssumption` (`None` is no envelope). `CommitStep` reduces a
step to one of two things: it leaves the tables alone or commits one command that is
allowed on the record as it is. The invariant is a part per record (`Told`: the rows
mirror the envelope, the remembered commands tile them, none of them twice, the last one's body is the
stored one) and a part per writer (`Asked`, `Answered`: what it submitted was computed
from the record as it is or was, and an answer stays true). An answer about a command that did
not commit stays true only if that command never can: it is `Dead`, its
expected row was taken by another. That is preserved because rows are only appended, and it is
what forbids a late commit after `Conflict`.

Of `Preference` it proves, for any bodies, grades and policies,

| Theorem | Statement |
|---|---|
| `PairsStaySound` | `MCSpec => []PairsAreSound`: `NeverBothWays`, `PairsAreCurrent`, `PairsTeach` |

from `PreferenceConstants`. `PairsInv` says that whatever is prepared could be prepared again from
the records as they are: every step that changes a record drops what was made of it.
That no two pairs prefer both ways then rests on the grades alone: a margin that is not negative
is asked for in one direction, and the direction of a pair is that of its grades.

Of `Grading` and `JudgeRequest` it proves, for any tests, number of judges, scores and
correlations, and for any panels, prompts, answers and number of attempts and launches,

| Theorem | Statement |
|---|---|
| `GradesStayEarned` | `MCSpec => []GradesAreEarned`: of the grading `EvidenceIsExact`, `VerifierHasTheLastWord`, `ReconcileAgrees` and `PreflightIsSound`; of the votes `VotesAreThisPanels`, `RowsAreAccepted` and `AssessedIsUsable` |

from `GradingConstants` (correlations are percentages, scores are integers or absent) and
`RequestConstants` (`None` is no interpretation). `GradeInv` says what a stored verdict was
decided on (`Decided`): the facts of a verifier that vetoes or abstains, no vote that counts, or the
number and the sum of those that do; re-deriving it from the record alone
(`Rederived`) then takes the same branch, with the same numbers. That the sum is a natural is proved
of the library's recursive `MapThenSumSet` by induction on the size of the set: `LeastExists` takes the
least element of a set of naturals from the well-founded induction of the library, `Inductive` the
usual form from that, both stated of sets rather than of predicates. `PreflightIsSound`
is arithmetic: an effective size of `100 n / (100 + (n - 1) rho)` judges against the two thresholds.
`VoteInv` says that a key spells out the request of the attempt its row came from (`Cached`), and
that each position's grade answers what that position asks (`Collected`): one grade may serve two
positions only if their keys are equal, and then so are their requests (`KeysTell`), which the consensus
boundary then refuses to count twice.

`Publication_proofs` proves, for any records, projections and destinations, and any number of
edits and faults:

| Theorem | Statement |
|---|---|
| `Durable` | `Spec => []PublishedIsDurable` |
| `ChangedIsNeverAcknowledged` | `Spec => NeverAcknowledgeChanged`, an action property |

They rest on `PublicationAssumption`. Two systems are written that cannot commit
together, so the invariant says what of each is durable at every position of a publisher
(`Underway`): from the inspection on its intent is in the database, from the acknowledgment on its bytes
are at the destination and were renamed there by it, and at the end the receipt is acknowledged
and the records exported. `OneDestination` says that a step touches at most one
destination, so the other publishers, an outside disturbance and an edit of a record leave `Underway` alone; the
destination's own steps are argued one by one. `FileWasRenamed` and `AcknowledgedIsExported` hold of the two
systems whoever is running: they are what a relaunched publisher relies on when it finds a
receipt or a file of its predecessor.

`Launch_proofs` proves, of `Executor`, for any finite set of shards, any number of items, permits and
launches, and any threshold of the breaker:

| Theorem | Statement |
|---|---|
| `Sound` | `Spec => []LaunchIsSound`: `PermitsConserved`, `CompletedMeansDrained`, `TripHasCause` |
| `MovesForward` | `Spec => LaunchMovesForward`, an action property |

They rest on `ExecutorAssumption` and are about `Executor`'s own `Spec`, which `MCLaunch` runs as its
scenario "launch". `Driving` says of a shard that the item it is at is the one behind its cursor and
that one that ended uncancelled has none left; `Draining` says of the launch what the joins taught it.
The other two parts are counts. The permits and the shards that hold one add up to
the limit. The breaker's parks and the errored items it has not counted yet (`Uncounted`) never exceed the errored
items (`Counted`): an item is counted by the shard that drove it, at a
later step, in which others may already have tripped the breaker.

Of `Sandbox`, the supervisor of a paired observation, and of `Dashboard` it proves, for any
number of rows and cases, and for any records shown, any capacity of the channel and any number of
revisions,

| Theorem | Statement |
|---|---|
| `LeavesNothing` | `MCSpec => []SupervisorLeavesNothing`: `SettledMeansGone`, `OneContainerPerRow`, `ReportIsAccepted` |
| `ScreenShowsTheStore` | `MCSpec => []ScreenCatchesUp` |

`SandboxInv` says which containers may be left, by where the supervisor is. The daemon may
create a container after the supervisor stopped waiting for it (`late`), so what a
supervisor *knows* and what *is* differ: `Owning` relates the two, `Probed` says that a probe
that was settled left nothing and one that was not fails the first case, and `Observing` that a case recorded as settled left neither a container
nor a creation that may still happen. `Reported` relates a finished row to the reader's
own validation. `WatchInv` looks ahead: the events still in the channel, applied in
order, lead each row of the screen to what the ledger says (`WillShow`), unless an event of it was dropped; and the
newest published accounting is shown or is in the channel, and nothing newer is (`WillAccount`).

`CachedPanel_proofs` proves, for any number of overlapping panels, any judges in any
positions, and any number of grades and launches:

| Theorem | Statement |
|---|---|
| `KeepsGravest` | `Spec => []PanelKeepsTheGravest`: `KeepsTheGravest`, `Drained`, `CompleteAndDurable` |
| `SentForAReason` | `Spec => NothingIsSentInVain`, an action property: `NeverRespend`, `SealedSendsNothing` |

They rest on `PanelAssumption`. `KeepingGravest` is a fact about sequences alone: if what is
kept is the first of the gravest failures seen, `Keeps` leaves it so after one more. `Course` and `Backed`
carry the rest: where a panel is determines what a request may have come to, and that
determines what there is of it in the panel and in the cache. `RequestKeeps` says once what
any step of a request must leave behind, `Frame` that it leaves the other panels
alone and loses no cached grade. A panel that met no failure has only hits and stored
answers when nothing is pending, so it has all grades: the type invariant excludes the
"omitted" outcome, which the code reports as an error. `NeverRespend` has the premise `Alone`
because the code promises nothing for panels that overlap; its proof needs `Uncached`, that
nobody else fills the cache between the miss and the request.

`Panel_proofs` also proves, of `Priors`, for any set of records,

| Theorem | Statement |
|---|---|
| `CorpusStaysExact` | `MCSpec => []CorpusIsExact`: `CorpusExact`, `GatedAgainstSettled` |
| `WhatIsSettledStays` | `MCSpec => SettledStays`, an action property of the corpus, the import and the overlapping panels together |

from `PriorConstants`. The corpus is rebuilt once, by whichever future comes first, while others
may append; nothing orders the two but the cell. `CorpusInv` says that one future at most
rebuilds (`Rebuilt`), from records that were admitted; that the corpus holds each record once, and what is
cached of an exclusion is true of the corpus as it is (`Exact`); and that whoever is admitted is in the corpus, is
about to be appended, or is still before the one that rebuilds (`Covered`). `WhatIsSettledStays` says three
things of a step: it keeps the first evidence of an import; it begins the rebuild only if nobody has begun it,
for which `Begun` says that a rebuild that is over without filling the cell has cancelled the launch,
and a cancelled launch begins none; and in the part of overlapping panels it sends nothing after a failure of the
launch. It claims nothing of cached grades, which a later panel may replace, nor of
appends. It takes its third part from `CachedPanel_proofs`, instantiated for the panels that `MCPanel` composes,
whose assumption follows from `MCPanel`'s own.

`Panel_proofs` proves, of `References`, for any size of a catalogue, any families and components, and any
number of import processes:

| Theorem | Statement |
|---|---|
| `ImportedWhole` | `Spec => []ImportIsWhole`: `TypeOK`, `WholeOrNothing`, `ImportAnswers`, `HeldOutIsDisjoint` |
| `EvidenceStays` | `Spec => FirstEvidenceStays`, an action property |

They rest on `ReferenceConstants`, a hypothesis of the theorems that `MCPanel` assumes of its
instance. `BatchStep` says what a step can do to the batch: nothing, or, by a process that is
prepared, commit its whole transaction where no batch was. `Locked` gives one process at
a time the writer lock, so nobody else disturbs a transaction between its look for a
batch and its commit (`OthersFrame`); `Importing` says how much a process has observed
and written at each place, which makes the committed rows exactly the members;
and `Numbered` that the attempt which committed was made and is over, without which a later
attempt of the same process could be taken for it. `HeldOutIsDisjoint` follows from
`Validated`: only a catalogue that validates is registered, and it is never changed.

The MC modules hold several components, and the properties that the runs check are stated of their
`MCSpec`. Such a theorem is lifted from the component's: `scenario` never changes (`Turns` and
the like), an initial state of the scenario is one of the component and a step is a step of the
component or leaves it alone, so the component's theorem applies whenever the scenario is its own.

### What is only model-checked

- Liveness under fairness (`EventuallyCommitted`, `EveryProcessEnds`, `EveryoneReturns`,
  `BeginReturns`), which the prover's backends cannot establish.
- What most recursive computations return for every input. An induction over the naturals can
  be made, as for the sum of `GradesAreEarned` and the scan of `ChunkingDoesNotMatter`, where
  the computation is a recursive function or a fold over positions that unfolds to one. Left to
  TLC are the turn assembled from a stream (`TurnIsTheWholeStream`), the rounds of a
  conversation and the positions of a schedule (`ExamplesTeachTheTarget`, `InputIsItsSource`,
  `CheckpointIsWhatItSays`), the sums and folds of an audit, a reward report and a lineage
  (`GatesAreHonest`, `RewardsAreEarned`, `EligibleMeansReviewed`), the inputs of a run in order
  (`EveryInputOnce` of `StartIsFaithful`) and the walk over a request's controls
  (`ServedAsAsked`).
## 5. Not modelled

Prompt texts, rendering templates' literal text, Parquet encoding, JSON syntax, schema
fields and wording: data without control. Floating-point statistics of the calibration, of
the promotion gate and of the numeric verifier: only what they depend on is modelled. The text renderer of the
Gemma profile and tokenizers whose tokens share characters. The
limiter's timing and the backoff delays, which no decision reads. Drawing, layout and
key bindings of the dashboard. Authentication of a gateway. Command-line parsing and wiring
in `gw-cli`, apart from the commands with control of their own. The third-party
training loops, their losses and the offline evaluation scripts of `adapters/`. The
program inside a container. The power-loss behaviour of the file system, for which the code
gives no guarantee either. `PROJECT.json` lists every component and its status.

One hazard has no property: two overlapping panels may both pay for one grade
(`gw-storage/cache.rs:254`), which the code documents. That no timeout bounds a model request is
part of what `BeginReturns` says (section 3).

## 6. What is left

- A composition of `ProviderCall` with `Admission`: several calls of one run over one
  ledger. Each is checked against what the other may do to it, not with it.
- An abstract "publish and acknowledge" that `Publication` implements, and a shard as a
  sequence of settled items that `Executor` implements, with `BestOfK` refining one item.

------------------------------ MODULE Executor ------------------------------
(***************************************************************************)
(* One generation run (gw-engine/src/executor.rs: run_launch, run_shard,   *)
(* CircuitBreaker; checkpoint.rs).  Shards run concurrently, each drives   *)
(* its seed items in order under a shared pool of permits, a shared        *)
(* cancellation token and a shared circuit breaker, and commits its cursor *)
(* after each settled item.  The launch joins every shard before it writes *)
(* a terminal run status.  A crash leaves the cursors and the status; a    *)
(* relaunch resumes from the cursors.                                      *)
(*                                                                         *)
(* What happens inside an item is the module BestOfK; here an item only    *)
(* has an outcome.                                                         *)
(***************************************************************************)
EXTENDS Integers, FiniteSets

CONSTANTS Shards,       \* the shards of the captured plan
          Items,        \* seed items per shard
          MaxInFlight,  \* permits of the semaphore (max_in_flight)
          Threshold,    \* CIRCUIT_BREAKER_PARKS
          Export,       \* whether an export destination is configured
          MaxLaunches,  \* bound: launches of the run
          None

ASSUME ExecutorAssumption ==
    /\ IsFiniteSet(Shards)
    /\ Items \in Nat /\ MaxInFlight \in Nat \ {0} /\ Threshold \in Nat \ {0}
    /\ Export \in BOOLEAN /\ MaxLaunches \in Nat
    /\ None \notin {"running", "halted", "completed", "failed"}

VARIABLES cursor,     \* durable: next uncommitted offset of each shard
          status,     \* durable: the run ledger's status
          published,  \* durable: the run's artifact was published
          launches,   \* launches so far
          pc,         \* where run_launch is
          shard,      \* where each run_shard task is
          offset,     \* the item each run_shard is at
          outcome,    \* what process_item returned for it
          permits,    \* free permits of the semaphore
          cancelled,  \* the CancellationToken
          failure,    \* primary_failure.is_some()
          halted,     \* the flag read once after the joins
          parks,      \* breaker: consecutive_parks
          disarmed,   \* breaker: disarmed
          errored     \* history: items of this launch that all errored

durable == <<cursor, status, published>>
breaker == <<parks, disarmed>>
vars == <<durable, launches, pc, shard, offset, outcome, permits, cancelled,
          failure, halted, breaker, errored>>

Running == {"acquire", "process", "judged health", "disarming", "counting",
            "commit"}

-----------------------------------------------------------------------------

\* register_accounting_launch set the ledger to running; fresh process state.
Launch ==
    /\ pc = "down" /\ launches < MaxLaunches
    /\ launches' = launches + 1
    /\ status' = "running"
    /\ pc' = "shards"
    /\ shard' = [s \in Shards |-> "load"]
    /\ offset' = [s \in Shards |-> 0]
    /\ outcome' = [s \in Shards |-> None]
    /\ permits' = MaxInFlight
    /\ cancelled' = FALSE /\ failure' = FALSE /\ halted' = FALSE
    /\ parks' = 0 /\ disarmed' = FALSE /\ errored' = {}
    /\ UNCHANGED <<cursor, published>>

Crash ==
    /\ pc # "down" /\ launches < MaxLaunches
    /\ pc' = "down"
    /\ UNCHANGED <<durable, launches, shard, offset, outcome, permits,
                   cancelled, failure, halted, breaker, errored>>

Cancel ==
    /\ pc # "down" /\ ~ cancelled
    /\ cancelled' = TRUE
    /\ UNCHANGED <<durable, launches, pc, shard, offset, outcome, permits,
                   failure, halted, breaker, errored>>

-----------------------------------------------------------------------------
(* run_shard                                                               *)

Step(s, from, to) ==
    /\ pc = "shards" /\ shard[s] = from
    /\ shard' = [shard EXCEPT ![s] = to]
    /\ UNCHANGED <<status, published, launches, pc, failure, halted>>

\* load_cursor: committed items are skipped.  Reading it may fail.
Load(s) ==
    /\ \/ /\ Step(s, "load", "loop")
          /\ offset' = [offset EXCEPT ![s] = cursor[s]]
       \/ Step(s, "load", "failed") /\ UNCHANGED offset
    /\ UNCHANGED <<cursor, outcome, permits, cancelled, breaker, errored>>

\* The head of the loop: out of items, cancelled, or on to the semaphore.
NextItem(s) ==
    /\ \/ /\ offset[s] = Items \/ cancelled
          /\ Step(s, "loop", "finished")
       \/ /\ offset[s] < Items /\ ~ cancelled
          /\ Step(s, "loop", "acquire")
    /\ UNCHANGED <<cursor, offset, outcome, permits, cancelled, breaker, errored>>

\* The biased select: cancellation wins over a free permit.
Acquire(s) ==
    /\ \/ /\ cancelled
          /\ Step(s, "acquire", "finished") /\ UNCHANGED permits
       \/ /\ ~ cancelled /\ permits > 0
          /\ Step(s, "acquire", "process") /\ permits' = permits - 1
    /\ UNCHANGED <<cursor, offset, outcome, cancelled, breaker, errored>>

\* Mutated: the permit of an item that errored is never returned.
ProcessItemLeaks(s) ==
    \/ /\ Step(s, "process", "judged health")
       /\ permits' = permits + 1
       /\ outcome' = [outcome EXCEPT ![s] = "Decided"]
       /\ UNCHANGED <<cursor, offset, breaker, cancelled, errored>>
    \/ /\ Step(s, "process", "judged health")
       /\ outcome' = [outcome EXCEPT ![s] = "AllErrored"]
       /\ errored' = errored \cup {<<s, offset[s]>>}
       /\ UNCHANGED <<cursor, offset, permits, breaker, cancelled>>
    \/ /\ Step(s, "process", "finished") \/ Step(s, "process", "failed")
       /\ permits' = permits + 1 /\ cancelled' = TRUE
       /\ UNCHANGED <<cursor, offset, outcome, breaker, errored>>

\* process_item returns and the permit is dropped, whatever it returned.
ProcessItem(s) ==
    /\ permits' = permits + 1
    /\ \/ \E health \in {"Decided", "AllErrored"} :     \* settled
             /\ Step(s, "process", "judged health")
             /\ outcome' = [outcome EXCEPT ![s] = health]
             /\ errored' = IF health = "AllErrored"
                           THEN errored \cup {<<s, offset[s]>>} ELSE errored
             /\ UNCHANGED cancelled
       \/ /\ Step(s, "process", "finished")             \* interrupted or halted
          /\ \/ cancelled /\ UNCHANGED cancelled
             \/ ~ cancelled /\ cancelled' = TRUE
          /\ UNCHANGED <<outcome, errored>>
       \/ /\ Step(s, "process", "failed")               \* a systemic fault
          /\ cancelled' \in {cancelled, TRUE}
          /\ UNCHANGED <<outcome, errored>>
    /\ UNCHANGED <<cursor, offset, breaker>>

\* CircuitBreaker::observe: two atomics, so another shard may come between.
ObserveFirst(s) ==
    /\ \/ /\ outcome[s] = "Decided"
          /\ Step(s, "judged health", "disarming") /\ disarmed' = TRUE
       \/ /\ outcome[s] = "AllErrored" /\ disarmed
          /\ Step(s, "judged health", "commit") /\ UNCHANGED disarmed
       \/ /\ outcome[s] = "AllErrored" /\ ~ disarmed
          /\ Step(s, "judged health", "counting") /\ UNCHANGED disarmed
    /\ UNCHANGED <<cursor, offset, outcome, permits, cancelled, parks, errored>>

ObserveSecond(s) ==
    /\ \/ Step(s, "disarming", "commit") /\ parks' = 0
       \/ /\ parks + 1 < Threshold
          /\ Step(s, "counting", "commit") /\ parks' = parks + 1
       \/ /\ parks + 1 >= Threshold
          /\ Step(s, "counting", "tripped") /\ parks' = parks + 1
    /\ UNCHANGED <<cursor, offset, outcome, permits, cancelled, disarmed, errored>>

CommitCursor(s) ==
    /\ \/ /\ Step(s, "commit", "loop")
          /\ cursor' = [cursor EXCEPT ![s] = offset[s] + 1]
          /\ offset' = [offset EXCEPT ![s] = offset[s] + 1]
       \/ Step(s, "commit", "failed") /\ UNCHANGED <<cursor, offset>>
    /\ UNCHANGED <<outcome, permits, cancelled, breaker, errored>>

RunShard(s) == \/ Load(s) \/ NextItem(s) \/ Acquire(s) \/ ProcessItem(s)
               \/ ObserveFirst(s) \/ ObserveSecond(s) \/ CommitCursor(s)

-----------------------------------------------------------------------------
(* run_launch around the shards                                            *)

\* join_next, in completion order: a failed shard seals the token, the rest
\* drain.
Join(s) ==
    /\ pc = "shards" /\ shard[s] \in {"finished", "failed", "tripped"}
    /\ shard' = [shard EXCEPT ![s] = "joined"]
    /\ failure' = (failure \/ shard[s] # "finished")
    /\ cancelled' = (cancelled \/ shard[s] # "finished")
    /\ UNCHANGED <<durable, launches, pc, offset, outcome, permits, halted,
                   breaker, errored>>

\* Mutated: a failure is handled without waiting for the other shards.
FailAtOnce ==
    /\ pc = "shards"
    /\ \/ failure /\ pc' = "failing" /\ UNCHANGED halted
       \/ /\ \A s \in Shards : shard[s] = "joined"
          /\ ~ failure /\ pc' = "finalize" /\ halted' = cancelled
    /\ UNCHANGED <<durable, launches, shard, offset, outcome, permits,
                   cancelled, failure, breaker, errored>>

\* Mutated: cancellation is not looked at after the joins.
JoinedNeverHalted ==
    /\ pc = "shards" /\ \A s \in Shards : shard[s] = "joined"
    /\ \/ failure /\ pc' = "failing" /\ UNCHANGED halted
       \/ ~ failure /\ pc' = "finalize" /\ halted' = FALSE
    /\ UNCHANGED <<durable, launches, shard, offset, outcome, permits,
                   cancelled, failure, breaker, errored>>

AllJoined ==
    /\ pc = "shards" /\ \A s \in Shards : shard[s] = "joined"
    /\ \/ failure /\ pc' = "failing" /\ UNCHANGED halted
       \/ ~ failure /\ pc' = "finalize" /\ halted' = cancelled
    /\ UNCHANGED <<durable, launches, shard, offset, outcome, permits,
                   cancelled, failure, breaker, errored>>

Finish(label) ==
    /\ pc' = label
    /\ UNCHANGED <<cursor, launches, shard, offset, outcome, permits, cancelled,
                   failure, halted, breaker, errored>>

\* export_shard, only for a run that was not halted.
ExportShard ==
    /\ pc = "finalize"
    /\ \/ (halted \/ ~ Export) /\ UNCHANGED published /\ Finish("report")
       \/ ~ halted /\ Export /\ published' = TRUE /\ Finish("report")
       \/ ~ halted /\ Export /\ published' \in {published, TRUE} /\ Finish("failing")
    /\ UNCHANGED status

\* The report and set_run_status; either may fail.
SetRunStatus ==
    /\ pc = "report"
    /\ \/ /\ status' = IF halted THEN "halted" ELSE "completed"
          /\ Finish("down")
       \/ UNCHANGED status /\ Finish("failing")
    /\ UNCHANGED published

\* mark_run_failed: a failure to persist the status is only logged.
MarkRunFailed ==
    /\ pc = "failing"
    /\ status' \in {status, "failed"}
    /\ Finish("down")
    /\ UNCHANGED published

-----------------------------------------------------------------------------
Init ==
    /\ cursor = [s \in Shards |-> 0]
    /\ status = None /\ published = FALSE
    /\ launches = 0 /\ pc = "down"
    /\ shard = [s \in Shards |-> "load"]
    /\ offset = [s \in Shards |-> 0]
    /\ outcome = [s \in Shards |-> None]
    /\ permits = MaxInFlight
    /\ cancelled = FALSE /\ failure = FALSE /\ halted = FALSE
    /\ parks = 0 /\ disarmed = FALSE /\ errored = {}

Drive == \/ \E s \in Shards : RunShard(s) \/ Join(s)
         \/ AllJoined \/ ExportShard \/ SetRunStatus \/ MarkRunFailed

Next == Launch \/ Crash \/ Cancel \/ Drive

Spec == Init /\ [][Next]_vars

\* Each shard task is polled while it can run, and so is the launch itself.
\* The semaphore is FIFO-fair: a shard waiting for a permit gets one.
FairSpec == /\ Spec
            /\ \A s \in Shards : SF_vars(RunShard(s)) /\ WF_vars(Join(s))
            /\ WF_vars(AllJoined \/ ExportShard \/ SetRunStatus \/ MarkRunFailed)

-----------------------------------------------------------------------------
(* Properties                                                              *)

ShardState == Running \cup {"load", "loop", "finished", "failed", "tripped",
                            "joined"}

\* Every variable has its declared shape.
TypeOK ==
    /\ cursor \in [Shards -> 0 .. Items] /\ offset \in [Shards -> 0 .. Items]
    /\ status \in {None, "running", "halted", "completed", "failed"}
    /\ published \in BOOLEAN /\ cancelled \in BOOLEAN /\ failure \in BOOLEAN
    /\ halted \in BOOLEAN /\ disarmed \in BOOLEAN
    /\ launches \in Nat /\ parks \in Nat /\ permits \in 0 .. MaxInFlight
    /\ pc \in {"down", "shards", "finalize", "report", "failing"}
    /\ shard \in [Shards -> ShardState]
    /\ outcome \in [Shards -> {None, "Decided", "AllErrored"}]
    /\ errored \subseteq Shards \X (0 .. Items)

\* A permit is held exactly while an item is processed, on every error path
\* too, so faults can neither leak permits nor overcommit the pool (E5/E10).
PermitsConserved ==
    /\ TypeOK
    /\ permits + Cardinality({s \in Shards : shard[s] = "process"}) = MaxInFlight

\* A run that is reported completed, or whose artifact was published, has no item
\* left behind a cursor: relaunching it generates nothing, and the artifact is of
\* the whole run.
CompletedMeansDrained ==
    status = "completed" \/ published => \A s \in Shards : cursor[s] = Items

\* No terminal status is written while a shard still drives an item: the
\* launch joins them all first, failed or not.
DrainBeforeStatus ==
    [][status' # status /\ status' # "running" =>
          \A s \in Shards : shard[s] = "joined"]_vars

\* The breaker trips only when at least Threshold items of this launch errored
\* with none decided that any of them saw.
TripHasCause ==
    \A s \in Shards : shard[s] = "tripped" => Cardinality(errored) >= Threshold

\* Cursors move forward one settled item at a time, across relaunches: no item is
\* skipped and none is driven again once it is behind the cursor.
CursorSteps ==
    [][\A s \in Shards : cursor'[s] # cursor[s] =>
          /\ cursor'[s] = cursor[s] + 1
          /\ shard[s] = "commit" /\ offset[s] = cursor[s]]_vars

\* No deadlock on permits, joins or the token: a launch always comes to an end.
LaunchEnds == (pc # "down") ~> (pc = "down")

\* A launch keeps its books (run_launch, run_shard): no permit is lost on any path of
\* an item, a run is completed or published only when every shard drained, and the
\* breaker trips only on parks of this launch.
LaunchIsSound == PermitsConserved /\ CompletedMeansDrained /\ TripHasCause

\* A terminal status follows the last write of every shard (the joins come first), and
\* a durable cursor only ever steps to the next item, over crashes and resumes.
LaunchMovesForward == DrainBeforeStatus /\ CursorSteps
=============================================================================

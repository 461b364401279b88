------------------------------ MODULE MCLaunch -------------------------------
(* A launch. Two shards of two items contend for one permit over three     *)
(* launches (Executor, with the variables of its module); two processes    *)
(* start or resume one run (RunStart); a record of the run is watched      *)
(* (Dashboard); and a supervisor runs coding tasks in containers           *)
(* (Sandbox).                                                              *)
EXTENDS Executor
CONSTANTS s1, s2, l1, l2, r1,
          Shown, Capacity, MaxRevision, \* the records watched, the channel, the ledger
          SandboxRows, SandboxCases     \* the size of a supervisor's request

VARIABLES scenario, \* the component the behaviour is about; the others stay idle
          run, records, start_cursor, at,
          ledger, revision, read, engine, queue, lost, watch_published, rows,
          accounting, loop, token,
          sandbox_pc, row, case, owned, boxes, late, runnable, probed,
          budget, sandbox_cancelled, cases, sandbox_rows

MCShards == {s1, s2}

------------------------------------------------------------------------------
(* Two launches of one run: every pair of sources, settings and modes      *)
(* below, or one that meets every layering of policies with one that is    *)
(* refused.                                                                *)
Plain(t) == [text |-> t, label |-> None, source |-> None, group |-> None, split |-> None]
Task(t, lab, src, g, sp) == [text |-> t, label |-> lab, source |-> src, group |-> g, split |-> sp]
File(input, n) == [given |-> None, input |-> input, shards |-> n]
Given(shards) == [given |-> shards, input |-> None, shards |-> None]
Seeded(seed, off, c) == [seed |-> seed, offset |-> off, candidate |-> c]
Three == <<Plain("a"), Plain("b"), Plain("a")>>
MCSources ==
    {File(Three, 0), File(Three, 2), File(<<Plain("b"), Plain("a"), Plain("a")>>, 2),
     File(<<Task("a", "x", "s1", "g", "train"), Task("b", "y", "s2", "g", "train")>>, 2),
     File(<<Task("a", "x", "s1", "g", "train"), Task("b", "y", "s2", "g", "test")>>, 2),
     File(<<Task("a", "x", "s1", "g", "train"), Task("a", "y", "s1", "h", "train")>>, 2),
     Given(<<<<Seeded(7, 0, Plain("a")), Seeded(7, 1, Plain("b"))>>>>),
     Given(<<<<Seeded(7, 0, Plain("a"))>>, <<Seeded(7, 0, Plain("b"))>>>>)}
Think(e, cap) == [effort |-> e, cap |-> cap]
Base == [area |-> Think(None, None), judge |-> Think(None, None), cot |-> TRUE, k |-> 1]
MCSettings ==
    {Base, [Base EXCEPT !.k = 0], [Base EXCEPT !.cot = FALSE],
     [Base EXCEPT !.area = Think("high", None)], [Base EXCEPT !.judge = Think("high", 9)],
     [Base EXCEPT !.judge = Think("high", None), !.area = Think(None, 9)]}
Layer(m, lim) == [mode |-> m, limit |-> lim]
NoPolicy == [file |-> None, env |-> None, flags |-> None]
MCLayers == {None, Layer("finite_usd", 1), Layer("finite_usd", None),
             Layer("observation_only", None), Layer(None, 2), Layer("finite_usd", -1)}
MCPolicies == [file : MCLayers, env : MCLayers, flags : MCLayers]
Asked(src, m, p, s, a) ==
    [source |-> src, mode |-> m, policy |-> p, settings |-> s, actual |-> a]
MCOptions ==
    {Asked(src, m, NoPolicy, Base, Base) : src \in MCSources, m \in {"create", "replay"}}
    \cup {Asked(File(Three, 2), "create", NoPolicy, s, s) : s \in MCSettings}
    \cup {Asked(File(Three, 2), "create", NoPolicy, Base, a) : a \in MCSettings}
LayeredInit ==
    /\ run = None /\ records = {} /\ start_cursor = [s \in {} |-> 0]
    /\ \E p \in MCPolicies :
         at = [l \in {l1, l2} |->
                 [pc |-> "load", plan |-> None, policy |-> None, time |-> 0,
                  opt |-> IF l = l1
                          THEN Asked(File(Three, 2), "create", p, Base, Base)
                          ELSE Asked(File(Three, 2), "create", NoPolicy,
                                     [Base EXCEPT !.judge = Think("high", 9)], Base)]]
Begins == INSTANCE RunStart WITH
    Launches <- {l1, l2}, Options <- MCOptions, MaxTime <- 3,
    cursor <- start_cursor
start_vars == <<run, records, start_cursor, at>>

------------------------------------------------------------------------------
(* One record, a channel of two events, two revisions of the ledger.       *)
Watched == INSTANCE Dashboard WITH published <- watch_published
ASSUME WatchAssumption == Watched!DashboardConstants
watch_vars == <<ledger, revision, read, engine, queue, lost, watch_published,
                rows, accounting, loop, token>>

------------------------------------------------------------------------------
(* Two rows of one case each.                                              *)
Supervisor == INSTANCE Sandbox WITH
    Rows <- SandboxRows, Cases <- SandboxCases, pc <- sandbox_pc,
    cancelled <- sandbox_cancelled, rows <- sandbox_rows
ASSUME SupervisorAssumption == Supervisor!SandboxConstants
sandbox_vars == <<sandbox_pc, row, case, owned, boxes, late, runnable,
                  probed, budget, sandbox_cancelled, cases, sandbox_rows>>

------------------------------------------------------------------------------
MCvars == <<scenario, vars, start_vars, watch_vars, sandbox_vars>>
start_idle == run = None /\ records = None /\ start_cursor = None /\ at = None
watch_idle == /\ ledger = None /\ revision = None /\ read = None /\ engine = None
              /\ queue = None /\ lost = None /\ watch_published = None /\ rows = None
              /\ accounting = None /\ loop = None /\ token = None
sandbox_idle == /\ sandbox_pc = None /\ row = None /\ case = None /\ owned = None
                /\ boxes = None /\ late = None /\ runnable = None /\ probed = None
                /\ budget = None /\ sandbox_cancelled = None /\ cases = None /\ sandbox_rows = None

MCInit ==
    /\ scenario \in {"launch", "start", "watch", "sandbox"}
    /\ Init
    /\ IF scenario = "start" THEN (Begins!Init \/ LayeredInit) ELSE start_idle
    /\ IF scenario = "watch" THEN Watched!Init ELSE watch_idle
    /\ IF scenario = "sandbox" THEN Supervisor!Init ELSE sandbox_idle

\* A step of one component: no other takes one.
Turn(name) ==
    /\ scenario = name /\ UNCHANGED scenario
    /\ IF name = "launch" THEN TRUE ELSE UNCHANGED vars
    /\ IF name = "start" THEN TRUE ELSE UNCHANGED start_vars
    /\ IF name = "watch" THEN TRUE ELSE UNCHANGED watch_vars
    /\ IF name = "sandbox" THEN TRUE ELSE UNCHANGED sandbox_vars
launch_step == Turn("launch") /\ Next
start_step == Turn("start") /\ Begins!Next
watch_step == Turn("watch") /\ Watched!Next
sandbox_step == Turn("sandbox") /\ Supervisor!Next
MCNext == launch_step \/ start_step \/ watch_step \/ sandbox_step
MCSpec == MCInit /\ [][MCNext]_MCvars

\* The fairness of each component, while the behaviour is about it.
MCFairSpec == /\ MCSpec
              /\ \A s \in Shards : /\ SF_vars(scenario = "launch" /\ RunShard(s))
                                 /\ WF_vars(scenario = "launch" /\ Join(s))
              /\ WF_vars(/\ scenario = "launch"
                         /\ AllJoined \/ ExportShard \/ SetRunStatus \/ MarkRunFailed)
              /\ WF_sandbox_vars(scenario = "sandbox" /\ Supervisor!Supervise)

------------------------------------------------------------------------------
\* A run that is resumed or replayed goes on with what it started with, reads every
\* input of its corpus exactly once, and a later policy replaces an earlier one whole
\* (check_or_create_run, items_for_shard, effective_policy).
StartIsFaithful == scenario = "start" =>
    Begins!ResumeMeansTheSame /\ Begins!EveryInputOnce /\ Begins!LaterModeReplaces

\* When the channel is drained the screen shows the store, or says what it lost, and
\* an older accounting snapshot never replaces a newer one (EngineEvent, App::apply).
ScreenCatchesUp == scenario = "watch" => Watched!ScreenCatchesUp

\* A container a supervisor reports as settled is gone, two rows never run in two
\* containers at once, and the report it writes is one its reader accepts
\* (container.rs, paired.rs).
SupervisorLeavesNothing == scenario = "sandbox" =>
    /\ Supervisor!SettledMeansGone /\ Supervisor!OneContainerPerRow
    /\ Supervisor!ReportIsAccepted

\* Every launch that is not killed comes to an end, and every supervisor returns, if the
\* semaphore is fair, tasks are polled and every call to the daemon is bounded by a timer.
EveryProcessEnds ==
    /\ LaunchEnds
    /\ scenario = "sandbox" => Supervisor!Returns
==============================================================================

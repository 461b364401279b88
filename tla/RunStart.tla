------------------------------ MODULE RunStart ------------------------------
(***************************************************************************)
(* How a run begins and how it is taken up again: the settings of a        *)
(* launch (gw-cli config.rs, cli.rs), the seed plan it captures (gw-engine *)
(* plan.rs, seed.rs), the immutable manifest it is compared by, in a       *)
(* preflight and again inside the registering transaction (gw-storage      *)
(* run_manifest.rs, admission.rs), and the records and cursors that a      *)
(* later launch finds.  A digest is what it is of.                         *)
(***************************************************************************)
EXTENDS Integers, Sequences, FiniteSets, SequencesExt

CONSTANTS None,     \* no value
          Launches, \* processes that start or replay the one run
          Options,  \* what a launch is invoked with: [source, mode, policy, settings, actual]
          MaxTime   \* bound: item steps of one launch

VARIABLES run,     \* the run's row: None or [kind, manifest, shards, digest]
          records, \* [id, from, cot]: id is <<shard, seed>>, from the candidate it was made of
          cursor,  \* shard -> offset committed
          at       \* launch -> [pc, opt, plan, policy, time]
vars == <<run, records, cursor, at>>

--------------------------------------------------------------------------
(* Settings.                                                               *)

\* A layer states [mode, limit], either of them None, or nothing at all (None).
Field(layer, f) == IF layer = None THEN None ELSE layer[f]
Over(low, high, f) == IF Field(high, f) # None THEN Field(high, f) ELSE Field(low, f)
\* Config::load: the environment's policy replaces the file's when it selects a mode.
Layered(file, env) ==
    IF Field(env, "mode") # None THEN env
    ELSE [mode |-> Over(file, env, "mode"), limit |-> Over(file, env, "limit")]
Decodes(p) == /\ p.mode = "finite_usd" => p.limit # None /\ p.limit >= 0
              /\ p.mode # "finite_usd" => p.limit = None
\* AccountingArgs::apply over Config::load; None where the invocation is refused.
effective_policy(p) ==
    LET loaded == Layered(p.file, p.env)
        flagged == Field(p.flags, "mode") # None
    IN IF ~ Decodes(loaded) \/ (p.flags # None /\ ~ (flagged /\ Decodes(p.flags))) THEN None
       ELSE IF flagged THEN p.flags
       ELSE IF loaded.mode = None THEN [mode |-> "finite_usd", limit |-> 5] ELSE loaded

\* AreaSettings and JudgeSettings: the judge's own table, else the area's, else the default.
Reasoning(table) == IF table.effort # None THEN <<"effort", table.effort>>
                    ELSE IF table.cap # None THEN <<"cap", table.cap>> ELSE None
judge_request(s) ==
    CASE Reasoning(s.judge) # None -> Reasoning(s.judge)
      [] Reasoning(s.area) # None -> Reasoning(s.area)
      [] OTHER -> <<"cap", "default">>
validate_judge_reasoning(s) ==
    \A table \in {s.area, s.judge} : table.effort = None \/ table.cap = None
\* contract: the effective meaning of the settings.
contract(s) == [judge |-> judge_request(s), cot |-> s.cot, k |-> IF s.k = 0 THEN 1 ELSE s.k]

--------------------------------------------------------------------------
(* The plan: for every shard the items [seed, offset, candidate].          *)

shard_of(i, n) == i % n
\* InMemorySeedSource, FileSeedSource: candidate i (from 0) goes to shard i % n.
items_for_shard(input, n, shard) ==
    LET mine == SetToSortSeq({i \in 0..(Len(input) - 1) : shard_of(i, n) = shard}, LAMBDA a, b : a < b)
    IN [o \in DOMAIN mine |-> [seed |-> mine[o], offset |-> o - 1, candidate |-> input[mine[o] + 1]]]
Clamped(n) == IF n = 0 THEN 1 ELSE n
\* What a source yields: a file partitioned, or shards given as they are.
Yield(source) == IF source.given # None THEN source.given
                 ELSE [s \in 1..Clamped(source.shards) |->
                          items_for_shard(source.input, Clamped(source.shards), s - 1)]
\* TaskDeclarations: labels and meanings are used once, a group has one split.
Twins(a, b) == a.label = b.label \/ <<a.source, a.text>> = <<b.source, b.text>> \/ a.source = b.source
Torn(a, b) == a.group = b.group /\ a.split # b.split
Declared(items) == SelectSeq([i \in DOMAIN items |-> items[i].candidate], LAMBDA c : c.label # None)
declarations_ok(items) ==
    LET d == Declared(items) IN \A i, j \in DOMAIN d : i < j => ~ Twins(d[i], d[j]) /\ ~ Torn(d[i], d[j])
\* CapturedSeedPlan::capture.
captured(plan) ==
    /\ declarations_ok(FlattenSeq(plan))
    /\ \A s \in DOMAIN plan :
        /\ \A o \in DOMAIN plan[s] : plan[s][o].offset = o - 1
        /\ \A o, p \in DOMAIN plan[s] : o # p => plan[s][o].seed # plan[s][p].seed

--------------------------------------------------------------------------
(* The manifest.                                                           *)

manifest(plan, settings) ==
    [digest |-> plan, shards |-> [s \in DOMAIN plan |-> Len(plan[s])], execution |-> contract(settings)]
\* run_manifest::check: an unknown run may be created; a known one must mean the same.
check(row, m, mode) ==
    IF row = None THEN mode # "replay"
    ELSE row.kind = "generated" /\ row.manifest # None
         /\ row.manifest = m /\ row.shards = Len(m.shards) /\ row.digest = m.digest
\* validate_run_verification: the records there are of the area's own policy.
verifiable(settings) == \A r \in records : r.cot = settings.cot

--------------------------------------------------------------------------
(* The steps of a launch.                                                  *)

Init == /\ run = None /\ records = {} /\ cursor = [s \in {} |-> 0]
        /\ at \in [Launches -> {[pc |-> "load", opt |-> o, plan |-> None, policy |-> None, time |-> 0] :
                                o \in Options}]

My(l) == manifest(at[l].plan, at[l].opt.settings)
Step(l, from, ok, to) ==
    at[l].pc = from /\ at' = [at EXCEPT ![l].pc = IF ok THEN to ELSE "refused"]
Load(l) ==
    LET policy == effective_policy(at[l].opt.policy) IN
    /\ at[l].pc = "load"
    /\ at' = [at EXCEPT ![l].policy = policy,
                        ![l].pc = IF policy # None /\ validate_judge_reasoning(at[l].opt.settings)
                                  THEN "capture" ELSE "refused"]
    /\ UNCHANGED <<run, records, cursor>>
\* prepare_run: no client and no store is touched.
Prepare(l) ==
    LET plan == Yield(at[l].opt.source) IN
    /\ at[l].pc = "capture"
    /\ at' = [at EXCEPT ![l].plan = IF captured(plan) THEN plan ELSE None,
                        ![l].pc = IF captured(plan) THEN "preflight" ELSE "refused"]
    /\ UNCHANGED <<run, records, cursor>>
\* build_engine: the comparison before any credential is read.
Preflight(l) ==
    /\ Step(l, "preflight", check(run, My(l), at[l].opt.mode) /\ verifiable(at[l].opt.settings), "built")
    /\ UNCHANGED <<run, records, cursor>>
\* run_prepared: what was prepared must be what the engine was built with, then the records again.
validate_actual(l) == contract(at[l].opt.actual) = contract(at[l].opt.settings)
RunPrepared(l) ==
    /\ Step(l, "built", validate_actual(l) /\ verifiable(at[l].opt.actual), "register")
    /\ UNCHANGED <<run, records, cursor>>
\* Mutated: the preflight has compared.
RegisterUnchecked(l) ==
    LET ok == run # None \/ at[l].opt.mode # "replay" IN
    /\ Step(l, "register", ok, "working")
    /\ run' = IF ok /\ run = None
              THEN [kind |-> "generated", manifest |-> My(l), shards |-> Len(My(l).shards), digest |-> My(l).digest]
              ELSE run
    /\ UNCHANGED <<records, cursor>>
\* register_accounting_launch, one transaction: compare and create.
Register(l) ==
    LET ok == check(run, My(l), at[l].opt.mode) IN
    /\ Step(l, "register", ok, "working")
    /\ run' = IF ok /\ run = None
              THEN [kind |-> "generated", manifest |-> My(l), shards |-> Len(My(l).shards), digest |-> My(l).digest]
              ELSE run
    /\ UNCHANGED <<records, cursor>>

Cursor(s) == IF s \in DOMAIN cursor THEN cursor[s] ELSE 0
Ids == {r.id : r \in records}
\* One item of a shard: its record unless it is there already, then the cursor past it.
Item(l) ==
    /\ at[l].pc = "working" /\ at[l].time < MaxTime
    /\ \E s \in DOMAIN at[l].plan :
         /\ Cursor(s) < Len(at[l].plan[s])
         /\ LET item == at[l].plan[s][Cursor(s) + 1] IN
            /\ records' = IF <<s, item.seed>> \in Ids THEN records
                          ELSE records \cup {[id |-> <<s, item.seed>>, from |-> item.candidate,
                                              cot |-> at[l].opt.actual.cot]}
            /\ cursor' = [t \in DOMAIN cursor \cup {s} |-> IF t = s THEN item.offset + 1 ELSE cursor[t]]
    /\ at' = [at EXCEPT ![l].time = @ + 1]
    /\ UNCHANGED run
\* The process dies.
Crash(l) ==
    /\ at[l].pc = "working"
    /\ at' = [at EXCEPT ![l].pc = "dead"]
    /\ UNCHANGED <<run, records, cursor>>
\* Somebody else's row under this id: a reference import, or metadata of a run of the past.
OtherRow ==
    /\ run = None
    /\ \E kind \in {"generated", "reviewed_reference"} :
         run' = [kind |-> kind, manifest |-> None, shards |-> None, digest |-> None]
    /\ UNCHANGED <<records, cursor, at>>

Next == \/ \E l \in Launches : \/ Load(l) \/ Prepare(l) \/ Preflight(l) \/ RunPrepared(l)
                               \/ Register(l) \/ Item(l) \/ Crash(l)
        \/ OtherRow
Spec == Init /\ [][Next]_vars

--------------------------------------------------------------------------
(* Properties.                                                             *)

Started == {l \in Launches : at[l].pc \in {"working", "dead"}}

\* A run that is taken up again is the same run: whoever works on it, at whatever time, finds
\* every record made of the very candidate its own plan has there, every item below the cursor
\* with its own record, and asks the judges and requires reasoning as all others did
\* (run_manifest.rs:27, admission.rs:67, plan.rs:49).
ResumeMeansTheSame ==
    \A l \in Started :
        /\ \A r \in records :
             /\ r.id[1] \in DOMAIN at[l].plan /\ r.cot = at[l].opt.actual.cot
             /\ \E o \in DOMAIN at[l].plan[r.id[1]] :
                  at[l].plan[r.id[1]][o].seed = r.id[2] /\ at[l].plan[r.id[1]][o].candidate = r.from
        /\ \A s \in DOMAIN at[l].plan : \A o \in 1..Cursor(s) :
             \E r \in records : r.id = <<s, at[l].plan[s][o].seed>> /\ r.from = at[l].plan[s][o].candidate
        /\ \A m \in Started : judge_request(at[l].opt.actual) = judge_request(at[m].opt.actual)

\* A plan that was captured takes every line of its file once, whatever the number of shards,
\* and no two of its tasks are the same or tear a group apart, wherever the shards put them
\* (seed.rs:107, plan.rs:34, task_identity.rs:258).
EveryInputOnce ==
    \A l \in Launches : at[l].plan # None =>
        LET all == FlattenSeq(at[l].plan) src == at[l].opt.source IN
        /\ src.given = None =>
             /\ Len(all) = Len(src.input)
             /\ \A i \in DOMAIN src.input : \E o \in DOMAIN all :
                  all[o].seed = i - 1 /\ all[o].candidate = src.input[i]
        /\ \A o, p \in DOMAIN all :
             (o # p /\ all[o].candidate.label # None /\ all[p].candidate.label # None) =>
                 ~ Twins(all[o].candidate, all[p].candidate) /\ ~ Torn(all[o].candidate, all[p].candidate)

\* A limit goes with the choice it was stated for: when the environment or the flags choose a
\* mode, no limit of an earlier layer takes part in the policy (config.rs:285, cli.rs:472).
LaterModeReplaces ==
    \A l \in Launches : at[l].policy # None =>
        LET p == at[l].opt.policy IN
        /\ Field(p.flags, "mode") # None => at[l].policy = p.flags
        /\ (Field(p.flags, "mode") = None /\ Field(p.env, "mode") # None) =>
              at[l].policy.mode = p.env.mode /\ at[l].policy.limit = p.env.limit
        /\ (at[l].policy.mode # "finite_usd") => at[l].policy.limit = None
=============================================================================

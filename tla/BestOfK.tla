------------------------------ MODULE BestOfK ------------------------------
(***************************************************************************)
(* One seed item of one shard: its best-of-k sibling group, the selection  *)
(* of a single winner, the bounded revise, and the commit of the shard's   *)
(* cursor past the item (gw-engine: sibling.rs, step.rs, revise.rs and     *)
(* process_item / park_item_errored / run_shard of executor.rs).           *)
(*                                                                         *)
(* Records and the cursor are durable.  Everything else belongs to one     *)
(* launch of the process and is lost when the launch ends: by a crash, by  *)
(* cancellation, by a systemic fault, or by settling the item.  A relaunch *)
(* re-drives the item from its records unless the cursor is past it.       *)
(*                                                                         *)
(* The siblings run concurrently and share one cancellation token.  Model  *)
(* answers, quality gates and judges are nondeterministic.                 *)
(***************************************************************************)
EXTENDS Integers

CONSTANTS K,             \* siblings per seed item (area.k, at least 1)
          Scores,        \* judge aggregates
          MaxLaunches,   \* bound: launches of the process
          None

ASSUME KAssumption == K \in Nat \ {0}
ASSUME ScoresAssumption == Scores \subseteq Int /\ Scores # {}
ASSUME LaunchesAssumption == MaxLaunches \in Nat

Siblings == 0 .. K - 1

VARIABLES rec,          \* the attempt-0 record of each sibling
          retry,        \* the attempt-1 record of each sibling
          committed,    \* the shard cursor is past this item
          launches,     \* launches so far
          cancelled,    \* the run's CancellationToken
          pc,           \* where process_item is
          task,         \* where each drive_sibling future is
          interrupted,  \* run_group's `interrupted`
          first_fatal,  \* run_group's `first_fatal`
          winner,       \* the index select_and_finalize keeps
          next          \* loop index of retain_remaining_judged / the revise loop

durable == <<rec, retry, committed>>
volatile == <<cancelled, pc, task, interrupted, first_fatal, winner, next>>
vars == <<durable, launches, volatile>>

-----------------------------------------------------------------------------
(* Records                                                                 *)

Decision == {"Accept", "Reject", "Revise", "Escalate"}

State == {"AssistantGenerated", "Verified", "Judged", "Revising",
          "NeedsReview", "Admitted", "Rejected", "Formatted", "Error"}

\* `clean`: the teacher's text renders (no control token leaks into it).
Record == [state : State, decision : Decision \cup {None},
           score : Scores \cup {None}, clean : BOOLEAN]

ASSUME NoneAssumption == None \notin Record \cup Siblings \cup Decision

Generated(clean) == [state |-> "AssistantGenerated", decision |-> None,
                     score |-> None, clean |-> clean]

error_stub == [state |-> "Error", decision |-> None, score |-> None,
               clean |-> TRUE]

is_terminal(s) == s \in {"Formatted", "Rejected", "NeedsReview", "Error",
                         "Revising"}

is_decided(s) == s \in {"Admitted", "Formatted", "Rejected", "NeedsReview",
                        "Revising"}

is_established_winner(s) == s \in {"Admitted", "Formatted", "Revising"}

is_admissible(r) == r.decision \in {"Accept", "Revise"}

to_lifecycle(d) == CASE d = "Accept" -> "Admitted"
                     [] d = "Reject" -> "Rejected"
                     [] d = "Revise" -> "Revising"
                     [] d = "Escalate" -> "NeedsReview"

\* The two edges before a decision.  A judged record has its (re-derivable)
\* decision and aggregate.
verify(r) == [r EXCEPT !.state = "Verified"]

judge(r, d, s) == [r EXCEPT !.state = "Judged", !.decision = d, !.score = s]

\* The panel is shown the rendered record, so what cannot be rendered faults here
\* and never reaches it.  Only a verifier that rejects, or that could not decide,
\* spares the panel: it says Reject or Escalate of whatever the record holds.
CanJudge(r, d) == r.clean \/ d \in {"Reject", "Escalate"}

\* reconcile: a retry (tagged revise_retry) never reaches a second Revising.
reconcile(r, tagged) ==
    [r EXCEPT !.state = IF tagged /\ r.decision = "Revise" THEN "Rejected"
                        ELSE to_lifecycle(r.decision)]

\* Parking at Error: a missing record becomes a stub, an undecided one is
\* moved, a decided one is never touched.
Parked(r) == IF r = None THEN error_stub
             ELSE IF is_decided(r.state) THEN r
             ELSE [r EXCEPT !.state = "Error"]

-----------------------------------------------------------------------------
(* Launches                                                                *)

AllTasks(t) == [i \in Siblings |-> t]

\* The launch is over; nothing volatile survives.
Ended == /\ pc' = "down" /\ cancelled' = FALSE /\ task' = AllTasks("todo")
         /\ interrupted' = FALSE /\ first_fatal' = FALSE
         /\ winner' = None /\ next' = 0

EndLaunch == Ended /\ UNCHANGED <<durable, launches>>

\* Only the final launch is undisturbed: before it a launch may be killed,
\* cancelled, refused admission, or hit a systemic fault at any step.
MayDisturb == launches < MaxLaunches

Launch ==
    /\ pc = "down" /\ ~ committed /\ launches < MaxLaunches
    /\ launches' = launches + 1
    /\ pc' = "start"
    /\ UNCHANGED <<durable, cancelled, task, interrupted, first_fatal, winner,
                   next>>

\* The process dies.  A systemic fault or a denied request outside the fan-out
\* (while revising, or while the admitted winner is embedded for the prior
\* corpus) unwinds to run_shard and ends the launch in the same way.
Crash == pc # "down" /\ MayDisturb /\ EndLaunch

\* Ctrl-C, or another shard that sealed the run's token.
Cancel ==
    /\ pc # "down" /\ ~ cancelled /\ MayDisturb
    /\ cancelled' = TRUE
    /\ UNCHANGED <<durable, launches, pc, task, interrupted, first_fatal,
                   winner, next>>

\* run_group: a cancelled run starts no sibling.
StartGroup ==
    /\ pc = "start"
    /\ \/ cancelled /\ EndLaunch
       \/ /\ ~ cancelled
          /\ pc' = "fanout"
          /\ UNCHANGED <<durable, launches, cancelled, task, interrupted,
                         first_fatal, winner, next>>

-----------------------------------------------------------------------------
(* drive_sibling: one concurrent future per sibling                        *)

Task(i, from, to) ==
    /\ pc = "fanout" /\ task[i] = from
    /\ task' = [task EXCEPT ![i] = to]
    /\ UNCHANGED <<retry, committed, launches, cancelled, pc, interrupted,
                   first_fatal, winner, next>>

\* Mutated: the store is not consulted before asking the teacher.
GenerateAlways(i) ==
    /\ UNCHANGED rec
    /\ \/ cancelled /\ Task(i, "todo", "interrupted")
       \/ ~ cancelled /\ Task(i, "todo", "gate")

\* An already persisted sibling is driven on, never generated again.
FindOrGenerate(i) ==
    /\ UNCHANGED rec
    /\ \/ rec[i] # None /\ Task(i, "todo", "driving")
       \/ rec[i] = None /\ cancelled /\ Task(i, "todo", "interrupted")
       \/ rec[i] = None /\ ~ cancelled /\ Task(i, "todo", "gate")

\* The user-turn gate passed; the token is read once more before the spend.
CallTeacher(i) ==
    /\ UNCHANGED rec
    /\ \/ cancelled /\ Task(i, "gate", "interrupted")
       \/ ~ cancelled /\ Task(i, "gate", "calling")

TeacherAnswers(i) ==
    /\ \E clean \in BOOLEAN : rec' = [rec EXCEPT ![i] = Generated(clean)]
    /\ \/ Task(i, "calling", "driving")
       \/ Task(i, "calling again", "driving")

\* A truncated chain of thought is retried once with a larger budget, unless
\* the run was cancelled meanwhile: then the sibling is parked.
TeacherTruncates(i) ==
    \/ /\ ~ cancelled
       /\ Task(i, "calling", "calling again")
       /\ UNCHANGED rec
    \/ /\ cancelled
       /\ Task(i, "calling", "parked")
       /\ rec' = [rec EXCEPT ![i] = Parked(rec[i])]

\* The head of drive_to_judged's loop.
DriveCheck(i) ==
    /\ task[i] = "driving" /\ UNCHANGED rec
    /\ IF ~ cancelled /\ rec[i].state \in {"AssistantGenerated", "Verified"}
       THEN Task(i, "driving", "stepping")
       ELSE Task(i, "driving", "ok")

DriveStep(i) ==
    /\ Task(i, "stepping", "driving")
    /\ \/ /\ rec[i].state = "AssistantGenerated"
          /\ rec' = [rec EXCEPT ![i] = verify(rec[i])]
       \/ /\ rec[i].state = "Verified"
          /\ \E d \in Decision, s \in Scores :
                /\ CanJudge(rec[i], d)
                /\ rec' = [rec EXCEPT ![i] = judge(rec[i], d, s)]

Working == {"gate", "calling", "calling again", "stepping"}

\* classify_sibling_fault: a record-level fault parks this sibling only.
RecordFault(i) ==
    \E from \in Working :
        /\ Task(i, from, "parked")
        /\ rec' = [rec EXCEPT ![i] = Parked(rec[i])]

\* A denied or cancelled request ("halt"), or a systemic fault ("fatal").
SystemicFault(i) ==
    \E from \in Working, fault \in {"halt", "fatal"} :
        /\ MayDisturb
        /\ Task(i, from, fault)
        /\ UNCHANGED rec

\* One iteration of the join loop of run_group.
Join(i) ==
    /\ pc = "fanout"
    /\ task[i] \in {"ok", "interrupted", "parked", "halt", "fatal"}
    /\ task' = [task EXCEPT ![i] = "joined"]
    /\ interrupted' = \/ interrupted
                      \/ task[i] \in {"interrupted", "halt"}
                      \/ task[i] = "ok" /\ cancelled
    /\ cancelled' = (cancelled \/ task[i] \in {"halt", "fatal"})
    /\ first_fatal' = (first_fatal \/ task[i] = "fatal")
    /\ UNCHANGED <<durable, launches, pc, winner, next>>

\* All siblings joined.  A fatal fault fails the run, an interruption ends the
\* launch before any selection, otherwise the group selects.
GroupJoined ==
    /\ pc = "fanout" /\ \A i \in Siblings : task[i] = "joined"
    /\ \/ (first_fatal \/ interrupted \/ cancelled) /\ EndLaunch
       \/ /\ ~ (first_fatal \/ interrupted \/ cancelled)
          /\ pc' = "elect"
          /\ UNCHANGED <<durable, launches, cancelled, task, interrupted,
                         first_fatal, winner, next>>

-----------------------------------------------------------------------------
(* select_and_finalize                                                     *)

Established == {i \in Siblings : is_established_winner(rec[i].state)}

Candidates == {i \in Siblings : rec[i].state = "Judged" /\ is_admissible(rec[i])}

\* Mutated: the last of the highest aggregates (as max_by would return).
BestLast(i) == /\ i \in Candidates
               /\ \A j \in Candidates : \/ rec[j].score < rec[i].score
                                        \/ rec[j].score = rec[i].score /\ j <= i

\* The scan keeps the first of the highest aggregates (strict >).
Best(i) == /\ i \in Candidates
           /\ \A j \in Candidates : \/ rec[j].score < rec[i].score
                                    \/ rec[j].score = rec[i].score /\ i <= j

First(i, S) == i \in S /\ \A j \in S : i <= j

\* Mutated: an established winner does not stop the election.
ElectAgain ==
    /\ pc = "elect"
    /\ \/ \E i \in Siblings : Best(i) /\ winner' = i /\ pc' = "finalize"
       \/ Candidates = {} /\ winner' = None /\ pc' = "retain"
    /\ UNCHANGED <<durable, launches, cancelled, task, interrupted,
                   first_fatal, next>>

Elect ==
    /\ pc = "elect"
    /\ \/ \E i \in Siblings :
             /\ First(i, Established)
             /\ winner' = i /\ pc' = "finalize"
       \/ \E i \in Siblings :
             /\ Established = {} /\ Best(i)
             /\ winner' = i /\ pc' = "finalize"
       \/ /\ Established = {} /\ Candidates = {}
          /\ winner' = None /\ pc' = "retain"
    /\ UNCHANGED <<durable, launches, cancelled, task, interrupted,
                   first_fatal, next>>

Goto(label) == pc' = label /\ UNCHANGED <<retry, committed, launches, cancelled,
                                task, interrupted, first_fatal, winner, next>>

\* drive(winner), one transition per step.
FinalizeStop ==
    /\ pc = "finalize"
    /\ is_terminal(rec[winner].state) \/ cancelled
    /\ UNCHANGED rec
    /\ Goto("retain")

FinalizeReconcile ==
    /\ pc = "finalize" /\ ~ cancelled
    /\ rec[winner].state = "Judged"
    /\ rec' = [rec EXCEPT ![winner] = reconcile(rec[winner], FALSE)]
    /\ Goto("finalize")

\* The render that confirms an admitted record is the one its panel was shown.
FinalizeFormat ==
    /\ pc = "finalize" /\ ~ cancelled
    /\ rec[winner].state = "Admitted"
    /\ rec' = [rec EXCEPT ![winner].state = "Formatted"]
    /\ Goto("finalize")

\* retain_remaining_judged: the group admits exactly one.  Only the natural
\* outcomes honour cancellation.
Retain ==
    /\ pc = "retain" /\ next < K
    /\ next' = next + 1
    /\ rec' = IF next = winner \/ rec[next].state # "Judged" THEN rec
              ELSE IF is_admissible(rec[next])
                   THEN [rec EXCEPT ![next].state = "Rejected"]
              ELSE IF cancelled THEN rec
              ELSE [rec EXCEPT ![next] = reconcile(rec[next], FALSE)]
    /\ UNCHANGED <<retry, committed, launches, cancelled, pc, task,
                   interrupted, first_fatal, winner>>

\* The rest of run_group and the head of process_item's revise loop.
Retained ==
    /\ pc = "retain" /\ next = K
    /\ \/ cancelled /\ EndLaunch
       \/ /\ ~ cancelled
          /\ pc' = "revise" /\ next' = 0
          /\ UNCHANGED <<durable, launches, cancelled, task, interrupted,
                         first_fatal, winner>>

-----------------------------------------------------------------------------
(* revise_once, for each member at Revising                                *)

Revise(label, advance) ==
    /\ pc' = label /\ next' = next + advance
    /\ UNCHANGED <<rec, committed, launches, cancelled, task, interrupted,
                   first_fatal, winner>>

ReviseNext ==
    /\ pc = "revise" /\ next < K
    /\ \/ /\ rec[next].state # "Revising"
          /\ Revise("revise", 1) /\ UNCHANGED retry
       \/ /\ rec[next].state = "Revising" /\ ~ cancelled
          /\ Revise(IF retry[next] = None THEN "retry gate" ELSE "retry drive", 0)
          /\ UNCHANGED retry
       \/ rec[next].state = "Revising" /\ cancelled /\ EndLaunch

RetryCall ==
    /\ pc = "retry gate"
    /\ \/ cancelled /\ EndLaunch
       \/ ~ cancelled /\ Revise("retry call", 0) /\ UNCHANGED retry

RetryAnswers ==
    /\ pc = "retry call"
    /\ \E clean \in BOOLEAN : retry' = [retry EXCEPT ![next] = Generated(clean)]
    /\ Revise("retry drive", 0)

\* drive(retry): reconciled with the retry tag, so it cannot revise again.
RetryDrive ==
    /\ pc = "retry drive"
    /\ LET r == retry[next] IN
       \/ is_terminal(r.state) /\ Revise("revise", 1) /\ UNCHANGED retry
       \/ ~ is_terminal(r.state) /\ cancelled /\ EndLaunch
       \/ /\ ~ cancelled /\ r.state = "AssistantGenerated"
          /\ retry' = [retry EXCEPT ![next] = verify(r)]
          /\ Revise("retry drive", 0)
       \/ /\ ~ cancelled /\ r.state = "Verified"
          /\ \E d \in Decision, s \in Scores :
                /\ CanJudge(r, d)
                /\ retry' = [retry EXCEPT ![next] = judge(r, d, s)]
          /\ Revise("retry drive", 0)
       \/ /\ ~ cancelled /\ r.state = "Judged"
          /\ retry' = [retry EXCEPT ![next] = reconcile(r, TRUE)]
          /\ Revise("retry drive", 0)
       \/ /\ ~ cancelled /\ r.state = "Admitted"
          /\ retry' = [retry EXCEPT ![next].state = "Formatted"]
          /\ Revise("retry drive", 0)

RetryCanFault ==
    \/ pc \in {"retry gate", "retry call"}
    \/ /\ pc = "retry drive" /\ ~ cancelled
       /\ retry[next].state \in {"AssistantGenerated", "Verified"}

\* Mutated: the fault is put on the original, which stays at Revising in the code.
RetryFaultOfOriginal ==
    /\ RetryCanFault
    /\ rec' = [rec EXCEPT ![next].state = "Error"]
    /\ pc' = "revise" /\ next' = next + 1
    /\ UNCHANGED <<retry, committed, launches, cancelled, task, interrupted,
                   first_fatal, winner>>

\* Mutated: the fault unwinds the launch, and the next one meets it again.
RetryFaultAborts == RetryCanFault /\ EndLaunch

\* A record-level fault of the retry parks the retry; the item goes on.
RetryFault ==
    /\ RetryCanFault
    /\ retry' = [retry EXCEPT ![next] = Parked(retry[next])]
    /\ Revise("revise", 1)

Revised ==
    /\ pc = "revise" /\ next = K
    /\ UNCHANGED rec /\ Goto("settled")

-----------------------------------------------------------------------------
(* run_shard around the item                                               *)

\* commit_cursor.  (A tripped circuit breaker ends the launch before this: that
\* is the Crash step at "settled".)
CommitCursor ==
    /\ pc = "settled"
    /\ committed' = TRUE
    /\ Ended /\ UNCHANGED <<rec, retry, launches>>

-----------------------------------------------------------------------------
Init ==
    /\ rec = [i \in Siblings |-> None]
    /\ retry = [i \in Siblings |-> None]
    /\ committed = FALSE /\ launches = 0
    /\ pc = "down" /\ cancelled = FALSE /\ task = AllTasks("todo")
    /\ interrupted = FALSE /\ first_fatal = FALSE
    /\ winner = None /\ next = 0

DriveSibling(i) == \/ FindOrGenerate(i) \/ CallTeacher(i) \/ TeacherAnswers(i)
                   \/ TeacherTruncates(i) \/ DriveCheck(i) \/ DriveStep(i)
                   \/ RecordFault(i) \/ SystemicFault(i) \/ Join(i)

SelectAndFinalize == \/ Elect \/ FinalizeStop \/ FinalizeReconcile
                     \/ FinalizeFormat \/ Retain \/ Retained

ReviseOnce == \/ ReviseNext \/ RetryCall \/ RetryAnswers \/ RetryDrive
              \/ RetryFault \/ Revised

Disturbance == Crash \/ Cancel

Progress == \/ Launch \/ StartGroup \/ GroupJoined \/ SelectAndFinalize
            \/ ReviseOnce \/ CommitCursor
            \/ \E i \in Siblings : DriveSibling(i)

Next == Progress \/ Disturbance

Spec == Init /\ [][Next]_vars

\* The runtime keeps polling what can run, and a run that ended unsettled is
\* launched again.
FairSpec == Spec /\ WF_vars(Progress)

-----------------------------------------------------------------------------
(* Properties                                                              *)

TaskState == {"todo", "gate", "calling", "calling again", "driving", "stepping",
              "ok", "interrupted", "parked", "halt", "fatal", "joined"}

Label == {"down", "start", "fanout", "elect", "finalize", "retain", "revise",
          "retry gate", "retry call", "retry drive", "settled"}

\* Every variable has its declared shape.
TypeOK ==
    /\ rec \in [Siblings -> Record \cup {None}]
    /\ retry \in [Siblings -> Record \cup {None}]
    /\ committed \in BOOLEAN /\ cancelled \in BOOLEAN
    /\ interrupted \in BOOLEAN /\ first_fatal \in BOOLEAN
    /\ launches \in Nat
    /\ pc \in Label
    /\ task \in [Siblings -> TaskState]
    /\ winner \in Siblings \cup {None}
    /\ next \in 0 .. K

Has(r, states) == r # None /\ r.state \in states

\* INVARIANT 11: the group never has two winners, whatever crash, cancellation
\* and relaunch lie between electing one and retaining the others.
OneWinner ==
    \A i, j \in Siblings :
        /\ Has(rec[i], {"Admitted", "Formatted", "Revising"})
        /\ Has(rec[j], {"Admitted", "Formatted", "Revising"})
        => i = j

\* INVARIANT 12: a retry exists only for a sibling at Revising and never
\* revises itself, so an item has at most one bounded retry.
SingleRevise ==
    \A i \in Siblings :
        retry[i] # None => /\ Has(rec[i], {"Revising"})
                           /\ retry[i].state # "Revising"

\* At most one record of the item, sibling or retry, can enter the dataset:
\* a retry only replaces a winner that was sent back once.
OneDatasetRecord ==
    /\ SingleRevise
    /\ \A i, j \in Siblings :
        /\ Has(retry[j], {"Admitted", "Formatted"}) =>
              ~ Has(rec[i], {"Admitted", "Formatted"})
        /\ Has(retry[i], {"Admitted", "Formatted"})
              /\ Has(retry[j], {"Admitted", "Formatted"}) => i = j

\* The winner has the highest aggregate of all admissible siblings, lowest
\* index first, even when it was elected by an earlier launch.
WinnerIsBest ==
    \A i, j \in Siblings :
        /\ Has(rec[i], {"Admitted", "Formatted", "Revising"})
        /\ rec[j] # None /\ rec[j].decision \in {"Accept", "Revise"}
        => \/ rec[j].score < rec[i].score
           \/ rec[j].score = rec[i].score /\ i <= j

\* No teacher request is outstanding for a record that is already persisted:
\* "the teacher is never re-spent for an already-generated id".
NeverRespend ==
    /\ \A i \in Siblings :
          task[i] \in {"gate", "calling", "calling again"} => rec[i] = None
    /\ pc \in {"retry gate", "retry call"} => retry[next] = None

\* A member of the item that no later launch would have to touch.
Done(i) == /\ rec[i] # None /\ is_terminal(rec[i].state)
           /\ rec[i].state = "Revising" =>
                 retry[i] # None /\ is_terminal(retry[i].state)

\* checkpoint.rs: "the cursor only advances past items that are durably done".
CursorPastDoneOnly == committed => \A i \in Siblings : Done(i)

\* Selection never happens on a partial group: until every sibling is judged or
\* finished, none of them is decided.
DecideTogether ==
    (\E i \in Siblings : Has(rec[i], {"Admitted", "Formatted", "Revising",
                                      "Rejected", "NeedsReview"}))
    => \A i \in Siblings :
          rec[i] # None /\ rec[i].state \notin {"AssistantGenerated", "Verified"}

\* What was admitted, or may yet be, is renderable: `Admitted -> Formatted` cannot
\* fail, so no admitted record is left behind a cursor for want of its format.
AdmittedRenders ==
    \A i \in Siblings : \A r \in {rec[i], retry[i]} :
        \/ Has(r, {"Admitted", "Formatted"})
        \/ Has(r, {"Judged"}) /\ is_admissible(r)
        => r.clean

\* The group is decided as one and once (run_group, select_and_finalize): the winner is the
\* best of the siblings that could win, it alone enters the dataset and it renders, no
\* sibling is decided before all were driven, and the cursor is past no unfinished one.
GroupIsDecided == /\ WinnerIsBest /\ OneDatasetRecord /\ DecideTogether
                  /\ CursorPastDoneOnly /\ AdmittedRenders

\* No clobber: a fault never overwrites a decided record; its only move is from
\* Admitted to Formatted.  And no record disappears.
NoClobber ==
    [][\A i \in Siblings :
          /\ rec[i] # None => rec'[i] # None
          /\ rec[i] # None /\ is_decided(rec[i].state) =>
                \/ rec'[i] = rec[i]
                \/ /\ rec[i].state = "Admitted"
                   /\ rec'[i] = [rec[i] EXCEPT !.state = "Formatted"]
          /\ retry[i] # None /\ is_decided(retry[i].state) =>
                \/ retry'[i] = retry[i]
                \/ /\ retry[i].state = "Admitted"
                   /\ retry'[i] = [retry[i] EXCEPT !.state = "Formatted"]]_vars

\* From whatever an interrupted launch left behind, an undisturbed launch
\* settles the item and moves the cursor past it.
EventuallyCommitted == <>committed
=============================================================================

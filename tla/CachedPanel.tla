---------------------------- MODULE CachedPanel ----------------------------
(***************************************************************************)
(* Grading one candidate with a panel of judges behind the durable cache:  *)
(* grade_panel_cached of gw-judge/src/cached_panel.rs, grade_request of    *)
(* gw-judge/src/panel.rs, the rows of gw-storage/src/cache.rs and the      *)
(* failure callback of gw-engine/src/step.rs.                              *)
(*                                                                         *)
(* A panel is one task that polls its own futures, so what it does between *)
(* two awaits is one step.  The cache is keyed by content, so panels over  *)
(* equal candidates (siblings, a resumed record) meet in it; those of one  *)
(* launch also share its cancellation token.                               *)
(***************************************************************************)
EXTENDS Naturals, Sequences, Functions

CONSTANTS Panels,      \* panels of one launch, all over one content hash
          Judges,      \* the panel: the effective request key of each position
          MaxGrades,   \* bound: grades the judges give
          MaxLaunches, \* bound: launches of the process
          None

VARIABLES cache,     \* the cached grade of each key, or None
          grades,    \* how many grades were given; each was paid for
          launches,  \* launches so far
          cancelled, \* the launch's cancellation token
          pc,        \* where each panel is
          op,        \* what became of each of its distinct requests
          grade,     \* the grade it holds for each of them, or None
          stopped,   \* its `stopped` flag
          failure,   \* the failure it keeps, or None
          observed   \* history: every failure it saw, in order

process == <<launches, cancelled>>
panel == <<pc, op, grade, stopped, failure, observed>>
vars == <<cache, grades, process, panel>>

Keys == Range(Judges)

\* PanelFailure in increasing precedence.
Classes == <<"Cancelled", "Record", "Halt", "Fatal">>
Rank(class) == CHOOSE n \in DOMAIN Classes : Classes[n] = class

Failure == [class : Range(Classes), key : Keys]

ASSUME PanelAssumption == /\ Len(Judges) > 0
                          /\ MaxGrades \in Nat /\ MaxLaunches \in Nat \ {0}
                          /\ None \notin Nat /\ None \notin Failure

Started == {"called", "sent", "graded"}

--------------------------------------------------------------------------
(* The panel looks its distinct requests up one after another.             *)

Start(p) ==
    /\ pc[p] \in {"idle", "ok", "failed"}
    /\ pc' = [pc EXCEPT ![p] = "lookup"]
    /\ op' = [op EXCEPT ![p] = [k \in Keys |-> "none"]]
    /\ grade' = [grade EXCEPT ![p] = [k \in Keys |-> None]]
    /\ stopped' = [stopped EXCEPT ![p] = FALSE]
    /\ failure' = [failure EXCEPT ![p] = None]
    /\ observed' = [observed EXCEPT ![p] = <<>>]
    /\ UNCHANGED <<cache, grades, process>>

\* on_error: anything worse than a record's own failure seals the launch.
OnError(p, k, class) ==
    /\ observed' = [observed EXCEPT ![p] = Append(@, [class |-> class, key |-> k])]
    /\ cancelled' = (cancelled \/ class # "Record")

\* prepare: positions of equal effective requests share one, which has the first's place.
Looking(p, k) ==
    /\ pc[p] = "lookup" /\ op[p][k] = "none"
    /\ \E i \in DOMAIN Judges : /\ Judges[i] = k
                              /\ \A j \in 1 .. i - 1 : op[p][Judges[j]] # "none"

Hit(p, k) ==
    /\ Looking(p, k) /\ cache[k] # None
    /\ op' = [op EXCEPT ![p][k] = "hit"]
    /\ grade' = [grade EXCEPT ![p][k] = cache[k]]
    /\ UNCHANGED <<cache, grades, process, pc, stopped, failure, observed>>

\* Mutated: the cache is not consulted.
MissRegardless(p, k) ==
    /\ Looking(p, k)
    /\ op' = [op EXCEPT ![p][k] = "pending"]
    /\ UNCHANGED <<cache, grades, process, pc, grade, stopped, failure, observed>>
Miss(p, k) ==
    /\ Looking(p, k) /\ cache[k] = None
    /\ op' = [op EXCEPT ![p][k] = "pending"]
    /\ UNCHANGED <<cache, grades, process, pc, grade, stopped, failure, observed>>

\* The cache cannot be read: the panel ends before any request was started.
LookupFails(p, k) ==
    /\ Looking(p, k)
    /\ OnError(p, k, "Fatal")
    /\ failure' = [failure EXCEPT ![p] = [class |-> "Fatal", key |-> k]]
    /\ pc' = [pc EXCEPT ![p] = "failed"]
    /\ UNCHANGED <<cache, grades, launches, op, grade, stopped>>

Collected(p) ==
    /\ pc[p] = "lookup" /\ \A k \in Keys : op[p][k] # "none"
    /\ pc' = [pc EXCEPT ![p] = "drain"]
    /\ UNCHANGED <<cache, grades, process, op, grade, stopped, failure, observed>>

--------------------------------------------------------------------------
(* The misses run concurrently; the panel handles each result as it comes. *)

Draining(p, k, state) == pc[p] = "drain" /\ op[p][k] = state

\* The first poll of a miss: it calls the provider unless the panel stopped.
Call(p, k) ==
    /\ Draining(p, k, "pending") /\ ~ stopped[p]
    /\ op' = [op EXCEPT ![p][k] = "called"]
    /\ UNCHANGED <<cache, grades, process, pc, grade, stopped, failure, observed>>

Skip(p, k) ==
    /\ Draining(p, k, "pending") /\ stopped[p]
    /\ op' = [op EXCEPT ![p][k] = "skipped"]
    /\ UNCHANGED <<cache, grades, process, pc, grade, stopped, failure, observed>>

\* The request passes admission's token check; a cancelled launch admits none.
Send(p, k) ==
    /\ Draining(p, k, "called") /\ ~ cancelled
    /\ op' = [op EXCEPT ![p][k] = "sent"]
    /\ UNCHANGED <<cache, grades, process, pc, grade, stopped, failure, observed>>

\* The judge's answer parses and its interpretation is recorded.
Answer(p, k) ==
    /\ Draining(p, k, "sent") /\ grades < MaxGrades
    /\ grades' = grades + 1
    /\ grade' = [grade EXCEPT ![p][k] = grades + 1]
    /\ op' = [op EXCEPT ![p][k] = "graded"]
    /\ UNCHANGED <<cache, process, pc, stopped, failure, observed>>

Put(p, k) ==
    /\ Draining(p, k, "graded")
    /\ cache' = [cache EXCEPT ![k] = grade[p][k]]
    /\ op' = [op EXCEPT ![p][k] = "done"]
    /\ UNCHANGED <<grades, process, pc, grade, stopped, failure, observed>>

\* Mutated: a later failure of the same class replaces an earlier one.
KeepsLatest(p, class) == failure[p] = None \/ Rank(class) >= Rank(failure[p].class)
\* The panel sees a failed miss: it stops, and keeps the gravest failure.
Keeps(p, class) == failure[p] = None \/ Rank(class) > Rank(failure[p].class)

Fails(p, k, class) ==
    /\ OnError(p, k, class)
    /\ op' = [op EXCEPT ![p][k] = "failed"]
    /\ grade' = [grade EXCEPT ![p][k] = None]
    /\ stopped' = [stopped EXCEPT ![p] = TRUE]
    /\ failure' = IF Keeps(p, class)
                  THEN [failure EXCEPT ![p] = [class |-> class, key |-> k]]
                  ELSE failure
    /\ UNCHANGED <<grades, launches, pc>>

\* No admission, no answer, or an answer that is unusable.  Whatever the panel
\* waits for, only a cancelled launch answers that it was cancelled.
CallFails(p, k) ==
    /\ Draining(p, k, "called") \/ Draining(p, k, "sent")
    /\ \E class \in Range(Classes) :
           (class = "Cancelled" => cancelled) /\ Fails(p, k, class)
    /\ UNCHANGED cache

\* The write fails, with or without the row.
PutFails(p, k) ==
    /\ Draining(p, k, "graded")
    /\ cache' \in {cache, [cache EXCEPT ![k] = grade[p][k]]}
    /\ Fails(p, k, "Fatal")

\* Nothing is pending any more.
Finish(p) ==
    /\ pc[p] = "drain"
    /\ \A k \in Keys : op[p][k] \notin Started \cup {"pending"}
    /\ pc' = [pc EXCEPT ![p] = IF failure[p] # None THEN "failed"
                               ELSE IF \A i \in DOMAIN Judges : grade[p][Judges[i]] # None
                               THEN "ok" ELSE "omitted"]
    /\ UNCHANGED <<cache, grades, process, op, grade, stopped, failure, observed>>

--------------------------------------------------------------------------
Cancel == ~ cancelled /\ cancelled' = TRUE /\ UNCHANGED <<cache, grades, launches, panel>>

\* The process dies and is launched again; only the cache survives.
Crash ==
    /\ launches < MaxLaunches
    /\ launches' = launches + 1 /\ cancelled' = FALSE
    /\ pc' = [p \in Panels |-> "idle"]
    /\ op' = [p \in Panels |-> [k \in Keys |-> "none"]]
    /\ grade' = [p \in Panels |-> [k \in Keys |-> None]]
    /\ stopped' = [p \in Panels |-> FALSE] /\ failure' = [p \in Panels |-> None]
    /\ observed' = [p \in Panels |-> <<>>]
    /\ UNCHANGED <<cache, grades>>

Init == /\ cache = [k \in Keys |-> None] /\ grades = 0
        /\ launches = 1 /\ cancelled = FALSE
        /\ pc = [p \in Panels |-> "idle"]
        /\ op = [p \in Panels |-> [k \in Keys |-> "none"]]
        /\ grade = [p \in Panels |-> [k \in Keys |-> None]]
        /\ stopped = [p \in Panels |-> FALSE] /\ failure = [p \in Panels |-> None]
        /\ observed = [p \in Panels |-> <<>>]

Request(p, k) == \/ Hit(p, k) \/ Miss(p, k) \/ LookupFails(p, k)
                 \/ Call(p, k) \/ Skip(p, k) \/ Send(p, k) \/ Answer(p, k)
                 \/ Put(p, k) \/ PutFails(p, k) \/ CallFails(p, k)

Panel(p) == Collected(p) \/ Finish(p) \/ \E k \in Keys : Request(p, k)

Next == Cancel \/ Crash \/ \E p \in Panels : Start(p) \/ Panel(p)

Spec == Init /\ [][Next]_vars

\* The executor polls a panel that can move, and every endpoint answers.
FairSpec == Spec /\ \A p \in Panels : WF_vars(Panel(p))

--------------------------------------------------------------------------
(* Type invariant: the states of grade_panel_cached and of its requests. *)
TypeOK ==
    /\ cache \in [Keys -> Nat \cup {None}]
    /\ grades \in 0 .. MaxGrades /\ launches \in 1 .. MaxLaunches
    /\ cancelled \in BOOLEAN
    /\ pc \in [Panels -> {"idle", "lookup", "drain", "ok", "failed"}]
    /\ op \in [Panels -> [Keys -> Started \cup {"none", "hit", "pending", "done",
                                                "failed", "skipped"}]]
    /\ grade \in [Panels -> [Keys -> Nat \cup {None}]]
    /\ stopped \in [Panels -> BOOLEAN]
    /\ failure \in [Panels -> Failure \cup {None}]
    /\ observed \in [Panels -> Seq(Failure)]

\* A panel that returns grades returns one for every position, met no failure,
\* and each is a durable row: no grade is reported that a crash could lose
\* (the result of grade_panel_cached).
CompleteAndDurable ==
    \A p \in Panels : pc[p] = "ok" =>
        /\ failure[p] = None /\ observed[p] = <<>>
        /\ \A k \in Keys : grade[p][k] # None /\ cache[k] # None

\* However its failures are ordered, a panel keeps the first of the gravest
\* class (the doc of grade_panel_cached).
KeepsTheGravest ==
    \A p \in Panels : observed[p] # <<>> =>
        \E i \in DOMAIN observed[p] :
            /\ failure[p] = observed[p][i]
            /\ \A j \in DOMAIN observed[p] :
                   /\ Rank(observed[p][j].class) <= Rank(failure[p].class)
                   /\ j < i => Rank(observed[p][j].class) < Rank(failure[p].class)

\* A panel that returned has nothing running, so no paid answer is abandoned while
\* its caller goes on (the drain loop); and what it returned is complete.
Drained ==
    /\ TypeOK /\ CompleteAndDurable
    /\ \A p \in Panels : pc[p] \in {"ok", "failed"} =>
           \A k \in Keys : op[p][k] \notin Started

\* A panel (grade_panel_cached) ends with the gravest of its failures, in whatever order
\* its requests complete, and not before every request it started has ended.
PanelKeepsTheGravest == KeepsTheGravest /\ Drained

\* Once any panel saw a failure of the whole launch, no panel of the launch
\* gets another physical request past admission (the callback cancels the
\* shared token, which begin reads under the gate).
SealedStep ==
    (\E p \in Panels : \E i \in DOMAIN observed[p] : observed[p][i].class # "Record") =>
        \A p \in Panels : \A k \in Keys : op'[p][k] = "sent" => op[p][k] = "sent"
SealedSendsNothing == [][SealedStep]_vars

\* A panel that no other can overlap never pays for a key that has a cached grade,
\* across failures and restarts (the never-re-spend cache).
Alone == \A p, q \in Panels : p = q
NeverRespend ==
    [][Alone => \A p \in Panels : \A k \in Keys :
           op'[p][k] = "sent" /\ op[p][k] # "sent" => cache[k] = None]_vars

\* A cached grade is not paid for again, over failures, cancellation and relaunches,
\* and a failure of the launch stops the requests of all its panels.
NothingIsSentInVain == NeverRespend /\ SealedSendsNothing

\* A panel that started comes to an end, unless its process dies.
PanelReturns ==
    \A p \in Panels : pc[p] \in {"lookup", "drain"} ~> pc[p] \notin {"lookup", "drain"}
=============================================================================

------------------------------ MODULE Dashboard ------------------------------
(***************************************************************************)
(* The terminal dashboard: App::update and the event loop of gw-tui behind *)
(* the bounded channel of gw-engine/src/event.rs, which drops an event     *)
(* when it is full.  The engine is what it emits: lifecycle states of      *)
(* records, faults attributed to them, accounting snapshots read by two    *)
(* publishers, and its end.  Layout, selection and log are left out.       *)
(***************************************************************************)
EXTENDS Naturals, Sequences, SequencesExt, FiniteSetsExt

CONSTANTS Shown,       \* records of the run
          Capacity,    \* of the event channel
          MaxRevision  \* bound: revisions of the accounting ledger

\* What is assumed of the constants: a record is not named like the accounting.
DashboardConstants ==
    Capacity \in Nat /\ MaxRevision \in Nat \ {0} /\ "accounting" \notin Shown

VARIABLES ledger,     \* the state of each record in the store, or "none"
          revision,   \* of the accounting ledger
          read,       \* the revision each publisher read and did not emit yet, or 0
          engine,     \* "running" or "finished"
          queue,      \* events in the channel
          lost,       \* history: what events were dropped about
          published,  \* history: the newest revision that entered the channel
          rows,       \* the state each row shows, or "none"
          accounting, \* the revision on screen, or 0
          loop,       \* "running" or "ended"
          token       \* the token the dashboard shares with the engine

program == <<ledger, revision, read, engine>>
channel == <<queue, lost, published>>
app == <<rows, accounting>>
vars == <<program, channel, app, loop, token>>

Publishers == {"observer", "mark_run_failed"}
States == {"generated", "verified", "judged", "admitted", "rejected", "formatted",
           "exported", "error"}

\* The edges of the engine that emit StateAdvanced (step.rs, sibling.rs).
Advances(from) ==
    CASE from = "none" -> {"generated"} [] from = "generated" -> {"verified"}
      [] from = "verified" -> {"judged"} [] from = "judged" -> {"admitted", "rejected"}
      [] from = "admitted" -> {"formatted"} [] from = "formatted" -> {"exported"}
      [] OTHER -> {}

is_decided(state) == state \in {"admitted", "formatted", "exported", "rejected"}

\* EventSink::emit never waits.
emit(event) ==
    IF Len(queue) < Capacity /\ loop = "running"
    THEN /\ queue' = Append(queue, event) /\ UNCHANGED lost
         /\ published' = IF event.of = "accounting" THEN Max({published, event.is})
                         ELSE published
    ELSE queue' = queue /\ lost' = lost \cup {event.of} /\ UNCHANGED published

Advance(r) ==
    /\ engine = "running"
    /\ \E to \in Advances(ledger[r]) :
           /\ ledger' = [ledger EXCEPT ![r] = to]
           /\ emit([of |-> r, is |-> to])
    /\ UNCHANGED <<revision, read, engine, app, loop, token>>

\* park_item_errored: a decided record is kept, and its fault emitted all the same.
Fault(r) ==
    /\ engine = "running" /\ ledger[r] # "error"
    /\ ledger' = IF is_decided(ledger[r]) THEN ledger
                 ELSE [ledger EXCEPT ![r] = "error"]
    /\ emit([of |-> r, is |-> "fault"])
    /\ UNCHANGED <<revision, read, engine, app, loop, token>>

Account == /\ engine = "running" /\ revision < MaxRevision /\ revision' = revision + 1
           /\ UNCHANGED <<ledger, read, engine, channel, app, loop, token>>

\* publish reads under its own gate; mark_run_failed reads without it.
ReadSnapshot(p) ==
    /\ engine = "running" /\ read[p] = 0
    /\ read' = [read EXCEPT ![p] = revision]
    /\ UNCHANGED <<ledger, revision, engine, channel, app, loop, token>>

EmitSnapshot(p) ==
    /\ read[p] # 0
    /\ read' = [read EXCEPT ![p] = 0]
    /\ emit([of |-> "accounting", is |-> read[p]])
    /\ UNCHANGED <<ledger, revision, engine, app, loop, token>>

\* The run ends, and with it the last sender of the channel.
EngineFinish ==
    /\ engine = "running" /\ \A p \in Publishers : read[p] = 0
    /\ engine' = "finished"
    /\ UNCHANGED <<ledger, revision, read, channel, app, loop, token>>

\* A fatal shard error cancels the token the engine shares with the dashboard.
EngineCancels == /\ engine = "running" /\ ~ token /\ token' = TRUE
                 /\ UNCHANGED <<program, channel, app, loop>>

--------------------------------------------------------------------------
(* App::update, for the first event of the channel.                        *)

\* Mutated: a fault always shows, whatever the row says.
ShownAfterRegardless(row, is) == IF is # "fault" THEN is ELSE "error"
\* A fault does not change a row that was decided.
ShownAfter(row, is) ==
    IF is # "fault" THEN is ELSE IF is_decided(row) THEN row ELSE "error"

Recv ==
    /\ loop = "running" /\ queue # <<>>
    /\ queue' = Tail(queue)
    /\ LET event == Head(queue) IN
           IF event.of = "accounting"
           THEN /\ accounting' = IF event.is > accounting THEN event.is ELSE accounting
                /\ UNCHANGED rows
           ELSE /\ rows' = [rows EXCEPT ![event.of] = ShownAfter(@, event.is)]
                /\ UNCHANGED accounting
    /\ UNCHANGED <<program, lost, published, loop, token>>

\* The user quits, or the input of the terminal ends: the engine is cancelled too.
Quit == /\ loop = "running" /\ loop' = "ended" /\ token' = TRUE
        /\ UNCHANGED <<program, channel, app>>

\* The caller's token ends the loop.
CancelSeen == /\ loop = "running" /\ token /\ loop' = "ended"
              /\ UNCHANGED <<program, channel, app, token>>

Init == /\ ledger = [r \in Shown |-> "none"] /\ revision = 1
        /\ read = [p \in Publishers |-> 0] /\ engine = "running"
        /\ queue = <<>> /\ lost = {} /\ published = 0
        /\ rows = [r \in Shown |-> "none"] /\ accounting = 0
        /\ loop = "running" /\ token = FALSE

Engine == \/ Account \/ EngineFinish \/ EngineCancels
          \/ \E r \in Shown : Advance(r) \/ Fault(r)
          \/ \E p \in Publishers : ReadSnapshot(p) \/ EmitSnapshot(p)

Loop == Recv \/ CancelSeen

Next == Engine \/ Loop \/ Quit

Spec == Init /\ [][Next]_vars

\* The runtime polls the loop and the engine; nobody has to press a key.
FairSpec == Spec /\ WF_vars(Loop) /\ WF_vars(EngineFinish)
                 /\ \A p \in Publishers : WF_vars(EmitSnapshot(p))

--------------------------------------------------------------------------
TypeOK ==
    /\ ledger \in [Shown -> States \cup {"none"}] /\ rows \in [Shown -> States \cup {"none"}]
    /\ revision \in 1 .. MaxRevision /\ {accounting, published} \subseteq 0 .. MaxRevision
    /\ read \in [Publishers -> 0 .. MaxRevision]
    /\ engine \in {"running", "finished"} /\ loop \in {"running", "ended"}
    /\ Len(queue) <= Capacity

\* The screen lags and never lies: once the channel is empty, a record none of
\* whose events was dropped shows the state of the ledger, whatever faults were
\* attributed to it, and the accounting shown is the newest that was delivered,
\* in whatever order the two publishers emitted (App::update; model.rs promises
\* that a dropped event makes a row lag).
ScreenCatchesUp ==
    /\ TypeOK
    /\ loop = "running" /\ queue = <<>> =>
           /\ \A r \in Shown \ lost : rows[r] = ledger[r]
           /\ accounting = published

\* When the engine finishes and drops its sink, the dashboard returns, so that
\* `gw gen tui` can join the engine and report (the comment of commands/tui.rs).
ReturnsWithTheEngine == engine = "finished" ~> loop = "ended"
=============================================================================

------------------------------- MODULE Sandbox -------------------------------
(***************************************************************************)
(* The offline evaluation of candidate modules in containers               *)
(* (gw-cli/src/coding): observe_pair runs the rows of a request one after  *)
(* the other, each with a probe and one fresh container per case, through  *)
(* a Docker daemon whose answers may be lost: a control call that times    *)
(* out may still take effect later.                                        *)
(***************************************************************************)
EXTENDS Naturals, Sequences, FiniteSets

CONSTANTS Rows,   \* bound: answered rows of the request
          Cases,  \* bound: cases of each task
          None

\* A request has a row at least, and a task a case (coding_task.rs).
SandboxConstants == Rows \in Nat \ {0} /\ Cases \in Nat \ {0}

VARIABLES pc,         \* the next step of the supervisor
          row, case,  \* the row that is executed and its case, 0 the probe
          owned,      \* Owned and Invocation: id known, acknowledged, stop, output, settled
          boxes,      \* the daemon's containers, by the invocation that owns them
          late,       \* creations the daemon was sent and may still carry out
          runnable,   \* the next case of this row may be executed
          probed,     \* the probe of this row was settled
          budget,     \* the token of this row: 180 seconds are over
          cancelled,  \* the caller's token
          cases,      \* observations of this row
          rows        \* outcomes of the rows before it

vars == <<pc, row, case, owned, boxes, late, runnable, probed, budget, cancelled, cases, rows>>

Me == <<row, case>>
Stopped == budget \/ cancelled
Fresh == [known |-> FALSE, acked |-> TRUE, started |-> FALSE, began |-> FALSE,
          stop |-> None, output |-> None, settled |-> TRUE]

status(reason) == CASE reason = "Matched" -> "Passed"
                    [] reason \in {"Cancelled", "Infrastructure", "NotRun"} -> "Skipped"
                    [] OTHER -> "Failed"

outcome(observed) ==
    IF \E n \in DOMAIN observed : ~ observed[n].settled \/ status(observed[n].reason) = "Skipped"
    THEN "Unknown"
    ELSE IF \E n \in DOMAIN observed : status(observed[n].reason) = "Failed"
    THEN "Failed" ELSE "Passed"

\* CodingCaseObservation::validate and CodingPairedArtifact::validate.
validate_case(o) ==
    /\ o.reason \in {"Matched", "WrongResult"} => o.result /\ o.known
    /\ o.reason = "NotRun" => ~ o.known /\ ~ o.result
validate_row(r) ==
    IF r.reason = "native"
    THEN /\ r.representation = "Module" /\ Len(r.cases) = Cases
         /\ \A n \in DOMAIN r.cases : validate_case(r.cases[n])
         /\ r.outcome = outcome(r.cases)
    ELSE <<r.representation, r.reason, r.outcome>> \in
             {<<"Unsupported", "unsupported_representation", "Failed">>,
              <<"Unknown", "generation_unknown", "Unknown">>,
              <<"Module", "cancelled", "Unknown">>, <<"Module", "infrastructure", "Unknown">>}

--------------------------------------------------------------------------
\* observe_pair, row by row.
EndRow(representation, result, reason, observed) ==
    /\ rows' = Append(rows, [representation |-> representation, outcome |-> result,
                             reason |-> reason, cases |-> observed])
    /\ row' = row + 1 /\ pc' = IF row = Rows THEN "done" ELSE "row"
    /\ cases' = <<>>

NextRow ==
    /\ pc = "row"
    /\ \/ EndRow("Unsupported", "Failed", "unsupported_representation", <<>>)
       \/ EndRow("Unknown", "Unknown", "generation_unknown", <<>>)
       \/ cancelled /\ EndRow("Module", "Unknown", "cancelled", <<>>)
       \/ ~ cancelled /\ pc' = "connect" /\ UNCHANGED <<row, cases, rows>>
    /\ budget' = FALSE
    /\ UNCHANGED <<case, owned, boxes, late, runnable, probed, cancelled>>

\* Docker::connect verifies the endpoint, the daemon and the image.
Connect ==
    /\ pc = "connect"
    /\ \/ EndRow("Module", "Unknown", "infrastructure", <<>>) /\ UNCHANGED <<case, owned>>
       \/ pc' = "create" /\ case' = 0 /\ owned' = Fresh /\ UNCHANGED <<row, cases, rows>>
    /\ UNCHANGED <<boxes, late, runnable, probed, budget, cancelled>>

\* run: a case is executed in a container of its own, or is recorded as not run.
NextCase ==
    /\ pc = "case"
    /\ \/ /\ case > Cases /\ EndRow("Module", outcome(cases), "native", cases)
          /\ UNCHANGED <<case, owned>>
       \/ /\ case <= Cases /\ (~ runnable \/ Stopped)
          /\ LET lost == cases = <<>> /\ ~ probed
             IN  cases' = Append(cases, [reason |-> IF lost THEN "Infrastructure" ELSE "NotRun",
                                         settled |-> ~ lost, began |-> FALSE,
                                         known |-> FALSE, result |-> FALSE])
          /\ case' = case + 1 /\ UNCHANGED <<pc, row, owned, rows>>
       \/ /\ case <= Cases /\ runnable /\ ~ Stopped
          /\ pc' = "create" /\ owned' = Fresh /\ UNCHANGED <<row, case, cases, rows>>
    /\ UNCHANGED <<boxes, late, runnable, probed, budget, cancelled>>

--------------------------------------------------------------------------
(* Owned::create_start.  A call is acknowledged, refused, or lost.         *)

Step(next, o) == pc' = next /\ owned' = o
Steady == UNCHANGED <<row, case, runnable, probed, budget, cancelled, cases, rows>>
GiveUp(o) == Step("inspect_owned", [o EXCEPT !.stop = IF Stopped THEN "Cancelled" ELSE "Infrastructure"])

Create ==
    /\ pc = "create"
    /\ \/ Stopped /\ GiveUp(owned) /\ UNCHANGED <<boxes, late>>
       \/ ~ Stopped /\ Step("validate", owned) /\ boxes' = boxes \cup {Me} /\ UNCHANGED late
       \/ ~ Stopped /\ GiveUp([owned EXCEPT !.acked = FALSE]) /\ UNCHANGED <<boxes, late>>
       \/ ~ Stopped /\ GiveUp([owned EXCEPT !.acked = FALSE])
             /\ late' = late \cup {Me} /\ UNCHANGED boxes
    /\ Steady

\* The container is inspected: its identity is kept, its configuration must match.
Validate ==
    /\ pc = "validate"
    /\ \/ ~ Stopped /\ Step("start", [owned EXCEPT !.known = TRUE, !.acked = FALSE])
       \/ GiveUp([owned EXCEPT !.known = TRUE])
       \/ GiveUp(owned)
    /\ Steady /\ UNCHANGED <<boxes, late>>

Start ==
    /\ pc = "start"
    /\ \/ ~ Stopped /\ Step("exec", [owned EXCEPT !.acked = TRUE, !.started = TRUE])
       \/ Stopped /\ GiveUp([owned EXCEPT !.acked = TRUE])
       \/ GiveUp(owned)
    /\ Steady /\ UNCHANGED <<boxes, late>>

\* invoke: the first of the exit, the token, the output limit and the wall limit; the
\* program began or the daemon never got to it.  An exit is kept as the reason it amounts to.
Exec ==
    /\ pc = "exec"
    /\ \/ \E reason \in {"Matched", "WrongResult", "InvalidOutput", "CandidateExit", "OutputLimit"} :
             Step("inspect_owned", [owned EXCEPT !.began = TRUE, !.output = reason])
       \/ Step("inspect_owned", [owned EXCEPT !.output = "Infrastructure"])
       \/ Step("inspect_owned", [owned EXCEPT !.stop = "OutputLimit", !.began = TRUE])
       \/ \E began \in BOOLEAN :
             \/ Stopped /\ Step("inspect_owned", [owned EXCEPT !.stop = "Cancelled", !.began = began])
             \/ Step("inspect_owned", [owned EXCEPT !.stop = "WallLimit", !.began = began])
       \/ GiveUp([owned EXCEPT !.started = FALSE])
    /\ Steady /\ UNCHANGED <<boxes, late>>

--------------------------------------------------------------------------
(* Owned::remove, and what invoke makes of it.                             *)

Removed(settled) ==
    Step(IF owned.started THEN "drain" ELSE "classify", [owned EXCEPT !.settled = settled])

InspectOwned ==
    /\ pc = "inspect_owned"
    /\ \/ Removed(FALSE)
       \/ pc' = (IF Me \in boxes THEN "force" ELSE "absent") /\ UNCHANGED owned
    /\ Steady /\ UNCHANGED <<boxes, late>>

Force ==
    /\ pc = "force"
    /\ \/ boxes' = boxes \ {Me} /\ pc' = "absent" /\ UNCHANGED owned
       \/ boxes' \in {boxes, boxes \ {Me}} /\ Removed(FALSE)
    /\ Steady /\ UNCHANGED late

\* Mutated: the container is gone, so all is well.
AbsentWithoutAcknowledgment ==
    /\ pc = "absent"
    /\ Removed(FALSE) \/ Removed(Me \notin boxes)
    /\ Steady /\ UNCHANGED <<boxes, late>>
Absent ==
    /\ pc = "absent"
    /\ Removed(FALSE) \/ Removed(Me \notin boxes /\ owned.acked)
    /\ Steady /\ UNCHANGED <<boxes, late>>

\* The child's end is awaited; one that does not end is killed and nothing is settled.
Drain ==
    /\ pc = "drain"
    /\ \/ Step("again", [owned EXCEPT !.output = IF @ = None THEN "collected" ELSE @])
       \/ Step("again", [owned EXCEPT !.output = None, !.stop = "Infrastructure"])
       \/ owned.stop # None /\ \E collected \in BOOLEAN :
              Step("again", [owned EXCEPT !.settled = FALSE,
                                          !.output = IF collected THEN "collected" ELSE None,
                                          !.stop = IF collected THEN @ ELSE "Infrastructure"])
    /\ Steady /\ UNCHANGED <<boxes, late>>

Again ==
    /\ pc = "again"
    /\ \E answered \in BOOLEAN :
           Step("classify", [owned EXCEPT !.settled = @ /\ answered /\ Me \notin boxes])
    /\ Steady /\ UNCHANGED <<boxes, late>>

reason_of(o) == IF o.output = None THEN "Infrastructure"
                ELSE IF o.stop # None THEN o.stop ELSE o.output

Classify ==
    /\ pc = "classify"
    /\ LET reason == reason_of(owned)
           observed == [reason |-> reason, settled |-> owned.settled, began |-> owned.began,
                        known |-> owned.known, result |-> reason \in {"Matched", "WrongResult"}]
       IN  IF case = 0
           THEN /\ runnable' = (owned.settled /\ reason = "Matched")
                /\ probed' = owned.settled /\ UNCHANGED cases
           ELSE /\ runnable' = (owned.settled /\ status(reason) # "Skipped")
                /\ cases' = Append(cases, observed) /\ UNCHANGED probed
    /\ pc' = "case" /\ case' = case + 1
    /\ UNCHANGED <<row, owned, boxes, late, budget, cancelled, rows>>

--------------------------------------------------------------------------
\* The daemon carries out what it was sent, long after the call timed out.
LateCreate == \E i \in late : late' = late \ {i} /\ boxes' = boxes \cup {i}
              /\ UNCHANGED <<pc, row, case, owned, runnable, probed, budget, cancelled, cases, rows>>

BudgetOver == pc \notin {"row", "done"} /\ ~ budget /\ budget' = TRUE
              /\ UNCHANGED <<pc, row, case, owned, boxes, late, runnable, probed, cancelled, cases, rows>>
Cancel == pc # "done" /\ ~ cancelled /\ cancelled' = TRUE
          /\ UNCHANGED <<pc, row, case, owned, boxes, late, runnable, probed, budget, cases, rows>>

Init ==
    /\ pc = "row" /\ row = 1 /\ case = 0 /\ owned = Fresh /\ boxes = {} /\ late = {}
    /\ runnable = FALSE /\ probed = TRUE /\ budget = FALSE /\ cancelled = FALSE
    /\ cases = <<>> /\ rows = <<>>

Supervise == NextRow \/ Connect \/ NextCase \/ Create \/ Validate \/ Start \/ Exec
             \/ InspectOwned \/ Force \/ Absent \/ Drain \/ Again \/ Classify
Next == Supervise \/ LateCreate \/ BudgetOver \/ Cancel

Spec == Init /\ [][Next]_vars
\* Every call to the daemon and every wait for a child is bounded by a timer.
FairSpec == Spec /\ WF_vars(Supervise)

--------------------------------------------------------------------------
Observed == {i \in (1 .. Rows) \X (1 .. Cases) :
                 \/ i[1] \in DOMAIN rows /\ i[2] \in DOMAIN rows[i[1]].cases
                 \/ i[1] = row /\ i[2] \in DOMAIN cases}
Observation(i) == IF i[1] \in DOMAIN rows THEN rows[i[1]].cases[i[2]] ELSE cases[i[2]]

\* What is settled is gone for good, a creation that was never acknowledged
\* included, and so is every container of a row that was decided: no verdict on a
\* candidate stands while one of its containers exists or may still be created
\* (mutation_acknowledged, the second absence query, runnable).
SettledMeansGone ==
    /\ \A i \in Observed : Observation(i).settled => i \notin boxes \cup late
    /\ \A r \in DOMAIN rows : rows[r].outcome # "Unknown" =>
           ~ \E i \in boxes \cup late : i[1] = r

\* A row never has two containers, and the next case waits for the end of the last:
\* while one is created or runs, none of this row is left or can still appear.
OneContainerPerRow ==
    pc \in {"create", "validate", "start", "exec"} =>
        {i \in boxes \cup late : i[1] = row} \subseteq {Me}

\* Whatever the daemon did, the artifact is one its own reader accepts: the rows
\* that were paid for are never lost to the last validate of observe_pair.
ReportIsAccepted == \A r \in DOMAIN rows : validate_row(rows[r])

\* Under any daemon the supervisor comes to an end (CONTROL_LIMIT, the wall limit).
Returns == <>(pc = "done")
=============================================================================

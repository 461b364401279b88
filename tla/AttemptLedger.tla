--------------------------- MODULE AttemptLedger ---------------------------
(***************************************************************************)
(* What one observed call promises, whatever endpoint it talks to and      *)
(* however it fails: the contract of AttemptObserver and CallObservation   *)
(* (gw-providers/src/observation.rs, gw-storage/src/attempts.rs).  The     *)
(* receipts are in the durable ledger, `told` is all the caller learns.    *)
(*                                                                         *)
(*  - A request is repeated only after its predecessor is settled as a     *)
(*    failure, and nothing is requested once the caller has an answer.     *)
(*  - A receipt is settled once and interpreted once, in this order, and   *)
(*    only the newest receipt may be.                                      *)
(*  - An answer other than an accounting failure is durable on the newest  *)
(*    receipt, and only a complete response is accepted or truncated.      *)
(*  - After an accounting failure the ledger is left as it is.             *)
(***************************************************************************)
EXTENDS Naturals, Sequences

CONSTANT None

VARIABLES receipts, \* the receipts of the call, in order
          told      \* what the caller was told, or None

lvars == <<receipts, told>>

Failures == {"HttpError", "Failed"}
Verdicts == {"Accepted", "Truncated", "Invalid", "Failed"}

Open == [outcome |-> None, interpretation |-> None]
Last == receipts[Len(receipts)]

\* The verdicts that a transport outcome allows.
Allowed(outcome) == IF outcome = "Complete" THEN {"Accepted", "Truncated", "Invalid"}
                                            ELSE {"Invalid", "Failed"}

Begin ==
    /\ \A n \in DOMAIN receipts :
           receipts[n].outcome \in Failures /\ receipts[n].interpretation = None
    /\ receipts' = Append(receipts, Open)

Settle ==
    /\ receipts # <<>> /\ Last.outcome = None
    /\ \E o \in Failures \cup {"Complete"} :
           receipts' = [receipts EXCEPT ![Len(receipts)] = [Last EXCEPT !.outcome = o]]

Interpret(i) ==
    /\ receipts # <<>> /\ Last.interpretation = None
    /\ Last.outcome # None /\ i \in Allowed(Last.outcome)
    /\ receipts' = [receipts EXCEPT ![Len(receipts)] = [Last EXCEPT !.interpretation = i]]

Write == Begin \/ Settle \/ \E i \in Verdicts : Interpret(i)

LInit == receipts = <<>> /\ told = None

LNext == /\ told = None
         /\ \/ Write /\ UNCHANGED told
            \/ \E i \in Verdicts : Interpret(i) /\ told' = i
            \/ (Write \/ UNCHANGED receipts) /\ told' = "Accounting"

Ledger == LInit /\ [][LNext]_lvars
=============================================================================

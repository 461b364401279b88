--------------------------- MODULE EmbeddingCall ---------------------------
(***************************************************************************)
(* One observed embedding request: embed_batch_impl of gw-providers/src/   *)
(* embeddings.rs.  Unlike a chat call it is one physical attempt, bounded  *)
(* by the client's own timeout (a fault of the transport here), and its    *)
(* answer is validated as a whole before the caller sees it.               *)
(*                                                                         *)
(* A step is the code between two awaits; a durable write may fail, before *)
(* or after it happened, and the future may be dropped at every await.     *)
(***************************************************************************)
EXTENDS Naturals, Sequences, Functions

CONSTANTS Texts,   \* how many texts are embedded
          Vectors, \* the vectors of the client's dimension, finite and not zero
          Data,    \* bound: the data an endpoint answers with, sequences of Datum
          None

Datum == [index : Nat, vector : Vectors \cup {"NonFinite", "Zero", "OtherDimension"}]

\* What is assumed of the constants: answers are sequences of data, and no value is None.
EmbeddingConstants ==
    /\ Texts \in Nat
    /\ \A data \in Data : data \in Seq(Datum)
    /\ None \notin Data /\ None \notin [0 .. Texts - 1 -> Vectors]
    /\ None \notin {"Transport", "Status", "Decode", "Complete", "HttpError", "Failed",
                    "Accepted", "Invalid", "Accounting"}

VARIABLES pc,      \* where the call is suspended
          ledger,  \* the receipts of this call
          body,    \* the response body: [status, usage, data], or None
          error,   \* the error the request ends with, or None
          outcome, \* the settlement that is being written
          answer,  \* the vectors the caller gets, or None
          result   \* what the caller was told, or None

vars == <<pc, ledger, body, error, outcome, answer, result>>

Receipt == [sent |-> FALSE, usage |-> FALSE, outcome |-> None, interpretation |-> None]
Update(field, value) == [ledger EXCEPT ![1][field] = value]

--------------------------------------------------------------------------
(* order_and_validate: a vector for every text, by the index it names.     *)

Sound(datum) == datum.vector \in Vectors
Indexes(data) == {data[n].index : n \in DOMAIN data}

order_and_validate(data) ==
    IF /\ \A n \in DOMAIN data : Sound(data[n])
       /\ Indexes(data) = 0 .. Texts - 1 /\ Len(data) = Texts
    THEN [i \in 0 .. Texts - 1 |->
            data[CHOOSE n \in DOMAIN data : data[n].index = i].vector]
    ELSE None

--------------------------------------------------------------------------
(* The call.                                                               *)

Interpretation == IF error = None THEN "Accepted"
                  ELSE IF error = "Decode" THEN "Invalid" ELSE "Failed"

\* What a write that is not acknowledged may leave behind.
InFlight == {ledger} \cup
    CASE pc = "begin"     -> {<<Receipt>>}
      [] pc = "metadata"  -> {Update("usage", TRUE)}
      [] pc = "settle"    -> {Update("outcome", outcome)}
      [] pc = "interpret" -> {Update("interpretation", Interpretation)}
      [] OTHER -> {}

Begin == /\ pc = "begin" /\ pc' = "send"
         /\ ledger' = <<Receipt>>
         /\ UNCHANGED <<body, error, outcome, answer, result>>

Send == /\ pc = "send" /\ pc' = "response"
        /\ ledger' = Update("sent", TRUE)
        /\ UNCHANGED <<body, error, outcome, answer, result>>

\* The request or its body fails, or takes longer than the client waits.
Breaks == /\ pc = "response" /\ pc' = "settle"
          /\ error' = "Transport" /\ outcome' = "Failed"
          /\ UNCHANGED <<ledger, body, answer, result>>

\* The body, decoded: `data` is None if it is not the JSON of an answer.
Responds ==
    /\ pc = "response"
    /\ \E ok \in BOOLEAN, usage \in BOOLEAN, data \in Data \cup {None} :
           /\ body' = [ok |-> ok, data |-> data]
           /\ error' = IF ok THEN None ELSE "Status"
           /\ outcome' = IF ok THEN "Complete" ELSE "HttpError"
           /\ pc' = IF usage THEN "metadata" ELSE "settle"
    /\ UNCHANGED <<ledger, answer, result>>

Observe == /\ pc = "metadata" /\ pc' = "settle"
           /\ ledger' = Update("usage", TRUE)
           /\ UNCHANGED <<body, error, outcome, answer, result>>

\* Settled: a complete response is decoded and validated.
Settle ==
    /\ pc = "settle" /\ pc' = "interpret"
    /\ ledger' = Update("outcome", outcome)
    /\ IF error = None /\ body.data # None
       THEN answer' = order_and_validate(body.data) ELSE UNCHANGED answer
    /\ error' = IF error = None /\ answer' = None THEN "Decode" ELSE error
    /\ UNCHANGED <<body, outcome, result>>

Interpret == /\ pc = "interpret" /\ pc' = "returned"
             /\ ledger' = Update("interpretation", Interpretation)
             /\ result' = Interpretation
             /\ UNCHANGED <<body, error, outcome, answer>>

\* Mutated: an answer is interpreted although its settlement was refused.
WriteFailsQuietly ==
    /\ pc \in {"begin", "metadata", "settle", "interpret"}
    /\ ledger' \in InFlight /\ UNCHANGED <<body, error, outcome>>
    /\ IF pc = "settle" THEN pc' = "interpret" /\ UNCHANGED <<answer, result>>
       ELSE pc' = "returned" /\ answer' = None /\ result' = "Accounting"
\* A write fails: it is not retried, and the answer is lost to the caller.
WriteFails == /\ pc \in {"begin", "metadata", "settle", "interpret"} /\ pc' = "returned"
              /\ ledger' \in InFlight
              /\ answer' = None /\ result' = "Accounting"
              /\ UNCHANGED <<body, error, outcome>>

Drop == /\ pc \notin {"returned", "dropped"} /\ pc' = "dropped"
        /\ ledger' \in InFlight /\ answer' = None
        /\ UNCHANGED <<body, error, outcome, result>>

Init == /\ pc = "begin" /\ ledger = <<>> /\ body = None /\ error = None
        /\ outcome = None /\ answer = None /\ result = None

Next == \/ Begin \/ Send \/ Breaks \/ Responds \/ Observe \/ Settle \/ Interpret
        \/ WriteFails \/ Drop

Spec == Init /\ [][Next]_vars

--------------------------------------------------------------------------
\* The caller gets a vector for each of its texts, and each is the only one the
\* endpoint gave for that text's index; such an answer is settled as complete and
\* accepted in the ledger, its usage with it (embed_batch_impl, order_and_validate).
AnswerIsPerText ==
    pc = "returned" /\ answer # None =>
        /\ ledger[1].outcome = "Complete" /\ ledger[1].interpretation = "Accepted"
        /\ DOMAIN answer = 0 .. Texts - 1
        /\ \A i \in 0 .. Texts - 1 : \A n \in DOMAIN body.data :
               body.data[n].index = i => body.data[n].vector = answer[i] /\ answer[i] \in Vectors
        /\ Indexes(body.data) = 0 .. Texts - 1 /\ Len(body.data) = Texts

\* The receipts and what the caller is told are those of an observed call.
Promise == INSTANCE AttemptLedger WITH
    receipts <- [n \in DOMAIN ledger |-> [outcome |-> ledger[n].outcome,
                                          interpretation |-> ledger[n].interpretation]],
    told <- result

\* The embedding call implements the contract of observed calls (AttemptLedger).
ImplementsLedger == Promise!Ledger
=============================================================================

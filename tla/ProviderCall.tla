---------------------------- MODULE ProviderCall ----------------------------
(***************************************************************************)
(* One logical model call with durable observation: observed_chat and      *)
(* finish_observed around ChatCompletionsProvider (gw-providers/src/       *)
(* client.rs, retry.rs, observation.rs, observed_sse.rs) and the receipts  *)
(* the observer writes (gw-storage/src/attempts.rs).                       *)
(*                                                                         *)
(* A step is the code between two awaits.  Every durable write may be      *)
(* refused, and may be refused after it happened; the future may be        *)
(* dropped at every await.  Of a response only its cumulative usage is     *)
(* kept, and whether a chunk parses.                                       *)
(***************************************************************************)
EXTENDS Naturals, Sequences

CONSTANTS max_attempts, \* the retry policy
          MaxUsage,     \* bound: cumulative usage an endpoint reports
          MaxChunks,    \* bound: data events of a stream
          None

ASSUME CallAssumption == /\ max_attempts \in Nat \ {0}
                         /\ MaxUsage \in Nat \ {0} /\ MaxChunks \in Nat
                         /\ None \notin Nat

VARIABLES pc,            \* where the call is suspended
          ordinal,       \* the attempt's index, from 0
          ledger,        \* the receipts of this call, in order
          held,          \* position of the ActiveAttempt's receipt, or 0
          latest,        \* position of the receipt the call would interpret
          last_metadata, \* usage the attempt knows to be durable, 0 if none
          next_sequence, \* sequence of its next observation
          chunk,         \* the event whose metadata is being observed
          parse_error,   \* whether an event of the stream did not parse
          error,         \* the error the attempt or stream ends with, or None
          outcome,       \* the settlement that is being written, or None
          chunks,        \* how many data events came
          refused,       \* history: whether a durable write was not acknowledged
          reported,      \* history: usage the endpoint last reported
          delivered,     \* history: usage the consumer last saw
          result         \* what the caller was told, or None

attempt == <<held, last_metadata, next_sequence>>
stream == <<chunk, parse_error, chunks, delivered>>
vars == <<pc, ordinal, ledger, latest, error, outcome, refused, reported, result,
          attempt, stream>>

Errors == {"Transport", "Busy", "Status", "StreamReset", "Decode", "Accounting"}
Outcomes == {"Complete", "HttpError", "Failed"}
Interpretations == {"Accepted", "Truncated", "Invalid", "Failed"}
Usage == 1 .. MaxUsage

ASSUME NoneAssumption == None \notin Errors \cup Outcomes \cup Interpretations

\* A receipt; conflicting evidence is recorded in it and refused.
Receipt(n) == [ordinal |-> n, sent |-> FALSE, observations |-> 0, usage |-> 0,
               conflicts |-> {}, outcome |-> None, interpretation |-> None]

\* Mutated: accounting failures are retried like faults of the transport.
RetryAccounting(class) == class \in {"Transport", "Busy", "StreamReset", "Accounting"}
\* Busy stands for 429, 408 and 5xx, Status for every other error status.
is_retryable(class) == class \in {"Transport", "Busy", "StreamReset"}

--------------------------------------------------------------------------
(* The end of an attempt and of the call.                                  *)

\* Only a failure that is not one of accounting is interpreted.
Return(class) ==
    /\ error' = class
    /\ IF class = "Accounting" THEN pc' = "returned" /\ result' = class
                               ELSE pc' = "interpret" /\ UNCHANGED result

\* retry: send_once failed.
SendFails(class) ==
    IF is_retryable(class) /\ ordinal + 1 < max_attempts
    THEN /\ pc' = "limiter" /\ ordinal' = ordinal + 1 /\ error' = None
         /\ UNCHANGED result
    ELSE Return(class) /\ UNCHANGED ordinal

\* The attempt is dropped: its memory ownership ends, nothing is written.
Release == held' = 0 /\ UNCHANGED <<last_metadata, next_sequence>>

Owned == ledger[held]
Update(row) == [ledger EXCEPT ![held] = row]

--------------------------------------------------------------------------
(* The receipts: what each write of the observer does to the ledger.       *)

Unchanged == chunk.usage \in {None, last_metadata}

\* observe_model_attempt: sequences are contiguous, usage is cumulative.
Conflicts ==
    {c \in {"observation_sequence", "usage"} :
        IF next_sequence # Owned.observations THEN c = "observation_sequence"
        ELSE c = "usage" /\ chunk.usage < Owned.usage}

Observation ==
    Update([Owned EXCEPT !.observations = @ + 1,
                         !.conflicts = @ \cup Conflicts,
                         !.usage = IF "observation_sequence" \in Conflicts THEN @
                                   ELSE chunk.usage])

Settled == Update([Owned EXCEPT !.outcome = outcome])

Interpreted(i) ==
    [ledger EXCEPT ![latest] = [ledger[latest] EXCEPT !.interpretation = i]]

Interpretation == IF error = None THEN {"Accepted", "Truncated", "Invalid"}
                  ELSE IF error = "Decode" THEN {"Invalid"} ELSE {"Failed"}

\* What a write that is not acknowledged may leave behind.
InFlight == {ledger} \cup
    CASE pc = "limiter" -> {Append(ledger, Receipt(ordinal))}
      [] pc = "observe" -> IF Unchanged THEN {} ELSE {Observation}
      [] pc \in {"settle_send", "settle_stream"} -> {Settled}
      [] pc = "interpret" -> {Interpreted(i) : i \in Interpretation}
      [] OTHER -> {}

--------------------------------------------------------------------------
(* send_once                                                               *)

Start ==
    /\ pc = "idle" /\ pc' = "limiter"
    /\ UNCHANGED <<ordinal, ledger, latest, error, outcome, refused, reported, result,
                   attempt, stream>>

\* The limiter admits and the intent is durable: the attempt is owned.
Begin ==
    /\ pc = "limiter" /\ pc' = "post"
    /\ ledger' = Append(ledger, Receipt(ordinal))
    /\ held' = Len(ledger) + 1 /\ latest' = Len(ledger) + 1
    /\ last_metadata' = 0 /\ next_sequence' = 0
    /\ reported' = 0
    /\ UNCHANGED <<ordinal, error, outcome, refused, result, stream>>

\* Denied, cancelled, or not acknowledged.
BeginFails ==
    /\ pc = "limiter"
    /\ ledger' \in InFlight
    /\ SendFails("Accounting")
    /\ refused' = TRUE
    /\ UNCHANGED <<latest, outcome, reported, attempt, stream>>

Post ==
    /\ pc = "post" /\ pc' = "waiting"
    /\ ledger' = Update([Owned EXCEPT !.sent = TRUE])
    /\ UNCHANGED <<ordinal, latest, error, outcome, refused, reported, result,
                   attempt, stream>>

Response ==
    /\ pc = "waiting"
    /\ \/ error' = "Transport" /\ outcome' = "Failed" /\ pc' = "settle_send"
       \/ error' \in {"Busy", "Status"} /\ outcome' = "HttpError" /\ pc' = "body"
       \/ error' = None /\ outcome' = None /\ pc' = "stream"
    /\ UNCHANGED <<ordinal, ledger, latest, refused, reported, result, attempt, stream>>

Body ==
    /\ pc = "body" /\ pc' = "observe"
    /\ \E u \in Usage \cup {None} :
           /\ chunk' = [usage |-> u, kind |-> "body"]
           /\ reported' = IF u = None THEN reported ELSE u
    /\ UNCHANGED <<ordinal, ledger, latest, error, outcome, refused, result, attempt,
                   parse_error, chunks, delivered>>

\* Mutated: the attempt is not settled when its body cannot be read.
BodyLostUnsettled ==
    /\ pc = "body" /\ SendFails("Transport") /\ Release
    /\ UNCHANGED <<ledger, latest, outcome, refused, reported, stream>>
\* The body of an error status cannot be read: a transport fault, whatever the
\* status was.
BodyLost ==
    /\ pc = "body" /\ pc' = "settle_send" /\ error' = "Transport"
    /\ UNCHANGED <<ordinal, ledger, latest, outcome, refused, reported, result,
                   attempt, stream>>

--------------------------------------------------------------------------
(* ActiveAttempt::metadata: changed evidence is durable before it is used. *)

\* Mutated: the delta is handed on before its evidence is durable.
DataDelivered ==
    /\ pc = "stream" /\ chunks < MaxChunks /\ pc' = "observe"
    /\ \E u \in Usage \cup {None}, k \in {"delta", "garbled"} :
           /\ chunk' = [usage |-> u, kind |-> k]
           /\ reported' = IF u = None THEN reported ELSE u
           /\ delivered' = IF u = None \/ k = "garbled" \/ parse_error
                           THEN delivered ELSE u
    /\ chunks' = chunks + 1
    /\ UNCHANGED <<ordinal, ledger, latest, error, outcome, refused, result, attempt,
                   parse_error>>
Data ==
    /\ pc = "stream" /\ chunks < MaxChunks /\ pc' = "observe"
    /\ \E u \in Usage \cup {None}, k \in {"delta", "garbled"} :
           /\ chunk' = [usage |-> u, kind |-> k]
           /\ reported' = IF u = None THEN reported ELSE u
    /\ chunks' = chunks + 1
    /\ UNCHANGED <<ordinal, ledger, latest, error, outcome, refused, result, attempt,
                   parse_error, delivered>>

\* What follows once the evidence of the event is durable.  After an event that
\* did not parse the rest of the stream is read for its evidence only.
Proceed(usage) ==
    /\ IF chunk.kind = "body" THEN pc' = "settle_send" ELSE pc' = "stream"
    /\ parse_error' = (parse_error \/ chunk.kind = "garbled")
    /\ delivered' = IF chunk.kind = "delta" /\ ~ parse_error
                    THEN usage ELSE delivered
    /\ chunk' = None
    /\ UNCHANGED <<ordinal, latest, error, outcome, refused, reported, result,
                   chunks, held>>

NothingNew ==
    /\ pc = "observe" /\ Unchanged
    /\ Proceed(last_metadata)
    /\ UNCHANGED <<ledger, last_metadata, next_sequence>>

Observe ==
    /\ pc = "observe" /\ ~ Unchanged /\ Conflicts = {}
    /\ ledger' = Observation
    /\ last_metadata' = chunk.usage /\ next_sequence' = next_sequence + 1
    /\ Proceed(chunk.usage)

\* Conflicting evidence, or a write that is not acknowledged: the attempt is
\* dropped and never settled.
ObserveFails ==
    /\ pc = "observe" /\ ~ Unchanged
    /\ ledger' \in IF Conflicts # {} THEN {Observation} ELSE InFlight
    /\ IF chunk.kind = "body" THEN SendFails("Accounting")
       ELSE Return("Accounting") /\ UNCHANGED ordinal
    /\ Release /\ chunk' = None
    /\ refused' = TRUE
    /\ UNCHANGED <<latest, outcome, reported, parse_error, chunks, delivered>>

--------------------------------------------------------------------------
(* The end of the response.                                                *)

Done ==
    /\ pc = "stream"
    /\ pc' = "settle_stream" /\ outcome' = "Complete"
    /\ error' = IF parse_error THEN "Decode" ELSE None
    /\ UNCHANGED <<ordinal, ledger, latest, refused, reported, result, attempt, stream>>

\* The bytes end before [DONE], or cannot be read.
StreamBreaks ==
    /\ pc = "stream"
    /\ pc' = "settle_stream" /\ outcome' = "Failed"
    /\ IF parse_error THEN error' = "Decode" ELSE error' \in {"StreamReset", "Transport"}
    /\ UNCHANGED <<ordinal, ledger, latest, refused, reported, result, attempt, stream>>

\* An attempt ends with the error it is settled with, or with `class`.
Ends(class) ==
    /\ IF pc = "settle_send" THEN SendFails(class) ELSE Return(class) /\ UNCHANGED ordinal
    /\ Release /\ outcome' = None
    /\ UNCHANGED <<latest, reported, stream>>

Settling == pc \in {"settle_send", "settle_stream"}

Settle == /\ Settling
          /\ ledger' = Settled /\ Ends(error)
          /\ UNCHANGED refused

SettleFails ==
    /\ Settling /\ ledger' \in InFlight /\ Ends("Accounting")
    /\ refused' = TRUE

--------------------------------------------------------------------------
(* What the caller makes of it.                                            *)

Interpret ==
    /\ pc = "interpret" /\ pc' = "returned"
    /\ \E i \in Interpretation :
           /\ ledger' = Interpreted(i)
           /\ result' = i
    /\ UNCHANGED <<ordinal, latest, error, outcome, refused, reported, attempt, stream>>

InterpretFails ==
    /\ pc = "interpret" /\ pc' = "returned"
    /\ ledger' \in InFlight
    /\ result' = "Accounting"
    /\ refused' = TRUE
    /\ UNCHANGED <<ordinal, latest, error, outcome, reported, attempt, stream>>

\* The caller drops the future or the stream, in the midst of a write too.
Drop ==
    /\ pc \notin {"idle", "returned", "dropped"} /\ pc' = "dropped"
    /\ ledger' \in InFlight
    /\ Release
    /\ UNCHANGED <<ordinal, latest, error, outcome, refused, reported, result, stream>>

Init == /\ pc = "idle" /\ ordinal = 0 /\ ledger = <<>> /\ held = 0 /\ latest = 0
        /\ last_metadata = 0 /\ next_sequence = 0
        /\ chunk = None /\ parse_error = FALSE /\ chunks = 0
        /\ error = None /\ outcome = None
        /\ refused = FALSE /\ reported = 0 /\ delivered = 0 /\ result = None

Call == \/ Begin \/ BeginFails \/ Post \/ Response \/ Body \/ BodyLost
        \/ Data \/ NothingNew \/ Observe \/ ObserveFails \/ Done \/ StreamBreaks
        \/ Settle \/ SettleFails \/ Interpret \/ InterpretFails

Next == Start \/ Call \/ Drop

Spec == Init /\ [][Next]_vars

--------------------------------------------------------------------------
(* Type invariant: the states of a call and its receipts. *)
TypeOK ==
    /\ pc \in {"idle", "limiter", "post", "waiting", "body", "observe", "stream",
               "settle_send", "settle_stream", "interpret", "returned", "dropped"}
    /\ ordinal \in 0 .. max_attempts - 1
    /\ Len(ledger) <= max_attempts
    /\ \A n \in DOMAIN ledger : ledger[n] \in
           [ordinal : {n - 1}, sent : BOOLEAN, observations : Nat, usage : {0} \cup Usage,
            conflicts : SUBSET {"observation_sequence", "usage"},
            outcome : Outcomes \cup {None}, interpretation : Interpretations \cup {None}]
    /\ held \in {0, latest} /\ latest \in 0 .. Len(ledger)
    /\ last_metadata \in {0} \cup Usage /\ next_sequence \in Nat
    /\ chunk \in {None} \cup [usage : Usage \cup {None},
                              kind : {"body", "delta", "garbled"}]
    /\ parse_error \in BOOLEAN /\ chunks \in 0 .. MaxChunks
    /\ error \in Errors \cup {None} /\ outcome \in Outcomes \cup {None}
    /\ {reported, delivered} \subseteq {0} \cup Usage
    /\ refused \in BOOLEAN /\ result \in Interpretations \cup {"Accounting", None}

\* What the consumer has seen is paid for in the ledger: the usage that came
\* with a delta is durable before the delta is handed on, so that a call dropped
\* or killed there loses no evidence (observed_sse.rs, ActiveAttempt::metadata).
\* Only an endpoint that takes usage back lowers it, and is marked for that.
DeliveredIsDurable ==
    delivered # 0 => \/ ledger[latest].usage >= delivered
                     \/ "usage" \in ledger[latest].conflicts

\* A response settled as complete has all its usage in the ledger, the usage
\* that came after an event that did not parse included.
CompleteHasAllUsage ==
    latest # 0 /\ ledger[latest].outcome = "Complete" => ledger[latest].usage = reported

\* Only the last attempt may be open, complete or interpreted: a request is
\* repeated only when its predecessor is settled as a failure.
RetryFollowsSettled ==
    \A n \in 1 .. Len(ledger) - 1 :
        ledger[n].outcome \in {"HttpError", "Failed"} /\ ledger[n].interpretation = None

\* A call that ends without an accounting failure leaves no attempt unresolved,
\* whatever its attempts met: nothing it did denies the run's next request.  The
\* verdict it reports is durable, and on the last attempt; an accepted answer is
\* that attempt's complete, undamaged response (CallObservation::interpret).
ReturnIsAccounted ==
    pc = "returned" /\ result # "Accounting" =>
        /\ \A n \in DOMAIN ledger : ledger[n].sent /\ ledger[n].outcome # None
        /\ latest = Len(ledger) /\ ledger[latest].interpretation = result
        /\ result = "Accepted" => ledger[latest].outcome = "Complete" /\ ~ parse_error

\* The client's sequence never runs apart from the store's: all the evidence the
\* store refuses is the endpoint's own (next_sequence).
SequencesAgree ==
    \A n \in DOMAIN ledger : "observation_sequence" \notin ledger[n].conflicts

\* The ledger of a call is in order: its receipts and what they hold follow one
\* another as the call's requests and observations did.
LedgerInOrder == TypeOK /\ RetryFollowsSettled /\ SequencesAgree

\* A caller is never ahead of the ledger: what it was handed is durable, a complete
\* response has all its usage, and what it is told of the call is settled and
\* interpreted on the newest receipt (observed_sse.rs, observation.rs).
CallIsAccounted ==
    LedgerInOrder /\ DeliveredIsDurable /\ CompleteHasAllUsage /\ ReturnIsAccounted

\* The receipts of the call, and what the caller is told, are those of an observed
\* call.
Promise == INSTANCE AttemptLedger WITH
    receipts <- [n \in DOMAIN ledger |-> [outcome |-> ledger[n].outcome,
                                          interpretation |-> ledger[n].interpretation]],
    told <- result

\* The model call, with its retries, implements the contract of observed calls: a
\* request follows only settled failures, a receipt is settled and interpreted
\* once, and what the caller is told is on the newest receipt (AttemptLedger).
ImplementsLedger == Promise!Ledger

\* After a write that was refused, or not acknowledged, the call makes no other
\* physical request: such a failure "must never authorize an automatic resend"
\* (ProviderError::Accounting).
NoResendAfterAccounting ==
    [][\A n \in DOMAIN ledger' :
           ledger'[n].sent /\ (n \in DOMAIN ledger => ~ ledger[n].sent) => ~ refused]_vars

\* A stream that breaks off is retried until the attempts are exhausted
\* (retry.rs lists stream resets among what it retries).
ResetIsRetried == pc = "returned" /\ error = "StreamReset" => Len(ledger) = max_attempts
=============================================================================

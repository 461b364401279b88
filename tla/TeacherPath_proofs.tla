------------------------- MODULE TeacherPath_proofs --------------------------
(***************************************************************************)
(* Proofs about the observed calls: ProviderCall, for every retry policy,  *)
(* every usage an endpoint may report and every length of a stream,        *)
(* and EmbeddingCall, for any number of texts and any answers; about the   *)
(* SseDecoder under a call, for every length of a stream and of its chunks;*)
(* and then about MCTeacherPath, which composes them.  Both calls          *)
(* implement AttemptLedger.                                                *)
(*                                                                         *)
(* IInv is the inductive invariant of a model call.  Where the call is     *)
(* suspended (pc) determines which receipt it owns, what that receipt      *)
(* holds, and what the error and the settlement still to be written can    *)
(* be.  It is needed because every write acts on a receipt found by        *)
(* position: that the owned receipt is the newest, open one is nowhere     *)
(* checked again.  Suspended says the same of an embedding call.           *)
(* DecoderInv says of a decoder that what it yielded and what is ready are *)
(* what the bytes so far amount to, and that its buffer is the line that   *)
(* is being read.                                                          *)
(***************************************************************************)
EXTENDS MCTeacherPath, FiniteSetTheorems, SequenceTheorems, WellFoundedInduction, TLAPS

Row == [ordinal : Nat, sent : BOOLEAN, observations : Nat, usage : {0} \cup Usage,
        conflicts : SUBSET {"observation_sequence", "usage"},
        outcome : Outcomes \cup {None}, interpretation : Interpretations \cup {None}]

Failures == {"HttpError", "Failed"}

\* Where an attempt is owned, where it is over and another may follow, and where
\* an error status is being dealt with.
Active == {"post", "waiting", "body", "observe", "stream", "settle_send", "settle_stream"}
Between == {"idle", "limiter"}
OfBody == pc = "body" \/ (pc = "observe" /\ chunk.kind = "body")

Chunk == [usage : Usage \cup {None}, kind : {"body", "delta", "garbled"}]

\* The owned receipt is the newest, and the next request gets the next position.
Position ==
    /\ ledger \in Seq(Row)
    /\ pc \in Active => held = Len(ledger) /\ held # 0 /\ ordinal + 1 = Len(ledger)
    /\ pc \in Between => latest = Len(ledger) /\ ordinal = Len(ledger)
    /\ pc = "interpret" => latest = Len(ledger) /\ latest # 0

\* What a receipt holds, by its position and by where the call is.
Phase(n) ==
    /\ n # Len(ledger) \/ pc \in Between =>
          /\ ledger[n].sent /\ ledger[n].outcome \in Failures
          /\ ledger[n].interpretation = None
    /\ n = Len(ledger) /\ pc \in Active =>
          /\ ledger[n].outcome = None /\ ledger[n].interpretation = None
          /\ pc # "post" => ledger[n].sent
          /\ next_sequence = ledger[n].observations
          /\ last_metadata = ledger[n].usage
    /\ pc = "interpret" =>
          /\ ledger[n].sent /\ ledger[n].outcome # None
          /\ ledger[n].interpretation = None
    /\ "observation_sequence" \notin ledger[n].conflicts

Phases == \A n \in 1 .. Len(ledger) : Phase(n)

\* The error and the settlement that are still to be written.
Ending ==
    /\ pc = "observe" => chunk \in Chunk
    /\ OfBody => error \in {"Busy", "Status"} /\ outcome = "HttpError"
    /\ pc = "settle_send" =>
          error \in {"Transport", "Busy", "Status"} /\ outcome \in Failures
    /\ pc = "settle_stream" =>
          \/ outcome = "Complete" /\ error = IF parse_error THEN "Decode" ELSE None
          \/ outcome = "Failed" /\ error \in {"Decode", "StreamReset", "Transport"}
    /\ pc = "interpret" =>
          /\ error # "Accounting"
          /\ error = None => ledger[latest].outcome = "Complete" /\ ~ parse_error
          /\ error \notin {None, "Decode"} => ledger[latest].outcome \in Failures
    /\ pc # "returned" => ~ refused /\ result = None

\* The usage of the owned receipt, of the endpoint and of the consumer.
Usages ==
    /\ pc \in Between \cup {"post", "waiting", "settle_send"} \/ OfBody => delivered = 0
    /\ pc \in {"post", "waiting", "stream", "settle_stream"} =>
          reported = ledger[held].usage
    /\ pc = "observe" /\ chunk.kind # "body" =>
          reported = IF chunk.usage = None THEN ledger[held].usage ELSE chunk.usage
    /\ DeliveredIsDurable /\ CompleteHasAllUsage

\* The inductive invariant of a model call.
IInv == TypeOK /\ Position /\ Phases /\ Ending /\ Usages /\ ReturnIsAccounted

-----------------------------------------------------------------------------
(* The writes to the ledger                                                *)

\* A receipt that is replaced leaves the others where they are.
LEMMA ReplaceFacts ==
    ASSUME NEW S, NEW s \in Seq(S), NEW k \in 1 .. Len(s), NEW r \in S
    PROVE  LET t == [s EXCEPT ![k] = r]
           IN /\ t \in Seq(S) /\ Len(t) = Len(s) /\ DOMAIN t = 1 .. Len(s)
              /\ t[k] = r
              /\ \A n \in 1 .. Len(s) : n # k => t[n] = s[n]
OBVIOUS

\* A new receipt leaves the others where they are.
LEMMA AppendFacts ==
    ASSUME NEW S, NEW s \in Seq(S), NEW r \in S
    PROVE  LET t == Append(s, r)
           IN /\ t \in Seq(S) /\ Len(t) = Len(s) + 1 /\ DOMAIN t = 1 .. Len(s) + 1
              /\ t[Len(s) + 1] = r
              /\ \A n \in 1 .. Len(s) : t[n] = s[n]
OBVIOUS

\* A receipt whose request goes out.
LEMMA SentRow ==
    ASSUME NEW row \in Row
    PROVE  LET r == [row EXCEPT !.sent = TRUE]
           IN /\ r \in Row
              /\ r.ordinal = row.ordinal /\ r.sent = TRUE
              /\ r.observations = row.observations /\ r.usage = row.usage
              /\ r.conflicts = row.conflicts /\ r.outcome = row.outcome
              /\ r.interpretation = row.interpretation
BY DEF Row

Observed(row, u, c) == [row EXCEPT !.observations = row.observations + 1,
                                   !.conflicts = row.conflicts \cup c, !.usage = u]

\* A receipt that gets new evidence.
LEMMA ObservedRow ==
    ASSUME NEW row \in Row, NEW u \in Usage, NEW c \in SUBSET {"usage"}
    PROVE  LET r == Observed(row, u, c)
           IN /\ r \in Row
              /\ r.ordinal = row.ordinal /\ r.sent = row.sent
              /\ r.observations = row.observations + 1 /\ r.usage = u
              /\ r.conflicts = row.conflicts \cup c /\ r.outcome = row.outcome
              /\ r.interpretation = row.interpretation
<1> DEFINE r == Observed(row, u, c)
<1> DEFINE d == row.conflicts \cup c
           n == row.observations + 1
<1>1. n \in Nat /\ u \in {0} \cup Usage
  BY DEF Row
<1>2. d \in SUBSET {"observation_sequence", "usage"}
  <2>1. row.conflicts \in SUBSET {"observation_sequence", "usage"}
    BY DEF Row
  <2> QED BY <2>1
<1>3. r = [row EXCEPT !.observations = n, !.conflicts = d, !.usage = u]
  BY DEF Observed
<1> HIDE DEF d, n, r
<1>4. /\ r \in Row /\ r.ordinal = row.ordinal /\ r.sent = row.sent
      /\ r.observations = n /\ r.usage = u /\ r.conflicts = d
      /\ r.outcome = row.outcome /\ r.interpretation = row.interpretation
  BY <1>1, <1>2, <1>3 DEF Row
<1> QED BY <1>4 DEF d, n, r

\* A receipt that is settled.
LEMMA SettledRow ==
    ASSUME NEW row \in Row, NEW o \in Outcomes
    PROVE  LET r == [row EXCEPT !.outcome = o]
           IN /\ r \in Row
              /\ r.ordinal = row.ordinal /\ r.sent = row.sent
              /\ r.observations = row.observations /\ r.usage = row.usage
              /\ r.conflicts = row.conflicts /\ r.outcome = o
              /\ r.interpretation = row.interpretation
BY DEF Row

\* A receipt that is interpreted.
LEMMA InterpretedRow ==
    ASSUME NEW row \in Row, NEW i \in Interpretations
    PROVE  LET r == [row EXCEPT !.interpretation = i]
           IN /\ r \in Row
              /\ r.ordinal = row.ordinal /\ r.sent = row.sent
              /\ r.observations = row.observations /\ r.usage = row.usage
              /\ r.conflicts = row.conflicts /\ r.outcome = row.outcome
              /\ r.interpretation = i
BY DEF Row

\* An intent is an open receipt.
LEMMA ReceiptFacts ==
    ASSUME NEW n \in Nat
    PROVE  Receipt(n) \in Row
BY DEF Receipt, Row

-----------------------------------------------------------------------------
(* What the invariant says of the owned receipt                            *)

\* While an attempt is owned its receipt is the newest one and open.
LEMMA OwnedFacts ==
    ASSUME IInv, pc \in Active
    PROVE  /\ held \in 1 .. Len(ledger) /\ held = Len(ledger) /\ latest = held
           /\ ledger \in Seq(Row) /\ Owned \in Row /\ Owned = ledger[held]
           /\ Owned.ordinal = held - 1
           /\ Owned.outcome = None /\ Owned.interpretation = None
           /\ None # "Complete" /\ None \notin Failures
           /\ next_sequence = Owned.observations /\ last_metadata = Owned.usage
           /\ "observation_sequence" \notin Owned.conflicts
<1>1. /\ held = Len(ledger) /\ held # 0 /\ ledger \in Seq(Row)
      /\ held \in {0, latest} /\ \A n \in DOMAIN ledger : ledger[n].ordinal = n - 1
  BY DEF IInv, Position, TypeOK
<1>2. held \in 1 .. Len(ledger) /\ latest = held /\ Owned \in Row
  BY <1>1 DEF Owned
<1>3. Phase(held)
  BY <1>2 DEF IInv, Phases
<1> QED BY <1>1, <1>2, <1>3, NoneAssumption DEF Phase, Owned, Outcomes, Failures

-----------------------------------------------------------------------------
(* The steps that leave the ledger alone                                   *)

\* A response keeps the invariant.
LEMMA ResponseStep ==
    ASSUME IInv, Response
    PROVE  IInv'
<1> USE DEF Response
<1>1. TypeOK'
  BY DEF IInv, TypeOK, attempt, stream, Errors, Outcomes
<1>2. Position'
  BY DEF IInv, Position, TypeOK, attempt, Active, Between
<1>3. Phases'
  BY DEF IInv, Phases, Phase, TypeOK, attempt, Active, Between
<1>4. Ending'
  BY DEF IInv, Ending, TypeOK, attempt, stream, OfBody, Failures
<1>5. Usages'
  BY DEF IInv, Usages, DeliveredIsDurable, CompleteHasAllUsage,
         TypeOK, attempt, stream, OfBody, Between
<1>6. ReturnIsAccounted'
  BY DEF ReturnIsAccounted
<1> QED BY <1>1, <1>2, <1>3, <1>4, <1>5, <1>6 DEF IInv

\* Starting an attempt keeps the invariant.
LEMMA StartStep ==
    ASSUME IInv, Start
    PROVE  IInv'
<1> USE DEF Start
<1>1. TypeOK'
  BY CallAssumption DEF IInv, TypeOK, attempt, stream, Errors, Outcomes, Ending, Chunk
<1>2. Position'
  BY DEF IInv, Position, TypeOK, attempt, Active, Between
<1>3. Phases'
  BY DEF IInv, Phases, Phase, TypeOK, attempt, Active, Between
<1>4. Ending'
  BY DEF IInv, Ending, TypeOK, attempt, stream, OfBody, Failures, Chunk
<1>5. Usages'
  BY NoneAssumption, CallAssumption DEF IInv, Usages, DeliveredIsDurable, CompleteHasAllUsage,
                                        TypeOK, attempt, stream, OfBody, Between
<1>6. ReturnIsAccounted'
  BY DEF ReturnIsAccounted
<1> QED BY <1>1, <1>2, <1>3, <1>4, <1>5, <1>6 DEF IInv

\* An error body keeps the invariant.
LEMMA BodyStep ==
    ASSUME IInv, Body
    PROVE  IInv'
<1> USE DEF Body
<1>1. TypeOK'
  BY CallAssumption DEF IInv, TypeOK, attempt, stream, Errors, Outcomes, Ending, Chunk
<1>2. Position'
  BY DEF IInv, Position, TypeOK, attempt, Active, Between
<1>3. Phases'
  BY DEF IInv, Phases, Phase, TypeOK, attempt, Active, Between
<1>4. Ending'
  BY DEF IInv, Ending, TypeOK, attempt, stream, OfBody, Failures, Chunk
<1>5. Usages'
  <2>1. /\ latest = held /\ ledger[held].outcome = None /\ None # "Complete"
        /\ UNCHANGED <<ledger, held, latest, delivered>>
    BY OwnedFacts DEF Active, Owned, attempt
  <2>2. DeliveredIsDurable'
    BY <2>1 DEF IInv, Usages, DeliveredIsDurable
  <2>3. CompleteHasAllUsage'
    BY <2>1 DEF CompleteHasAllUsage
  <2>4. pc' = "observe" /\ chunk'.kind = "body" /\ delivered' = 0
    BY DEF IInv, Usages, OfBody
  <2> QED BY <2>2, <2>3, <2>4 DEF Usages
<1>6. ReturnIsAccounted'
  BY DEF ReturnIsAccounted
<1> QED BY <1>1, <1>2, <1>3, <1>4, <1>5, <1>6 DEF IInv

\* Losing an error body keeps the invariant.
LEMMA BodyLostStep ==
    ASSUME IInv, BodyLost
    PROVE  IInv'
<1> USE DEF BodyLost
<1>1. TypeOK'
  BY CallAssumption DEF IInv, TypeOK, attempt, stream, Errors, Outcomes, Ending, Chunk
<1>2. Position'
  BY DEF IInv, Position, TypeOK, attempt, Active, Between
<1>3. Phases'
  BY DEF IInv, Phases, Phase, TypeOK, attempt, Active, Between
<1>4. Ending'
  BY DEF IInv, Ending, TypeOK, attempt, stream, OfBody, Failures, Chunk
<1>5. Usages'
  BY NoneAssumption, CallAssumption DEF IInv, Usages, DeliveredIsDurable, CompleteHasAllUsage,
                                        TypeOK, attempt, stream, OfBody, Between
<1>6. ReturnIsAccounted'
  BY DEF ReturnIsAccounted
<1> QED BY <1>1, <1>2, <1>3, <1>4, <1>5, <1>6 DEF IInv

\* An event of the stream keeps the invariant.
LEMMA DataStep ==
    ASSUME IInv, Data
    PROVE  IInv'
<1> USE DEF Data
<1>1. TypeOK'
  BY CallAssumption DEF IInv, TypeOK, attempt, stream, Errors, Outcomes, Ending, Chunk
<1>2. Position'
  BY DEF IInv, Position, TypeOK, attempt, Active, Between
<1>3. Phases'
  BY DEF IInv, Phases, Phase, TypeOK, attempt, Active, Between
<1>4. Ending'
  BY DEF IInv, Ending, TypeOK, attempt, stream, OfBody, Failures, Chunk
<1>5. Usages'
  <2>1. /\ latest = held /\ ledger[held].outcome = None /\ None # "Complete"
        /\ UNCHANGED <<ledger, held, latest, delivered>>
    BY OwnedFacts DEF Active, Owned, attempt
  <2>2. DeliveredIsDurable'
    BY <2>1 DEF IInv, Usages, DeliveredIsDurable
  <2>3. CompleteHasAllUsage'
    BY <2>1 DEF CompleteHasAllUsage
  <2>4. reported = ledger[held].usage /\ pc' = "observe"
    BY DEF IInv, Usages
  <2>5. /\ chunk'.kind # "body"
        /\ reported' = IF chunk'.usage = None THEN reported ELSE chunk'.usage
    OBVIOUS
  <2> QED BY <2>1, <2>2, <2>3, <2>4, <2>5 DEF Usages, OfBody, Between
<1>6. ReturnIsAccounted'
  BY DEF ReturnIsAccounted
<1> QED BY <1>1, <1>2, <1>3, <1>4, <1>5, <1>6 DEF IInv

\* An observation that adds nothing keeps the invariant.
LEMMA NothingNewStep ==
    ASSUME IInv, NothingNew
    PROVE  IInv'
<1> USE DEF NothingNew, Proceed, Unchanged
<1>1. TypeOK'
  BY CallAssumption DEF IInv, TypeOK, attempt, stream, Errors, Outcomes, Ending, Chunk
<1>2. Position'
  BY DEF IInv, Position, TypeOK, attempt, Active, Between
<1>3. Phases'
  BY DEF IInv, Phases, Phase, TypeOK, attempt, Active, Between
<1>4. Ending'
  BY DEF IInv, Ending, TypeOK, attempt, stream, OfBody, Failures, Chunk
<1>5. Usages'
  <2>1. /\ latest = held /\ last_metadata = ledger[held].usage
        /\ ledger[held].outcome = None /\ None # "Complete"
        /\ chunk \in Chunk /\ ledger[held].usage \in Nat
    BY OwnedFacts, CallAssumption DEF Active, Owned, IInv, Ending, Row, Usage
  <2>2. DeliveredIsDurable'
    BY <2>1 DEF IInv, Usages, DeliveredIsDurable, attempt, stream
  <2>3. CompleteHasAllUsage'
    BY <2>1 DEF CompleteHasAllUsage, attempt, stream
  <2>4. pc' = "stream" => reported' = ledger'[held'].usage
    BY <2>1 DEF IInv, Usages, attempt, stream
  <2>5. pc' = "settle_send" => delivered' = 0
    BY <2>1 DEF IInv, Usages, OfBody, stream, Chunk
  <2> QED BY <2>2, <2>3, <2>4, <2>5 DEF Usages, OfBody, Between
<1>6. ReturnIsAccounted'
  BY DEF ReturnIsAccounted
<1> QED BY <1>1, <1>2, <1>3, <1>4, <1>5, <1>6 DEF IInv

\* The end of the stream keeps the invariant.
LEMMA DoneStep ==
    ASSUME IInv, Done
    PROVE  IInv'
<1> USE DEF Done
<1>1. TypeOK'
  BY CallAssumption DEF IInv, TypeOK, attempt, stream, Errors, Outcomes, Ending, Chunk
<1>2. Position'
  BY DEF IInv, Position, TypeOK, attempt, Active, Between
<1>3. Phases'
  BY DEF IInv, Phases, Phase, TypeOK, attempt, Active, Between
<1>4. Ending'
  BY DEF IInv, Ending, TypeOK, attempt, stream, OfBody, Failures, Chunk
<1>5. Usages'
  BY NoneAssumption, CallAssumption DEF IInv, Usages, DeliveredIsDurable, CompleteHasAllUsage,
                                        TypeOK, attempt, stream, OfBody, Between
<1>6. ReturnIsAccounted'
  BY DEF ReturnIsAccounted
<1> QED BY <1>1, <1>2, <1>3, <1>4, <1>5, <1>6 DEF IInv

\* A stream that breaks keeps the invariant.
LEMMA StreamBreaksStep ==
    ASSUME IInv, StreamBreaks
    PROVE  IInv'
<1> USE DEF StreamBreaks
<1>1. TypeOK'
  BY CallAssumption DEF IInv, TypeOK, attempt, stream, Errors, Outcomes, Ending, Chunk
<1>2. Position'
  BY DEF IInv, Position, TypeOK, attempt, Active, Between
<1>3. Phases'
  BY DEF IInv, Phases, Phase, TypeOK, attempt, Active, Between
<1>4. Ending'
  BY DEF IInv, Ending, TypeOK, attempt, stream, OfBody, Failures, Chunk
<1>5. Usages'
  BY NoneAssumption, CallAssumption DEF IInv, Usages, DeliveredIsDurable, CompleteHasAllUsage,
                                        TypeOK, attempt, stream, OfBody, Between
<1>6. ReturnIsAccounted'
  BY DEF ReturnIsAccounted
<1> QED BY <1>1, <1>2, <1>3, <1>4, <1>5, <1>6 DEF IInv

-----------------------------------------------------------------------------
(* The steps that write to the ledger                                      *)

\* What holds of the ledger wherever the call is.
Sound(l) ==
    /\ l \in Seq(Row) /\ Len(l) <= max_attempts /\ latest \in 0 .. Len(l)
    /\ \A n \in 1 .. Len(l) :
          /\ l[n].ordinal = n - 1
          /\ "observation_sequence" \notin l[n].conflicts
          /\ n # Len(l) => /\ l[n].sent /\ l[n].outcome \in Failures
                           /\ l[n].interpretation = None
    /\ delivered # 0 => \/ l[latest].usage >= delivered
                        \/ "usage" \in l[latest].conflicts
    /\ latest # 0 /\ l[latest].outcome = "Complete" => l[latest].usage = reported

\* The ledger as it stands.
LEMMA SoundNow == ASSUME IInv PROVE Sound(ledger)
<1>1. /\ ledger \in Seq(Row) /\ Len(ledger) <= max_attempts /\ latest \in 0 .. Len(ledger)
      /\ \A n \in 1 .. Len(ledger) : ledger[n].ordinal = n - 1
  BY DEF IInv, Position, TypeOK
<1>2. \A n \in 1 .. Len(ledger) :
        /\ "observation_sequence" \notin ledger[n].conflicts
        /\ n # Len(ledger) => /\ ledger[n].sent /\ ledger[n].outcome \in Failures
                              /\ ledger[n].interpretation = None
  BY DEF IInv, Phases, Phase
<1>3. DeliveredIsDurable /\ CompleteHasAllUsage
  BY DEF IInv, Usages
<1> QED BY <1>1, <1>2, <1>3 DEF Sound, DeliveredIsDurable, CompleteHasAllUsage

\* An intent is written.
LEMMA SoundBegin ==
    ASSUME IInv, pc = "limiter"
    PROVE  /\ Sound(Append(ledger, Receipt(ordinal)))
           /\ Len(Append(ledger, Receipt(ordinal))) = Len(ledger) + 1
           /\ Append(ledger, Receipt(ordinal))[Len(ledger) + 1] = Receipt(ordinal)
<1> DEFINE l == Append(ledger, Receipt(ordinal))
<1>1. /\ ledger \in Seq(Row) /\ latest = Len(ledger) /\ ordinal = Len(ledger)
      /\ ordinal \in 0 .. max_attempts - 1 /\ max_attempts \in Nat /\ delivered = 0
  BY CallAssumption DEF IInv, Position, TypeOK, Between, Usages
<1>2. Receipt(ordinal) \in Row
  BY <1>1, ReceiptFacts
<1>3. /\ l \in Seq(Row) /\ Len(l) = Len(ledger) + 1
      /\ l[Len(ledger) + 1] = Receipt(ordinal)
      /\ \A n \in 1 .. Len(ledger) : l[n] = ledger[n]
  BY <1>1, <1>2, AppendFacts
<1>4. \A n \in 1 .. Len(ledger) : ledger[n].sent /\ ledger[n].outcome \in Failures
                                 /\ ledger[n].interpretation = None
  BY DEF IInv, Phases, Phase, Between
<1>5. Sound(ledger)
  BY SoundNow
<1> HIDE DEF l
<1>6. Sound(l)
  BY <1>1, <1>3, <1>4, <1>5 DEF Sound, Receipt
<1> QED BY <1>3, <1>6 DEF l

\* The newest receipt is replaced.
LEMMA SoundWrite ==
    ASSUME IInv, latest = Len(ledger), latest # 0,
           NEW r \in Row, r.ordinal = latest - 1,
           "observation_sequence" \notin r.conflicts,
           delivered # 0 => r.usage >= delivered \/ "usage" \in r.conflicts,
           r.outcome = "Complete" => r.usage = reported
    PROVE  LET l == [ledger EXCEPT ![latest] = r]
           IN Sound(l) /\ Len(l) = Len(ledger) /\ l[latest] = r
<1> DEFINE l == [ledger EXCEPT ![latest] = r]
<1>1. Sound(ledger) /\ latest \in 1 .. Len(ledger)
  BY SoundNow DEF Sound
<1>2. /\ l \in Seq(Row) /\ Len(l) = Len(ledger) /\ l[latest] = r
      /\ \A n \in 1 .. Len(ledger) : n # latest => l[n] = ledger[n]
  BY <1>1, ReplaceFacts DEF Sound
<1> HIDE DEF l
<1>3. Sound(l)
  BY <1>1, <1>2 DEF Sound
<1> QED BY <1>2, <1>3 DEF l

\* The attempt is sent.
LEMMA SoundSent ==
    ASSUME IInv, pc \in Active
    PROVE  LET r == [Owned EXCEPT !.sent = TRUE]
               l == Update(r)
           IN Sound(l) /\ Len(l) = Len(ledger) /\ l[held] = r
<1> DEFINE r == [Owned EXCEPT !.sent = TRUE]
<1>1. /\ r \in Row /\ r.ordinal = Owned.ordinal /\ r.usage = Owned.usage
      /\ r.conflicts = Owned.conflicts /\ r.outcome = None
  BY OwnedFacts, SentRow
<1>2. Sound(ledger)
  BY SoundNow
<1> HIDE DEF r
<1>3. Sound(Update(r)) /\ Len(Update(r)) = Len(ledger) /\ Update(r)[held] = r
  BY <1>1, <1>2, OwnedFacts, SoundWrite DEF Sound, Update
<1> QED BY <1>3 DEF r

\* New evidence is recorded: it raises the receipt's usage, or is its conflict.
LEMMA SoundObservation ==
    ASSUME IInv, pc = "observe", ~ Unchanged
    PROVE  /\ chunk.usage \in Usage /\ Conflicts \in SUBSET {"usage"}
           /\ Sound(Observation) /\ Len(Observation) = Len(ledger)
           /\ Conflicts = {} =>
                 /\ chunk.usage >= Owned.usage
                 /\ Observation[held].usage = chunk.usage
           /\ Observation[held].observations = Owned.observations + 1
           /\ Observation[held].outcome = None
           /\ Observation[held].interpretation = None
           /\ Observation[held].sent
<1>1. /\ Owned \in Row /\ Owned.outcome = None /\ Owned.interpretation = None
      /\ next_sequence = Owned.observations /\ last_metadata = Owned.usage
      /\ "observation_sequence" \notin Owned.conflicts
      /\ latest = held /\ held # 0 /\ Owned.ordinal = held - 1 /\ held = Len(ledger)
      /\ held \in 1 .. Len(ledger) /\ Owned = ledger[held] /\ None # "Complete"
  BY OwnedFacts DEF Active
<1>2. chunk \in Chunk
  BY DEF IInv, Ending
<1>3. chunk.usage \in Usage
  BY <1>2 DEF Unchanged, Chunk
<1>4. /\ Conflicts \subseteq {"usage"}
      /\ Conflicts = {} => chunk.usage >= Owned.usage
      /\ chunk.usage >= Owned.usage \/ "usage" \in Conflicts
  BY <1>1, <1>3, CallAssumption DEF Conflicts, Usage, Row
<1> DEFINE r == Observed(Owned, chunk.usage, Conflicts)
<1>5. /\ r \in Row /\ r.ordinal = Owned.ordinal /\ r.sent = Owned.sent
      /\ r.observations = Owned.observations + 1 /\ r.usage = chunk.usage
      /\ r.conflicts = Owned.conflicts \cup Conflicts
      /\ r.outcome = None /\ r.interpretation = None
  <2>1. Conflicts \in SUBSET {"usage"}
    BY <1>4
  <2> QED BY <1>1, <1>3, <2>1, ObservedRow
<1>6. delivered # 0 => Owned.usage >= delivered \/ "usage" \in Owned.conflicts
  BY <1>1 DEF IInv, Usages, DeliveredIsDurable
<1>7. delivered \in Nat /\ Owned.usage \in Nat /\ chunk.usage \in Nat
  BY <1>1, <1>3, CallAssumption DEF IInv, TypeOK, Usage, Row
<1>8. Owned.sent
  BY <1>1 DEF IInv, Phases, Phase, Active
<1>9. Observation = [ledger EXCEPT ![latest] = r]
  BY <1>1, <1>4 DEF Observation, Update, Observed
<1> HIDE DEF r
<1>10. "observation_sequence" \notin r.conflicts /\ r.outcome # "Complete"
       /\ (delivered # 0 => r.usage >= delivered \/ "usage" \in r.conflicts)
  BY <1>1, <1>4, <1>5, <1>6, <1>7
<1>11. /\ Sound(Observation) /\ Len(Observation) = Len(ledger)
       /\ Observation[held] = r
  BY <1>1, <1>5, <1>9, <1>10, SoundWrite
<1>12. Conflicts \in SUBSET {"usage"}
  BY <1>4
<1> QED BY <1>1, <1>3, <1>4, <1>5, <1>8, <1>11, <1>12

\* The outcome is recorded: a complete response has all its usage.
LEMMA SoundSettled ==
    ASSUME IInv, Settling
    PROVE  /\ Sound(Settled) /\ Len(Settled) = Len(ledger)
           /\ Settled[held].sent /\ Settled[held].outcome = outcome
           /\ Settled[held].interpretation = None
<1>1. /\ Owned \in Row /\ Owned.interpretation = None
      /\ "observation_sequence" \notin Owned.conflicts
      /\ latest = held /\ held # 0 /\ Owned.ordinal = held - 1 /\ held = Len(ledger)
      /\ held \in 1 .. Len(ledger) /\ Owned = ledger[held]
  BY OwnedFacts DEF Active, Settling
<1>2. outcome \in Outcomes /\ (outcome = "Complete" => pc = "settle_stream")
  BY DEF IInv, Ending, Settling, Outcomes, Failures
<1> DEFINE r == [Owned EXCEPT !.outcome = outcome]
<1>3. /\ r \in Row /\ r.ordinal = Owned.ordinal /\ r.sent = Owned.sent
      /\ r.usage = Owned.usage /\ r.conflicts = Owned.conflicts
      /\ r.outcome = outcome /\ r.interpretation = None
  BY <1>1, <1>2, SettledRow
<1>4. delivered # 0 => Owned.usage >= delivered \/ "usage" \in Owned.conflicts
  BY <1>1 DEF IInv, Usages, DeliveredIsDurable
<1>5. outcome = "Complete" => Owned.usage = reported
  BY <1>1, <1>2 DEF IInv, Usages
<1>6. Owned.sent
  BY <1>1 DEF IInv, Phases, Phase, Active, Settling
<1>7. Settled = [ledger EXCEPT ![latest] = r]
  BY <1>1 DEF Settled, Update
<1> HIDE DEF r
<1>8. Sound(Settled) /\ Len(Settled) = Len(ledger) /\ Settled[held] = r
  BY <1>1, <1>3, <1>4, <1>5, <1>7, SoundWrite
<1> QED BY <1>3, <1>6, <1>8

\* The verdict is recorded.
LEMMA SoundInterpreted ==
    ASSUME IInv, pc = "interpret", NEW i \in Interpretation
    PROVE  /\ latest = Len(ledger) /\ latest # 0 /\ i \in Interpretations
           /\ Sound(Interpreted(i)) /\ Len(Interpreted(i)) = Len(ledger)
           /\ Interpreted(i)[latest].sent
           /\ Interpreted(i)[latest].outcome = ledger[latest].outcome
           /\ Interpreted(i)[latest].outcome # None
           /\ Interpreted(i)[latest].interpretation = i
<1>1. Sound(ledger)
  BY SoundNow
<1>2. latest = Len(ledger) /\ latest # 0 /\ latest \in 1 .. Len(ledger)
  BY <1>1 DEF IInv, Position, Sound
<1>3. ledger[latest] \in Row /\ ledger[latest].sent /\ ledger[latest].outcome # None
  BY <1>1, <1>2 DEF IInv, Phases, Phase, Sound
<1>4. i \in Interpretations
  BY DEF Interpretation, Interpretations
<1> DEFINE r == [ledger[latest] EXCEPT !.interpretation = i]
<1>5. /\ r \in Row /\ r.ordinal = ledger[latest].ordinal /\ r.sent = ledger[latest].sent
      /\ r.usage = ledger[latest].usage /\ r.conflicts = ledger[latest].conflicts
      /\ r.outcome = ledger[latest].outcome /\ r.interpretation = i
  BY <1>3, <1>4, InterpretedRow
<1>6. Interpreted(i) = [ledger EXCEPT ![latest] = r]
  BY DEF Interpreted
<1> HIDE DEF r
<1>7. /\ Sound(Interpreted(i)) /\ Len(Interpreted(i)) = Len(ledger)
      /\ Interpreted(i)[latest] = r
  BY <1>1, <1>2, <1>5, <1>6, SoundWrite DEF Sound
<1> QED BY <1>2, <1>3, <1>4, <1>5, <1>7

\* Whatever a write that is not acknowledged leaves behind is sound.
LEMMA SoundInFlight ==
    ASSUME IInv, NEW l \in InFlight
    PROVE  Sound(l)
<1>1. l = ledger => Sound(l)
  BY SoundNow
<1>2. CASE pc = "limiter"
  BY <1>1, <1>2, SoundBegin DEF InFlight
<1>3. CASE pc = "observe"
  BY <1>1, <1>3, SoundObservation DEF InFlight
<1>4. CASE pc \in {"settle_send", "settle_stream"}
  BY <1>1, <1>4, SoundSettled DEF InFlight, Settling
<1>5. CASE pc = "interpret"
  BY <1>1, <1>5, SoundInterpreted DEF InFlight
<1>6. CASE pc \notin {"limiter", "observe", "settle_send", "settle_stream", "interpret"}
  BY <1>1, <1>6 DEF InFlight
<1> QED BY <1>2, <1>3, <1>4, <1>5, <1>6

\* A sound ledger is well typed.
LEMMA SoundTyped ==
    ASSUME NEW l, Sound(l)
    PROVE  \A n \in DOMAIN l : l[n] \in
               [ordinal : {n - 1}, sent : BOOLEAN, observations : Nat, usage : {0} \cup Usage,
                conflicts : SUBSET {"observation_sequence", "usage"},
                outcome : Outcomes \cup {None}, interpretation : Interpretations \cup {None}]
<1> TAKE n \in DOMAIN l
<1>1. l[n] \in Row /\ l[n].ordinal = n - 1
  BY DEF Sound
<1> DEFINE row == l[n]
<1> HIDE DEF row
<1>2. row \in Row /\ row.ordinal = n - 1
  BY <1>1 DEF row
<1>3. row \in [ordinal : {n - 1}, sent : BOOLEAN, observations : Nat,
               usage : {0} \cup Usage,
               conflicts : SUBSET {"observation_sequence", "usage"},
               outcome : Outcomes \cup {None}, interpretation : Interpretations \cup {None}]
  BY <1>2 DEF Row
<1> QED BY <1>3 DEF row

\* A call that ends with an accounting failure, or is dropped, keeps the invariant
\* on whatever sound ledger it leaves.
LEMMA Abandoned ==
    ASSUME IInv, Sound(ledger'), pc' \in {"returned", "dropped"},
           UNCHANGED <<ordinal, latest, last_metadata, next_sequence, parse_error,
                       chunks, reported, delivered>>,
           held' \in {0, held}, chunk' \in {None, chunk}, outcome' \in {None, outcome},
           error' \in Errors \cup {None}, refused' \in BOOLEAN,
           pc' = "returned" => result' = "Accounting",
           pc' = "dropped" => pc # "returned" /\ UNCHANGED <<refused, result>>
    PROVE  IInv'
<1>1. TypeOK'
  <2>1. \A n \in DOMAIN ledger' : ledger'[n] \in
           [ordinal : {n - 1}, sent : BOOLEAN, observations : Nat, usage : {0} \cup Usage,
            conflicts : SUBSET {"observation_sequence", "usage"},
            outcome : Outcomes \cup {None}, interpretation : Interpretations \cup {None}]
    BY SoundTyped
  <2>2. Len(ledger') <= max_attempts /\ latest' \in 0 .. Len(ledger')
    BY DEF Sound
  <2>3. held' \in {0, latest'}
    BY DEF IInv, TypeOK
  <2>4. result' \in Interpretations \cup {"Accounting", None}
    BY DEF IInv, TypeOK
  <2> QED BY <2>1, <2>2, <2>3, <2>4 DEF IInv, TypeOK
<1>2. Position' /\ Phases'
  BY DEF Position, Phases, Phase, Sound, Active, Between
<1>3. Ending'
  BY DEF IInv, Ending, OfBody
<1>4. Usages'
  BY DEF Usages, DeliveredIsDurable, CompleteHasAllUsage, Sound, OfBody, Between
<1>5. ReturnIsAccounted'
  BY DEF ReturnIsAccounted
<1> QED BY <1>1, <1>2, <1>3, <1>4, <1>5 DEF IInv

\* A failure of accounting is not retried: the call returns at once.
LEMMA AccountingReturns ==
    ASSUME SendFails("Accounting") \/ (Return("Accounting") /\ UNCHANGED ordinal)
    PROVE  /\ pc' = "returned" /\ result' = "Accounting"
           /\ error' = "Accounting" /\ ordinal' = ordinal
BY DEF SendFails, Return, is_retryable

\* An intent that cannot be written keeps the invariant.
LEMMA BeginFailsStep == ASSUME IInv, BeginFails PROVE IInv'
<1>1. Sound(ledger')
  BY SoundInFlight DEF BeginFails
<1> QED BY <1>1, AccountingReturns, Abandoned DEF BeginFails, Errors, attempt, stream

\* An observation that cannot be written keeps the invariant.
LEMMA ObserveFailsStep == ASSUME IInv, ObserveFails PROVE IInv'
<1>1. Observation \in InFlight
  BY DEF ObserveFails, InFlight
<1>2. Sound(ledger')
  BY <1>1, SoundInFlight DEF ObserveFails
<1> QED BY <1>2, AccountingReturns, Abandoned DEF ObserveFails, Errors, Release

\* A settlement that cannot be written keeps the invariant.
LEMMA SettleFailsStep == ASSUME IInv, SettleFails PROVE IInv'
<1>1. Sound(ledger')
  BY SoundInFlight DEF SettleFails
<1>2. SendFails("Accounting") \/ (Return("Accounting") /\ UNCHANGED ordinal)
  BY DEF SettleFails, Ends
<1> QED BY <1>1, <1>2, AccountingReturns, Abandoned
        DEF SettleFails, Ends, Errors, Release, stream

\* An interpretation that cannot be written keeps the invariant.
LEMMA InterpretFailsStep == ASSUME IInv, InterpretFails PROVE IInv'
<1>1. Sound(ledger')
  BY SoundInFlight DEF InterpretFails
<1> QED BY <1>1, Abandoned DEF InterpretFails, IInv, TypeOK, attempt, stream

\* Dropping the call keeps the invariant.
LEMMA DropStep == ASSUME IInv, Drop PROVE IInv'
<1>1. Sound(ledger')
  BY SoundInFlight DEF Drop
<1> QED BY <1>1, Abandoned DEF Drop, Release, IInv, TypeOK, stream

\* Writing the intent keeps the invariant.
LEMMA BeginStep == ASSUME IInv, Begin PROVE IInv'
<1>1. Sound(ledger) /\ Sound(ledger')
  BY SoundNow, SoundBegin DEF Begin
<1>2. /\ Len(ledger') = Len(ledger) + 1 /\ held' = Len(ledger') /\ latest' = Len(ledger')
      /\ ledger'[held'] = Receipt(ordinal) /\ Len(ledger) = ordinal /\ ordinal' = ordinal
      /\ Len(ledger) \in Nat
  BY SoundBegin, CallAssumption DEF Begin, IInv, Position, Between, TypeOK
<1>3. TypeOK'
  <2>1. \A n \in DOMAIN ledger' : ledger'[n] \in
           [ordinal : {n - 1}, sent : BOOLEAN, observations : Nat, usage : {0} \cup Usage,
            conflicts : SUBSET {"observation_sequence", "usage"},
            outcome : Outcomes \cup {None}, interpretation : Interpretations \cup {None}]
    BY <1>1, SoundTyped
  <2> QED BY <1>1, <1>2, <2>1 DEF Begin, Sound, IInv, TypeOK, stream
<1>4. Position'
  BY <1>1, <1>2 DEF Begin, Position, Sound, Active, Between
<1>5. Phases'
  BY <1>1, <1>2 DEF Begin, Phases, Phase, Sound, Receipt, Active, Between
<1>6. Ending'
  BY DEF Begin, IInv, Ending, OfBody
<1>7. Usages'
  BY <1>1, <1>2, NoneAssumption DEF Begin, IInv, Usages, DeliveredIsDurable, CompleteHasAllUsage,
     Receipt, OfBody, Between, stream, Outcomes
<1>8. ReturnIsAccounted'
  BY DEF Begin, ReturnIsAccounted
<1> QED BY <1>3, <1>4, <1>5, <1>6, <1>7, <1>8 DEF IInv

\* Sending the request keeps the invariant.
LEMMA PostStep == ASSUME IInv, Post PROVE IInv'
<1> DEFINE r == [Owned EXCEPT !.sent = TRUE]
<1>1. /\ Sound(ledger) /\ Sound(ledger') /\ Len(ledger') = Len(ledger) /\ ledger'[held] = r
      /\ held \in 1 .. Len(ledger) /\ held = Len(ledger) /\ latest = held
  BY SoundNow, SoundSent, OwnedFacts DEF Post, Active
<1>2. /\ r.sent /\ r.observations = Owned.observations /\ r.usage = Owned.usage
      /\ r.outcome = None /\ r.interpretation = None /\ Owned = ledger[held]
      /\ next_sequence = Owned.observations /\ last_metadata = Owned.usage
  BY OwnedFacts, SentRow DEF Post, Active
<1> HIDE DEF r
<1>3. TypeOK'
  <2>1. \A n \in DOMAIN ledger' : ledger'[n] \in
           [ordinal : {n - 1}, sent : BOOLEAN, observations : Nat, usage : {0} \cup Usage,
            conflicts : SUBSET {"observation_sequence", "usage"},
            outcome : Outcomes \cup {None}, interpretation : Interpretations \cup {None}]
    BY <1>1, SoundTyped
  <2>2. Len(ledger') <= max_attempts /\ latest' \in 0 .. Len(ledger')
    BY <1>1 DEF Sound, Post
  <2>3. /\ pc' = "waiting"
        /\ UNCHANGED <<ordinal, latest, error, outcome, refused, reported, result, held,
                       last_metadata, next_sequence, chunk, parse_error, chunks, delivered>>
    BY DEF Post, attempt, stream
  <2> QED BY <2>1, <2>2, <2>3 DEF IInv, TypeOK
<1>4. Position'
  BY <1>1 DEF Post, IInv, Position, Sound, Active, Between, attempt
<1>5. Phases'
  <2>1. pc' = "waiting" /\ UNCHANGED <<next_sequence, last_metadata>>
    BY DEF Post, attempt
  <2> QED BY <1>1, <1>2, <2>1 DEF Phases, Phase, Sound, Active, Between
<1>6. Ending'
  BY DEF Post, IInv, Ending, OfBody
<1>7. Usages'
  BY <1>1, <1>2 DEF Post, IInv, Usages, DeliveredIsDurable, CompleteHasAllUsage, Sound,
     OfBody, Between, stream, attempt
<1>8. ReturnIsAccounted'
  BY DEF Post, ReturnIsAccounted
<1> QED BY <1>3, <1>4, <1>5, <1>6, <1>7, <1>8 DEF IInv

\* Writing an observation keeps the invariant.
LEMMA ObserveStep == ASSUME IInv, Observe PROVE IInv'
<1>1. /\ Sound(ledger) /\ Sound(ledger') /\ Len(ledger') = Len(ledger)
      /\ held \in 1 .. Len(ledger) /\ held = Len(ledger) /\ latest = held
      /\ chunk \in Chunk /\ chunk.usage \in Usage
  BY SoundNow, SoundObservation, OwnedFacts DEF Observe, Active, IInv, Ending
<1>2. /\ ledger'[held].sent /\ ledger'[held].observations = Owned.observations + 1
      /\ ledger'[held].usage = chunk.usage
      /\ ledger'[held].outcome = None /\ ledger'[held].interpretation = None
      /\ next_sequence = Owned.observations /\ None # "Complete"
  BY OwnedFacts, SoundObservation DEF Observe, Active
<1>3. /\ pc' \in {"settle_send", "stream"} 
      /\ (pc' = "settle_send") <=> (chunk.kind = "body")
      /\ UNCHANGED <<ordinal, latest, error, outcome, refused, reported, result, chunks, held>>
      /\ next_sequence' = next_sequence + 1 /\ last_metadata' = chunk.usage
  BY DEF Observe, Proceed
<1>4. TypeOK'
  <2>1. \A n \in DOMAIN ledger' : ledger'[n] \in
           [ordinal : {n - 1}, sent : BOOLEAN, observations : Nat, usage : {0} \cup Usage,
            conflicts : SUBSET {"observation_sequence", "usage"},
            outcome : Outcomes \cup {None}, interpretation : Interpretations \cup {None}]
    BY <1>1, SoundTyped
  <2> QED BY <1>1, <1>3, <2>1 DEF Observe, Proceed, Sound, IInv, TypeOK
<1>5. Position'
  BY <1>1, <1>3 DEF Observe, IInv, Position, Sound, Active, Between
<1>6. Phases'
  BY <1>1, <1>2, <1>3 DEF Phases, Phase, Sound, Active, Between
<1>7. Ending'
  BY <1>3 DEF Observe, IInv, Ending, OfBody, Failures
<1>8. Usages'
  <2>1. chunk.usage \in Nat /\ chunk.usage # None /\ delivered' \in {chunk.usage, delivered}
    BY <1>1, CallAssumption DEF Observe, Proceed, Usage
  <2>2. DeliveredIsDurable'
    BY <1>1, <1>2, <1>3, <2>1 DEF DeliveredIsDurable, Sound
  <2>3. CompleteHasAllUsage'
    BY <1>1, <1>2, <1>3 DEF CompleteHasAllUsage
  <2>4. pc' = "stream" => reported' = ledger'[held'].usage
    BY <1>1, <1>2, <1>3, <2>1 DEF Observe, IInv, Usages
  <2>5. pc' = "settle_send" => delivered' = 0
    BY <1>3 DEF Observe, Proceed, IInv, Usages, OfBody
  <2> QED BY <1>3, <2>2, <2>3, <2>4, <2>5 DEF Usages, OfBody, Between
<1>9. ReturnIsAccounted'
  BY <1>3 DEF ReturnIsAccounted
<1> QED BY <1>4, <1>5, <1>6, <1>7, <1>8, <1>9 DEF IInv

\* An attempt that is settled is either retried or interpreted.
LEMMA SettleGoes ==
    ASSUME IInv, Settle
    PROVE  /\ error # "Accounting"
           /\ \/ /\ pc' = "interpret" /\ error' = error /\ UNCHANGED <<ordinal, result>>
              \/ /\ pc = "settle_send" /\ pc' = "limiter" /\ UNCHANGED result
                 /\ ordinal' = ordinal + 1 /\ ordinal + 1 < max_attempts /\ error' = None
           /\ held' = 0 /\ outcome' = None
           /\ UNCHANGED <<latest, reported, delivered, refused, parse_error, chunk, chunks,
                          last_metadata, next_sequence>>
<1>1. error # "Accounting"
  BY NoneAssumption DEF Settle, Settling, IInv, Ending, Errors
<1>2. pc = "settle_send" => SendFails(error)
  BY DEF Settle, Ends
<1>3. pc # "settle_send" => Return(error) /\ UNCHANGED ordinal
  BY DEF Settle, Ends
<1>4. CASE pc = "settle_send"
  BY <1>1, <1>2, <1>4 DEF Settle, Ends, Release, stream, SendFails, Return
<1>5. CASE pc # "settle_send"
  BY <1>1, <1>3, <1>5 DEF Settle, Ends, Release, stream, Return
<1> QED BY <1>4, <1>5

\* Settling the receipt keeps the invariant.
LEMMA SettleStep == ASSUME IInv, Settle PROVE IInv'
<1>1. /\ Sound(ledger) /\ Sound(ledger') /\ Len(ledger') = Len(ledger)
      /\ held \in 1 .. Len(ledger) /\ held = Len(ledger) /\ latest = held
      /\ ledger'[latest].sent /\ ledger'[latest].outcome = outcome
      /\ ledger'[latest].interpretation = None /\ outcome \in Outcomes
      /\ ordinal + 1 = Len(ledger)
  BY SoundNow, SoundSettled, OwnedFacts
     DEF Settle, Settling, Active, IInv, Ending, Position, Outcomes, Failures
<1>2. TypeOK'
  <2>1. \A n \in DOMAIN ledger' : ledger'[n] \in
           [ordinal : {n - 1}, sent : BOOLEAN, observations : Nat, usage : {0} \cup Usage,
            conflicts : SUBSET {"observation_sequence", "usage"},
            outcome : Outcomes \cup {None}, interpretation : Interpretations \cup {None}]
    BY <1>1, SoundTyped
  <2>2. ordinal' \in 0 .. max_attempts - 1
    BY SettleGoes, CallAssumption DEF IInv, TypeOK
  <2>3. pc' \in {"limiter", "interpret"} /\ error' \in Errors \cup {None}
    BY SettleGoes DEF IInv, TypeOK
  <2>4. Len(ledger') <= max_attempts /\ latest' \in 0 .. Len(ledger')
    BY <1>1, SettleGoes DEF Sound
  <2>5. result' = result
    BY SettleGoes
  <2> QED BY <2>1, <2>2, <2>3, <2>4, <2>5, SettleGoes DEF IInv, TypeOK
<1>3. Position'
  BY <1>1, SettleGoes DEF IInv, TypeOK, Position, Sound, Active, Between
<1>4. pc' = "limiter" => outcome \in Failures
  BY SettleGoes DEF IInv, Ending
<1>5. Phases'
  <2>1. pc' \in {"limiter", "interpret"} /\ UNCHANGED latest
    BY SettleGoes
  <2>2. outcome # None
    BY <1>1, NoneAssumption
  <2>3. \A n \in 1 .. Len(ledger') :
          /\ ledger'[n].sent /\ ledger'[n].outcome # None
          /\ ledger'[n].interpretation = None
          /\ "observation_sequence" \notin ledger'[n].conflicts
          /\ n # Len(ledger') \/ pc' = "limiter" => ledger'[n].outcome \in Failures
    BY <1>1, <1>4, <2>2, NoneAssumption DEF Sound, Failures, Outcomes
  <2> QED BY <2>1, <2>3 DEF Phases, Phase, Active, Between
<1>6. Ending'
  BY <1>1, SettleGoes, NoneAssumption
     DEF IInv, Ending, OfBody, Failures, Settle, Settling, Outcomes, Errors
<1>7. Usages'
  BY <1>1, SettleGoes
     DEF IInv, Usages, DeliveredIsDurable, CompleteHasAllUsage, Sound, OfBody, Between
<1>8. ReturnIsAccounted'
  BY SettleGoes DEF ReturnIsAccounted
<1> QED BY <1>2, <1>3, <1>5, <1>6, <1>7, <1>8 DEF IInv

\* Interpreting the receipt keeps the invariant.
LEMMA InterpretStep == ASSUME IInv, Interpret PROVE IInv'
<1>1. PICK i \in Interpretation : ledger' = Interpreted(i) /\ result' = i
  BY DEF Interpret
<1>2. /\ Sound(ledger) /\ Sound(ledger') /\ Len(ledger') = Len(ledger)
      /\ latest = Len(ledger) /\ latest # 0 /\ i \in Interpretations
      /\ ledger'[latest].sent /\ ledger'[latest].outcome = ledger[latest].outcome
      /\ ledger'[latest].outcome # None /\ ledger'[latest].interpretation = i
  BY <1>1, SoundNow, SoundInterpreted DEF Interpret
<1>3. TypeOK'
  <2>1. \A n \in DOMAIN ledger' : ledger'[n] \in
           [ordinal : {n - 1}, sent : BOOLEAN, observations : Nat, usage : {0} \cup Usage,
            conflicts : SUBSET {"observation_sequence", "usage"},
            outcome : Outcomes \cup {None}, interpretation : Interpretations \cup {None}]
    BY <1>2, SoundTyped
  <2> QED BY <1>1, <1>2, <2>1 DEF Interpret, Sound, IInv, TypeOK, stream, attempt
<1>4. Position' /\ Phases'
  BY <1>2 DEF Interpret, Position, Phases, Phase, Sound, Active, Between
<1>5. Ending'
  BY DEF Interpret, IInv, Ending, OfBody
<1>6. Usages'
  BY <1>2 DEF Interpret, Usages, DeliveredIsDurable, CompleteHasAllUsage, Sound, OfBody,
     Between, stream
<1>7. ReturnIsAccounted'
  <2>1. i = "Accepted" => ledger[latest].outcome = "Complete" /\ ~ parse_error
    BY DEF Interpretation, Interpret, IInv, Ending
  <2>2. \A n \in 1 .. Len(ledger') : ledger'[n].sent /\ ledger'[n].outcome # None
    BY <1>2, NoneAssumption DEF Sound, Failures, Outcomes
  <2>3. DOMAIN ledger' = 1 .. Len(ledger')
    BY <1>2 DEF Sound
  <2> QED BY <1>1, <1>2, <2>1, <2>2, <2>3 DEF ReturnIsAccounted, Interpret, stream
<1> QED BY <1>3, <1>4, <1>5, <1>6, <1>7 DEF IInv

-----------------------------------------------------------------------------
(* The invariant holds                                                     *)

\* A call begins in the invariant.
LEMMA InitInvariant == Init => IInv
<1> SUFFICES ASSUME Init PROVE IInv
  OBVIOUS
<1>1. TypeOK
  <2>1. ledger = <<>> /\ DOMAIN ledger = {} /\ Len(ledger) = 0
    BY DEF Init
  <2>2. 0 \in 0 .. max_attempts - 1 /\ 0 <= max_attempts /\ 0 \in 0 .. MaxChunks
    BY CallAssumption
  <2>3. \A n \in DOMAIN ledger : ledger[n] \in
           [ordinal : {n - 1}, sent : BOOLEAN, observations : Nat, usage : {0} \cup Usage,
            conflicts : SUBSET {"observation_sequence", "usage"},
            outcome : Outcomes \cup {None}, interpretation : Interpretations \cup {None}]
    BY <2>1
  <2>4. Len(ledger) <= max_attempts /\ held \in {0, latest} /\ latest \in 0 .. Len(ledger)
    BY <2>1, <2>2 DEF Init
  <2>5. {reported, delivered} \subseteq {0} \cup Usage
    BY DEF Init
  <2>6. chunk \in {None} /\ error \in Errors \cup {None} /\ outcome \in Outcomes \cup {None}
        /\ result \in Interpretations \cup {"Accounting", None}
    BY DEF Init
  <2> QED BY <2>2, <2>3, <2>4, <2>5, <2>6 DEF Init, TypeOK
<1>2. Position /\ Phases
  BY DEF Init, Position, Phases, Active, Between
<1>3. Ending /\ Usages
  BY DEF Init, Ending, Usages, OfBody, DeliveredIsDurable, CompleteHasAllUsage
<1>4. ReturnIsAccounted
  BY DEF Init, ReturnIsAccounted
<1> QED BY <1>1, <1>2, <1>3, <1>4 DEF IInv

\* A step that changes nothing keeps the invariant.
LEMMA StutterStep == ASSUME IInv, UNCHANGED vars PROVE IInv'
BY DEF vars, attempt, stream, IInv, TypeOK, Position, Phases, Phase, Ending, OfBody, Usages,
   DeliveredIsDurable, CompleteHasAllUsage, ReturnIsAccounted

\* Every step of a call keeps the invariant.
LEMMA NextInvariant == ASSUME IInv, [Next]_vars PROVE IInv'
<1>1. CASE Start BY <1>1, StartStep
<1>2. CASE Begin BY <1>2, BeginStep
<1>3. CASE BeginFails BY <1>3, BeginFailsStep
<1>4. CASE Post BY <1>4, PostStep
<1>5. CASE Response BY <1>5, ResponseStep
<1>6. CASE Body BY <1>6, BodyStep
<1>7. CASE BodyLost BY <1>7, BodyLostStep
<1>8. CASE Data BY <1>8, DataStep
<1>9. CASE NothingNew BY <1>9, NothingNewStep
<1>10. CASE Observe BY <1>10, ObserveStep
<1>11. CASE ObserveFails BY <1>11, ObserveFailsStep
<1>12. CASE Done BY <1>12, DoneStep
<1>13. CASE StreamBreaks BY <1>13, StreamBreaksStep
<1>14. CASE Settle BY <1>14, SettleStep
<1>15. CASE SettleFails BY <1>15, SettleFailsStep
<1>16. CASE Interpret BY <1>16, InterpretStep
<1>17. CASE InterpretFails BY <1>17, InterpretFailsStep
<1>18. CASE Drop BY <1>18, DropStep
<1>19. CASE UNCHANGED vars BY <1>19, StutterStep
<1> QED BY <1>1, <1>2, <1>3, <1>4, <1>5, <1>6, <1>7, <1>8, <1>9, <1>10, <1>11, <1>12,
           <1>13, <1>14, <1>15, <1>16, <1>17, <1>18, <1>19 DEF Next, Call

\* The invariant holds in every reachable state, for every retry policy, every usage
\* and every length of a stream.
THEOREM Invariance == Spec => []IInv
<1>1. Init => IInv
  BY InitInvariant
<1>2. IInv /\ [Next]_vars => IInv'
  BY NextInvariant
<1> QED BY <1>1, <1>2, PTL DEF Spec

\* A caller is never ahead of the ledger: see CallIsAccounted (observed_sse.rs,
\* observation.rs).
THEOREM Accounted == Spec => []CallIsAccounted
<1>1. IInv => CallIsAccounted
  <2> SUFFICES ASSUME IInv PROVE CallIsAccounted
    OBVIOUS
  <2>1. Sound(ledger)
    BY SoundNow
  <2>2. RetryFollowsSettled /\ SequencesAgree
    BY <2>1 DEF Sound, RetryFollowsSettled, SequencesAgree, Failures
  <2> QED BY <2>2 DEF IInv, Usages, CallIsAccounted, LedgerInOrder
<1> QED BY <1>1, Invariance, PTL

\* After a write that was refused or not acknowledged no physical request is made
\* (ProviderError::Accounting): the call has returned by then.
THEOREM NeverResent == Spec => NoResendAfterAccounting
<1>1. IInv /\ [Next]_vars =>
        [\A n \in DOMAIN ledger' :
            ledger'[n].sent /\ (n \in DOMAIN ledger => ~ ledger[n].sent) => ~ refused]_vars
  <2> SUFFICES ASSUME IInv, Next, refused PROVE FALSE
    OBVIOUS
  <2>1. pc = "returned"
    BY DEF IInv, Ending
  <2> QED BY <2>1 DEF Next, Call, Start, Begin, BeginFails, Post, Response, Body, BodyLost,
             Data, NothingNew, Observe, ObserveFails, Done, StreamBreaks, Settling,
             Settle, SettleFails, Interpret, InterpretFails, Drop
<1> QED BY <1>1, Invariance, PTL DEF Spec, NoResendAfterAccounting

-----------------------------------------------------------------------------
(* The call implements the contract of observed calls                      *)

\* What the contract sees of a receipt, and of a ledger.
Seen(row) == [outcome |-> row.outcome, interpretation |-> row.interpretation]
View(l) == [n \in DOMAIN l |-> [outcome |-> l[n].outcome,
                                interpretation |-> l[n].interpretation]]
SeenRow == [outcome : Outcomes \cup {None}, interpretation : Interpretations \cup {None}]

\* The contract sees every receipt, in order.
LEMMA ViewFacts ==
    ASSUME NEW l \in Seq(Row)
    PROVE  /\ View(l) \in Seq(SeenRow) /\ Len(View(l)) = Len(l)
           /\ DOMAIN View(l) = 1 .. Len(l)
           /\ \A n \in 1 .. Len(l) : View(l)[n] = Seen(l[n])
<1>1. DOMAIN l = 1 .. Len(l) /\ Len(l) \in Nat
  OBVIOUS
<1>2. \A n \in 1 .. Len(l) : Seen(l[n]) \in SeenRow
  <2> TAKE n \in 1 .. Len(l)
  <2>1. l[n] \in Row
    OBVIOUS
  <2>2. \A row \in Row : Seen(row) \in SeenRow
    BY DEF Seen, SeenRow, Row
  <2> QED BY <2>1, <2>2
<1>3. View(l) = [n \in 1 .. Len(l) |-> Seen(l[n])]
  BY <1>1 DEF View, Seen
<1> QED BY <1>1, <1>2, <1>3

\* A new receipt appears as an open one.
LEMMA ViewAppend ==
    ASSUME NEW l \in Seq(Row), NEW r \in Row
    PROVE  View(Append(l, r)) = Append(View(l), Seen(r))
<1> DEFINE a == View(Append(l, r))
           b == Append(View(l), Seen(r))
<1>1. /\ Append(l, r) \in Seq(Row) /\ Len(Append(l, r)) = Len(l) + 1
      /\ Append(l, r)[Len(l) + 1] = r /\ Len(l) \in Nat
      /\ \A n \in 1 .. Len(l) : Append(l, r)[n] = l[n]
  BY AppendFacts
<1>2. Seen(r) \in SeenRow
  BY DEF Seen, SeenRow, Row
<1>3. /\ a \in Seq(SeenRow) /\ Len(a) = Len(l) + 1
      /\ \A n \in 1 .. Len(l) + 1 : a[n] = Seen(Append(l, r)[n])
  BY <1>1, ViewFacts
<1>4. /\ b \in Seq(SeenRow) /\ Len(b) = Len(l) + 1
      /\ b[Len(l) + 1] = Seen(r) /\ \A n \in 1 .. Len(l) : b[n] = Seen(l[n])
  BY <1>1, <1>2, ViewFacts, AppendFacts
<1> HIDE DEF a, b
<1>5. \A n \in 1 .. Len(l) + 1 : a[n] = b[n]
  BY <1>1, <1>3, <1>4
<1>6. a = b
  BY <1>3, <1>4, <1>5
<1> QED BY <1>6 DEF a, b

\* A receipt that is replaced is seen as the new one.
LEMMA ViewReplace ==
    ASSUME NEW l \in Seq(Row), NEW k \in 1 .. Len(l), NEW r \in Row
    PROVE  View([l EXCEPT ![k] = r]) = [View(l) EXCEPT ![k] = Seen(r)]
<1> DEFINE t == [l EXCEPT ![k] = r]
           a == View(t)
           b == [View(l) EXCEPT ![k] = Seen(r)]
<1>1. /\ t \in Seq(Row) /\ Len(t) = Len(l) /\ t[k] = r /\ Len(l) \in Nat
      /\ \A n \in 1 .. Len(l) : n # k => t[n] = l[n]
  BY ReplaceFacts
<1>2. Seen(r) \in SeenRow
  BY DEF Seen, SeenRow, Row
<1> HIDE DEF t
<1>3. /\ a \in Seq(SeenRow) /\ Len(a) = Len(l)
      /\ \A n \in 1 .. Len(l) : a[n] = Seen(t[n])
  BY <1>1, ViewFacts
<1>4. View(l) \in Seq(SeenRow) /\ k \in 1 .. Len(View(l)) /\ Len(View(l)) = Len(l)
  BY ViewFacts
<1>5. /\ b \in Seq(SeenRow) /\ Len(b) = Len(l) /\ b[k] = Seen(r)
      /\ \A n \in 1 .. Len(l) : n # k => b[n] = View(l)[n]
  BY <1>2, <1>4, ReplaceFacts
<1>6. \A n \in 1 .. Len(l) : View(l)[n] = Seen(l[n])
  BY ViewFacts
<1> HIDE DEF a, b
<1>7. \A n \in 1 .. Len(l) : a[n] = b[n]
  BY <1>1, <1>3, <1>5, <1>6
<1>8. a = b
  BY <1>1, <1>3, <1>5, <1>7
<1> QED BY <1>8 DEF a, b, t

\* What the contract sees of the ledger before a step.
LEMMA SeenNow ==
    ASSUME IInv
    PROVE  /\ ledger \in Seq(Row) /\ View(ledger) \in Seq(SeenRow)
           /\ Len(View(ledger)) = Len(ledger) /\ DOMAIN View(ledger) = 1 .. Len(ledger)
           /\ \A n \in 1 .. Len(ledger) :
                 /\ View(ledger)[n].outcome = ledger[n].outcome
                 /\ View(ledger)[n].interpretation = ledger[n].interpretation
<1>1. ledger \in Seq(Row)
  BY DEF IInv, Position
<1>2. \A row \in Row : /\ Seen(row).outcome = row.outcome
                       /\ Seen(row).interpretation = row.interpretation
  BY DEF Seen
<1>3. \A n \in 1 .. Len(ledger) : ledger[n] \in Row
  BY <1>1
<1> QED BY <1>1, <1>2, <1>3, ViewFacts

\* Writing an intent begins a request.
LEMMA BeginsRequest ==
    ASSUME IInv, pc = "limiter", ledger' = Append(ledger, Receipt(ordinal))
    PROVE  Promise!Begin
<1>1. Receipt(ordinal) \in Row
  BY ReceiptFacts, CallAssumption DEF IInv, TypeOK
<1>2. View(ledger') = Append(View(ledger), Seen(Receipt(ordinal)))
  BY <1>1, SeenNow, ViewAppend
<1>3. Seen(Receipt(ordinal)) = Promise!Open
  BY DEF Seen, Receipt, Promise!Open
<1>4. \A n \in 1 .. Len(ledger) :
        ledger[n].outcome \in Failures /\ ledger[n].interpretation = None
  BY DEF IInv, Phases, Phase, Between
<1>5. \A n \in DOMAIN View(ledger) :
        /\ View(ledger)[n].outcome \in Promise!Failures
        /\ View(ledger)[n].interpretation = None
  BY <1>4, SeenNow DEF Failures, Promise!Failures
<1> QED BY <1>2, <1>3, <1>5 DEF Promise!Begin, View

\* Replacing the newest receipt is seen at its place.
LEMMA WriteIsSeen ==
    ASSUME IInv, latest = Len(ledger), latest # 0, NEW r \in Row,
           ledger' = [ledger EXCEPT ![latest] = r]
    PROVE  /\ View(ledger') = [View(ledger) EXCEPT ![Len(View(ledger))] = Seen(r)]
           /\ View(ledger) # <<>>
           /\ View(ledger)[Len(View(ledger))] = Seen(ledger[latest])
           /\ Seen(ledger[latest]) = Seen(r) => View(ledger') = View(ledger)
<1>1. latest \in 1 .. Len(ledger) /\ ledger \in Seq(Row)
  BY SeenNow
<1>2. View(ledger') = [View(ledger) EXCEPT ![latest] = Seen(r)]
  BY <1>1, ViewReplace
<1>3. Len(View(ledger)) = latest /\ View(ledger) \in Seq(SeenRow)
  BY SeenNow
<1>4. View(ledger)[latest] = Seen(ledger[latest])
  BY <1>1, ViewFacts
<1> QED BY <1>1, <1>2, <1>3, <1>4

\* Sending and observing are not seen.
LEMMA SentIsUnseen == ASSUME IInv, Post PROVE View(ledger') = View(ledger)
<1> DEFINE r == [Owned EXCEPT !.sent = TRUE]
<1>1. r \in Row /\ Seen(r) = Seen(Owned)
  BY OwnedFacts, SentRow DEF Post, Active, Seen
<1>2. ledger' = [ledger EXCEPT ![latest] = r]
  BY OwnedFacts DEF Post, Active, Update
<1>3. Owned = ledger[latest] /\ latest = Len(ledger) /\ latest # 0
  BY OwnedFacts DEF Post, Active
<1> HIDE DEF r
<1> QED BY <1>1, <1>2, <1>3, WriteIsSeen

\* Observing is not seen.
LEMMA ObservedIsUnseen ==
    ASSUME IInv, pc = "observe", ~ Unchanged, ledger' = Observation
    PROVE  View(ledger') = View(ledger)
<1> DEFINE r == Observed(Owned, chunk.usage, Conflicts)
<1>1. /\ chunk.usage \in Usage /\ Owned \in Row /\ Owned = ledger[latest]
      /\ latest = Len(ledger) /\ latest # 0 /\ held = latest
      /\ next_sequence = Owned.observations
  BY SoundObservation, OwnedFacts DEF Active
<1>2. Conflicts \in SUBSET {"usage"}
  BY SoundObservation
<1>3. r \in Row /\ r.outcome = Owned.outcome /\ r.interpretation = Owned.interpretation
  BY <1>1, <1>2, ObservedRow
<1>4. ledger' = [ledger EXCEPT ![latest] = r]
  BY <1>1, <1>2 DEF Observation, Update, Observed
<1> HIDE DEF r
<1>5. Seen(r) = Seen(Owned)
  BY <1>3 DEF Seen
<1> QED BY <1>1, <1>3, <1>4, <1>5, WriteIsSeen

\* Settling is settling, with the outcome that is being written.
LEMMA SettlesRequest ==
    ASSUME IInv, Settling, ledger' = Settled
    PROVE  Promise!Settle
<1> DEFINE r == [Owned EXCEPT !.outcome = outcome]
<1>1. /\ Owned \in Row /\ Owned = ledger[latest] /\ Owned.outcome = None
      /\ latest = Len(ledger) /\ latest # 0 /\ held = latest
  BY OwnedFacts DEF Active, Settling
<1>2. outcome \in Outcomes
  BY DEF IInv, Ending, Settling, Outcomes, Failures
<1>3. r \in Row /\ Seen(r) = [Seen(Owned) EXCEPT !.outcome = outcome]
  BY <1>1, <1>2, SettledRow DEF Seen
<1>4. ledger' = [ledger EXCEPT ![latest] = r]
  BY <1>1 DEF Settled, Update
<1> HIDE DEF r
<1>5. /\ View(ledger') = [View(ledger) EXCEPT ![Len(View(ledger))] = Seen(r)]
      /\ View(ledger) # <<>> /\ View(ledger)[Len(View(ledger))] = Seen(Owned)
  BY <1>1, <1>3, <1>4, WriteIsSeen
<1>6. Seen(Owned).outcome = None
  BY <1>1 DEF Seen
<1>7. outcome \in Promise!Failures \cup {"Complete"}
  BY <1>2 DEF Outcomes, Promise!Failures
<1> DEFINE v == View(ledger)
<1>8. v # <<>> /\ v[Len(v)].outcome = None
  BY <1>5, <1>6
<1>9. View(ledger') = [v EXCEPT ![Len(v)] = [v[Len(v)] EXCEPT !.outcome = outcome]]
  BY <1>3, <1>5
<1>10. \E o \in Promise!Failures \cup {"Complete"} :
          View(ledger') = [v EXCEPT ![Len(v)] = [v[Len(v)] EXCEPT !.outcome = o]]
  BY <1>7, <1>9
<1> QED BY <1>8, <1>10 DEF Promise!Settle, Promise!Last, View

\* Interpreting is interpreting, with a verdict that the outcome allows.
LEMMA InterpretsRequest ==
    ASSUME IInv, pc = "interpret", NEW i \in Interpretation, ledger' = Interpreted(i)
    PROVE  Promise!Interpret(i) /\ i \in Promise!Verdicts
<1> DEFINE row == ledger[latest]
           r == [row EXCEPT !.interpretation = i]
<1>1. /\ latest = Len(ledger) /\ latest # 0 /\ i \in Interpretations
      /\ latest \in 1 .. Len(ledger)
  BY SoundInterpreted, SeenNow
<1>2. row \in Row /\ row.interpretation = None /\ row.outcome # None
  BY <1>1, SeenNow DEF IInv, Phases, Phase
<1>3. r \in Row /\ Seen(r) = [Seen(row) EXCEPT !.interpretation = i]
  BY <1>1, <1>2, InterpretedRow DEF Seen
<1>4. ledger' = [ledger EXCEPT ![latest] = r]
  BY DEF Interpreted
<1>5. i \in Promise!Allowed(row.outcome)
  BY <1>2 DEF Interpretation, IInv, Ending, Promise!Allowed, Failures
<1> HIDE DEF r, row
<1>6. /\ View(ledger') = [View(ledger) EXCEPT ![Len(View(ledger))] = Seen(r)]
      /\ View(ledger) # <<>> /\ View(ledger)[Len(View(ledger))] = Seen(row)
  BY <1>1, <1>3, <1>4, WriteIsSeen DEF row
<1>7. Seen(row).interpretation = None /\ Seen(row).outcome = row.outcome
  BY <1>2 DEF Seen
<1>8. i \in Promise!Verdicts
  BY <1>1 DEF Interpretations, Promise!Verdicts
<1> QED BY <1>2, <1>3, <1>5, <1>6, <1>7, <1>8 DEF Promise!Interpret, Promise!Last, View

\* What a write that is not acknowledged leaves behind is a write of the contract, or
\* is not seen.
LEMMA InFlightIsAllowed ==
    ASSUME IInv, ledger' \in InFlight
    PROVE  Promise!Write \/ View(ledger') = View(ledger)
<1>1. CASE ledger' = ledger
  BY <1>1
<1>2. CASE pc = "limiter"
  BY <1>1, <1>2, BeginsRequest DEF InFlight, Promise!Write
<1>3. CASE pc = "observe"
  BY <1>1, <1>3, ObservedIsUnseen DEF InFlight
<1>4. CASE pc \in {"settle_send", "settle_stream"}
  BY <1>1, <1>4, SettlesRequest DEF InFlight, Settling, Promise!Write
<1>5. CASE pc = "interpret"
  BY <1>1, <1>5, InterpretsRequest DEF InFlight, Promise!Write
<1>6. CASE pc \notin {"limiter", "observe", "settle_send", "settle_stream", "interpret"}
  BY <1>1, <1>6 DEF InFlight
<1> QED BY <1>1, <1>2, <1>3, <1>4, <1>5, <1>6

\* The actions that write nothing tell the caller nothing.
Quiet == \/ Start \/ Response \/ Body \/ BodyLost \/ Data \/ NothingNew \/ Done
         \/ StreamBreaks

\* The actions in which a durable write fails.
Refused == BeginFails \/ ObserveFails \/ SettleFails \/ InterpretFails

\* A write that fails leaves what was in flight, and the caller is told.
LEMMA RefusedFacts ==
    ASSUME Refused
    PROVE  ledger' \in InFlight /\ result' = "Accounting" /\ pc # "returned"
<1>1. CASE BeginFails
  BY <1>1, AccountingReturns DEF BeginFails
<1>2. CASE ObserveFails
  <2>1. Observation \in InFlight
    BY <1>2 DEF ObserveFails, InFlight
  <2> QED BY <1>2, <2>1, AccountingReturns DEF ObserveFails
<1>3. CASE SettleFails
  <2>1. SendFails("Accounting") \/ (Return("Accounting") /\ UNCHANGED ordinal)
    BY <1>3 DEF SettleFails, Ends
  <2> QED BY <1>3, <2>1, AccountingReturns DEF SettleFails, Settling
<1>4. CASE InterpretFails
  BY <1>4 DEF InterpretFails
<1> QED BY <1>1, <1>2, <1>3, <1>4 DEF Refused

\* Every step is a step of the contract, or is not seen by it.
LEMMA StepIsAllowed ==
    ASSUME IInv, [Next]_vars
    PROVE  Promise!LNext \/ (View(ledger') = View(ledger) /\ result' = result)
<1>0. pc # "returned" => result = None
  BY DEF IInv, Ending
<1>1. CASE Quiet
  BY <1>1 DEF Quiet, Start, Response, Body, BodyLost, Data, NothingNew, Proceed, Done,
     StreamBreaks
<1>2. CASE Refused
  <2>1. Promise!Write \/ View(ledger') = View(ledger)
    BY <1>2, RefusedFacts, InFlightIsAllowed
  <2> QED BY <1>0, <1>2, <2>1, RefusedFacts DEF Promise!LNext, View
<1>3. CASE Begin
  BY <1>0, <1>3, BeginsRequest DEF Begin, Promise!LNext, Promise!Write
<1>4. CASE Post
  BY <1>4, SentIsUnseen DEF Post
<1>5. CASE Observe
  BY <1>5, ObservedIsUnseen DEF Observe, Proceed
<1>6. CASE Settle
  <2>1. Promise!Write
    BY <1>6, SettlesRequest DEF Settle, Promise!Write
  <2>2. result' = result /\ pc # "returned"
    BY <1>6, SettleGoes DEF Settle, Settling
  <2> QED BY <1>0, <2>1, <2>2 DEF Promise!LNext
<1>7. CASE Interpret
  <2>1. PICK i \in Interpretation : ledger' = Interpreted(i) /\ result' = i
    BY <1>7 DEF Interpret
  <2>2. Promise!Interpret(i) /\ i \in Promise!Verdicts
    BY <1>7, <2>1, InterpretsRequest DEF Interpret
  <2> QED BY <1>0, <1>7, <2>1, <2>2 DEF Interpret, Promise!LNext
<1>8. CASE Drop
  <2>1. Promise!Write \/ View(ledger') = View(ledger)
    BY <1>8, InFlightIsAllowed DEF Drop
  <2> QED BY <1>0, <1>8, <2>1 DEF Drop, Promise!LNext
<1>9. CASE UNCHANGED vars
  BY <1>9 DEF vars
<1> QED BY <1>1, <1>2, <1>3, <1>4, <1>5, <1>6, <1>7, <1>8, <1>9 DEF Next, Call, Quiet, Refused

\* The model call with its retries implements the contract of observed calls
\* (AttemptLedger): for every retry policy, and whatever the endpoint and the
\* durable writes do.
THEOREM Implements == Spec => ImplementsLedger
<1>1. Init => Promise!LInit
  <2> SUFFICES ASSUME Init PROVE Promise!LInit
    OBVIOUS
  <2>1. ledger = <<>> /\ DOMAIN ledger = {} /\ result = None
    BY DEF Init
  <2>2. ledger \in Seq(Row) /\ Len(ledger) = 0
    BY <2>1
  <2>3. View(ledger) \in Seq(SeenRow) /\ Len(View(ledger)) = 0
    BY <2>2, ViewFacts
  <2>4. View(ledger) = <<>>
    BY <2>3
  <2> QED BY <2>1, <2>4 DEF Promise!LInit, View
<1>2. IInv /\ [Next]_vars => [Promise!LNext]_(Promise!lvars)
  <2> SUFFICES ASSUME IInv, [Next]_vars PROVE [Promise!LNext]_(Promise!lvars)
    OBVIOUS
  <2> QED BY StepIsAllowed DEF Promise!lvars, View
<1> QED BY <1>1, <1>2, Invariance, PTL DEF Spec, ImplementsLedger, Promise!Ledger

------------------------------------------------------------------------------
(* The embedding call (EmbeddingCall).                                     *)

\* How an embedding settles, what its caller is told, and its receipt.
EmbedOutcomes == {"Complete", "HttpError", "Failed"}
Told == {"Accepted", "Invalid", "Failed"}
EmbedRow == [sent : BOOLEAN, usage : BOOLEAN, outcome : EmbedOutcomes \cup {None},
             interpretation : Told \cup {None}]

\* The answer is the vectors of a response that was decoded.
Answered == /\ body.data \in EmbeddingData
            /\ answer = Embedding!order_and_validate(body.data)
            /\ answer \in [0 .. Texts - 1 -> Vectors]

\* What a call that has an answer, or an error, or neither has come to.
Verdict == /\ embed_error \in {None, "Transport", "Status", "Decode"}
           /\ embed_error = None => embed_outcome = "Complete" /\ Answered
           /\ embed_error = "Decode" => embed_outcome = "Complete"
           /\ embed_error \in {"Transport", "Status"} => embed_outcome \in {"HttpError", "Failed"}
           /\ embed_error # None => answer = None

\* Where the call is suspended determines what it knows and what the ledger holds.
Suspended ==
    /\ embed_pc \in {"begin", "send", "response", "metadata", "settle", "interpret", "returned",
               "dropped"}
    /\ embed_pc \notin {"returned", "dropped"} => embed_result = None
    /\ embed_pc \in {"begin", "send", "response"} => embed_error = None /\ answer = None
    /\ embed_pc = "begin" => embed_ledger = <<>>
    /\ embed_pc \in {"send", "response", "metadata", "settle", "interpret"} =>
                \E row \in EmbedRow : embed_ledger = <<row>> /\ row.interpretation = None
                                      /\ (embed_pc # "interpret" => row.outcome = None)
                                      /\ (embed_pc = "interpret" => row.outcome = embed_outcome)
    /\ embed_pc \in {"metadata", "settle"} =>
                /\ answer = None /\ embed_outcome \in EmbedOutcomes
                /\ embed_error = None => embed_outcome = "Complete" /\ body.data \in EmbeddingData
                   \cup {None}
                /\ embed_error # None => embed_error \in {"Transport", "Status"}
                   /\ embed_outcome # "Complete"
    /\ embed_pc = "interpret" => Verdict
    /\ embed_pc = "returned" /\ answer # None =>
                /\ Answered
                /\ \E row \in EmbedRow : /\ embed_ledger = <<row>> /\ row.outcome = "Complete"
                                         /\ row.interpretation = "Accepted"

\* A receipt that is updated is a receipt.
LEMMA Updates ==
    ASSUME NEW row \in EmbedRow, embed_ledger = <<row>>
    PROVE  /\ Embedding!Update("sent", TRUE) = <<[row EXCEPT !.sent = TRUE]>>
           /\ Embedding!Update("usage", TRUE) = <<[row EXCEPT !.usage = TRUE]>>
           /\ \A o \in EmbedOutcomes :
                 Embedding!Update("outcome", o) = <<[row EXCEPT !.outcome = o]>>
           /\ \A i \in Told :
                 Embedding!Update("interpretation", i) = <<[row EXCEPT !.interpretation = i]>>
           /\ [row EXCEPT !.sent = TRUE] \in EmbedRow /\ [row EXCEPT !.usage = TRUE] \in EmbedRow
           /\ \A o \in EmbedOutcomes : [row EXCEPT !.outcome = o] \in EmbedRow
           /\ \A i \in Told : [row EXCEPT !.interpretation = i] \in EmbedRow
<1>1. ASSUME NEW field, NEW value
      PROVE  Embedding!Update(field, value) = <<[row EXCEPT ![field] = value]>>
  <2> DEFINE new == [row EXCEPT ![field] = value]
  <2>1. Embedding!Update(field, value) = [<<row>> EXCEPT ![1] = new]
    BY DEF Embedding!Update
  <2> HIDE DEF new
  <2>2. [<<row>> EXCEPT ![1] = new] = <<new>>
    OBVIOUS
  <2> QED BY <2>1, <2>2 DEF new
<1>2. /\ [row EXCEPT !.sent = TRUE] \in EmbedRow /\ [row EXCEPT !.usage = TRUE] \in EmbedRow
  BY DEF EmbedRow
<1>3. \A o \in EmbedOutcomes : [row EXCEPT !.outcome = o] \in EmbedRow
  BY DEF EmbedRow
<1>4. \A i \in Told : [row EXCEPT !.interpretation = i] \in EmbedRow
  BY DEF EmbedRow
<1> QED BY <1>1, <1>2, <1>3, <1>4

\* A new receipt is one.
LEMMA NewReceipt == Embedding!Receipt \in EmbedRow /\ Embedding!Receipt.outcome = None
  /\ Embedding!Receipt.interpretation = None
BY DEF Embedding!Receipt, EmbedRow

\* What a validated answer is: for every text a vector, or nothing.
LEMMA Validated ==
    ASSUME Embedding!EmbeddingConstants, NEW data \in EmbeddingData,
           Embedding!order_and_validate(data) # None
    PROVE  Embedding!order_and_validate(data) \in [0 .. Texts - 1 -> Vectors]
<1>1. /\ \A n \in DOMAIN data : Embedding!Sound(data[n])
      /\ Embedding!Indexes(data) = 0 .. Texts - 1 /\ Len(data) = Texts
      /\ Embedding!order_and_validate(data) =
            [i \in 0 .. Texts - 1 |->
                data[CHOOSE n \in DOMAIN data : data[n].index = i].vector]
  BY DEF Embedding!order_and_validate
<1>2. ASSUME NEW i \in 0 .. Texts - 1
      PROVE  data[CHOOSE n \in DOMAIN data : data[n].index = i].vector \in Vectors
  <2>1. \E n \in DOMAIN data : data[n].index = i
    BY <1>1 DEF Embedding!Indexes
  <2> QED BY <1>1, <2>1 DEF Embedding!Sound
<1> QED BY <1>1, <1>2

\* Every step keeps where the call is in step with what it knows.
LEMMA SuspendedStep ==
    ASSUME Embedding!EmbeddingConstants, Suspended, [Embedding!Next]_Embedding!vars
    PROVE  Suspended'
<1>0. /\ None \notin EmbedOutcomes /\ None \notin Told
         /\ None \notin {"Transport", "Status", "Decode"}
      /\ None # "Accounting"
  BY DEF Embedding!EmbeddingConstants, EmbedOutcomes, Told
<1>1. CASE Embedding!Begin
  BY <1>1, NewReceipt DEF Embedding!Begin, Suspended
<1>2. CASE Embedding!Send
  <2>1. PICK row \in EmbedRow : embed_ledger = <<row>> /\ row.interpretation = None
          /\ row.outcome = None
    BY <1>2 DEF Embedding!Send, Suspended
  <2>2. PICK new \in EmbedRow : new = [row EXCEPT !.sent = TRUE]
    BY <2>1, Updates
  <2>3. embed_ledger' = <<new>> /\ new.interpretation = None /\ new.outcome = None
    BY <1>2, <2>1, <2>2, Updates DEF Embedding!Send, EmbedRow
  <2> QED BY <1>2, <2>3 DEF Embedding!Send, Suspended
<1>3. CASE Embedding!Breaks
  BY <1>0, <1>3 DEF Embedding!Breaks, Suspended, EmbedOutcomes
<1>4. CASE Embedding!Responds
  <2>1. body'.data \in EmbeddingData \cup {None}
    BY <1>4 DEF Embedding!Responds
  <2>2. /\ embed_outcome' \in EmbedOutcomes /\ embed_pc' \in {"metadata", "settle"}
           /\ embed_pc = "response"
        /\ embed_error' = None => embed_outcome' = "Complete"
        /\ embed_error' # None => embed_error' = "Status" /\ embed_outcome' # "Complete"
        /\ UNCHANGED <<embed_ledger, answer, embed_result>>
    BY <1>0, <1>4 DEF Embedding!Responds, EmbedOutcomes
  <2> QED BY <2>1, <2>2 DEF Suspended
<1>5. CASE Embedding!Observe
  <2>1. PICK row \in EmbedRow : embed_ledger = <<row>> /\ row.interpretation = None
          /\ row.outcome = None
    BY <1>5 DEF Embedding!Observe, Suspended
  <2>2. PICK new \in EmbedRow : new = [row EXCEPT !.usage = TRUE]
    BY <2>1, Updates
  <2>3. embed_ledger' = <<new>> /\ new.interpretation = None /\ new.outcome = None
    BY <1>5, <2>1, <2>2, Updates DEF Embedding!Observe, EmbedRow
  <2> QED BY <1>5, <2>3 DEF Embedding!Observe, Suspended
<1>6. CASE Embedding!Settle
  <2>1. PICK row \in EmbedRow : embed_ledger = <<row>> /\ row.interpretation = None
    BY <1>6 DEF Embedding!Settle, Suspended
  <2>2. embed_outcome \in EmbedOutcomes /\ embed_outcome' = embed_outcome /\ body' = body
    BY <1>6 DEF Embedding!Settle, Suspended
  <2>3. PICK new \in EmbedRow : new = [row EXCEPT !.outcome = embed_outcome]
    BY <2>1, <2>2, Updates
  <2>4. embed_ledger' = <<new>> /\ new.interpretation = None /\ new.outcome = embed_outcome
    <3>1. embed_ledger' = Embedding!Update("outcome", embed_outcome)
      BY <1>6 DEF Embedding!Settle
    <3>2. embed_ledger' = <<new>>
      BY <2>1, <2>2, <2>3, <3>1, Updates
    <3>3. new.interpretation = None /\ new.outcome = embed_outcome
      BY <2>1, <2>3 DEF EmbedRow
    <3> QED BY <3>2, <3>3
  <2>5. Verdict'
    <3>1. CASE embed_error = None /\ body.data # None
      <4>1. answer' = Embedding!order_and_validate(body.data) /\ body.data \in EmbeddingData
              /\ embed_outcome = "Complete"
        BY <1>6, <3>1 DEF Embedding!Settle, Suspended
      <4>2. answer' # None => answer' \in [0 .. Texts - 1 -> Vectors]
        BY <4>1, Validated
      <4>3. embed_error' = IF answer' = None THEN "Decode" ELSE None
        BY <1>6, <3>1 DEF Embedding!Settle
      <4>4. answer' # None => Answered'
        BY <2>2, <4>1, <4>2 DEF Answered
      <4>5. embed_outcome' = "Complete"
        BY <2>2, <4>1
      <4> QED BY <1>0, <4>3, <4>4, <4>5 DEF Verdict
    <3>2. CASE ~ (embed_error = None /\ body.data # None)
      <4>1. answer' = None
        BY <1>6, <3>2 DEF Embedding!Settle, Suspended
      <4>2. embed_error' = IF embed_error = None THEN "Decode" ELSE embed_error
        BY <1>6, <4>1 DEF Embedding!Settle
      <4>3. /\ embed_error = None => embed_outcome = "Complete"
            /\ embed_error # None => embed_error \in {"Transport", "Status"}
               /\ embed_outcome # "Complete"
        BY <1>6 DEF Embedding!Settle, Suspended
      <4> QED BY <1>0, <2>2, <4>1, <4>2, <4>3 DEF Verdict, EmbedOutcomes
    <3> QED BY <3>1, <3>2
  <2> QED BY <1>6, <2>2, <2>4, <2>5 DEF Embedding!Settle, Suspended
<1>7. CASE Embedding!Interpret
  <2>1. PICK row \in EmbedRow : embed_ledger = <<row>> /\ row.outcome = embed_outcome
    BY <1>7 DEF Embedding!Interpret, Suspended
  <2>2. Embedding!Interpretation \in Told /\ Verdict
    BY <1>7 DEF Embedding!Interpretation, Told, Embedding!Interpret, Suspended
  <2>3. PICK new \in EmbedRow : new = [row EXCEPT !.interpretation = Embedding!Interpretation]
    BY <2>1, <2>2, Updates
  <2>4. embed_ledger' = <<new>> /\ new.interpretation = Embedding!Interpretation
          /\ new.outcome = embed_outcome
    <3>1. embed_ledger' = Embedding!Update("interpretation", Embedding!Interpretation)
      BY <1>7 DEF Embedding!Interpret
    <3>2. embed_ledger' = <<new>>
      BY <2>1, <2>2, <2>3, <3>1, Updates
    <3>3. new.interpretation = Embedding!Interpretation /\ new.outcome = embed_outcome
      BY <2>1, <2>3 DEF EmbedRow
    <3> QED BY <3>2, <3>3
  <2>5. embed_pc' = "returned" /\ UNCHANGED <<body, embed_error, embed_outcome, answer>>
    BY <1>7 DEF Embedding!Interpret
  <2>6. answer # None => /\ Answered /\ embed_outcome = "Complete"
                            /\ Embedding!Interpretation = "Accepted"
    BY <2>2 DEF Verdict, Embedding!Interpretation
  <2>7. Answered' <=> Answered
    BY <2>5 DEF Answered
  <2> QED BY <2>4, <2>5, <2>6, <2>7 DEF Suspended
<1>8. CASE Embedding!WriteFails
  BY <1>8 DEF Embedding!WriteFails, Suspended
<1>9. CASE Embedding!Drop
  BY <1>9 DEF Embedding!Drop, Suspended
<1>10. CASE UNCHANGED Embedding!vars
  <2>1. UNCHANGED <<embed_pc, embed_ledger, body, embed_error, embed_outcome, answer, embed_result>>
    BY <1>10 DEF Embedding!vars
  <2>2. Answered' <=> Answered
    BY <2>1 DEF Answered
  <2>3. Verdict' <=> Verdict
    BY <2>1, <2>2 DEF Verdict
  <2> QED BY <2>1, <2>2, <2>3 DEF Suspended
<1> QED BY <1>1, <1>2, <1>3, <1>4, <1>5, <1>6, <1>7, <1>8, <1>9, <1>10 DEF Embedding!Next

\* Where the call is, what it knows and what the ledger holds agree, for any number of texts
\* and any answers of the endpoint.
THEOREM EmbeddingInvariance == ASSUME Embedding!EmbeddingConstants
    PROVE  Embedding!Spec => []Suspended
<1>1. Embedding!Init => Suspended
  BY DEF Embedding!Init, Suspended
<1> QED BY <1>1, SuspendedStep, PTL DEF Embedding!Spec

-----------------------------------------------------------------------------
(* A vector for every text                                                 *)

\* What a validated answer takes from the response: under every index there is one
\* datum, because there are as many data as texts and every text is named.
LEMMA OnePerText ==
    ASSUME Embedding!EmbeddingConstants, NEW data \in EmbeddingData,
           Embedding!order_and_validate(data) # None
    PROVE  /\ Len(data) = Texts /\ Embedding!Indexes(data) = 0 .. Texts - 1
           /\ \A i \in 0 .. Texts - 1 : \A n \in DOMAIN data :
                 data[n].index = i => /\ data[n].vector = Embedding!order_and_validate(data)[i]
                                      /\ data[n].vector \in Vectors
<1>1. /\ \A n \in DOMAIN data : Embedding!Sound(data[n])
      /\ Embedding!Indexes(data) = 0 .. Texts - 1 /\ Len(data) = Texts
      /\ Embedding!order_and_validate(data) =
            [i \in 0 .. Texts - 1 |->
                data[CHOOSE n \in DOMAIN data : data[n].index = i].vector]
  BY DEF Embedding!order_and_validate
<1>2. data \in Seq(Embedding!Datum) /\ Texts \in Nat /\ DOMAIN data = 1 .. Texts
  BY <1>1 DEF Embedding!EmbeddingConstants
<1> DEFINE named == [n \in 1 .. Texts |-> data[n].index]
<1>3. named \in Surjection(1 .. Texts, 0 .. Texts - 1)
  <2>1. \A n \in 1 .. Texts : named[n] \in 0 .. Texts - 1
    BY <1>1, <1>2 DEF Embedding!Indexes
  <2>2. \A i \in 0 .. Texts - 1 : \E n \in 1 .. Texts : named[n] = i
    <3> TAKE i \in 0 .. Texts - 1
    <3>1. i \in Embedding!Indexes(data)
      BY <1>1
    <3> QED BY <1>2, <3>1 DEF Embedding!Indexes
  <2> QED BY <2>1, <2>2 DEF Surjection
<1>4. /\ IsFiniteSet(1 .. Texts)
      /\ Cardinality(1 .. Texts) = Cardinality(0 .. Texts - 1)
  <2>1. 1 \in Int /\ 0 \in Int /\ Texts \in Int /\ Texts - 1 \in Int
    BY <1>2
  <2>2. IsFiniteSet(1 .. Texts) /\ Cardinality(1 .. Texts) = Texts
    <3>1. Cardinality(1 .. Texts) = IF 1 > Texts THEN 0 ELSE Texts - 1 + 1
      BY <2>1, FS_Interval
    <3>2. IsFiniteSet(1 .. Texts)
      BY <2>1, FS_Interval
    <3> QED BY <1>2, <3>1, <3>2
  <2>3. Cardinality(0 .. Texts - 1) = Texts
    <3>1. Cardinality(0 .. Texts - 1) = IF 0 > Texts - 1 THEN 0 ELSE Texts - 1 - 0 + 1
      BY <2>1, FS_Interval
    <3> QED BY <1>2, <3>1
  <2> QED BY <2>2, <2>3
<1> HIDE DEF named
<1>5. named \in Injection(1 .. Texts, 0 .. Texts - 1)
  BY <1>3, <1>4, FS_SurjSameCardinalityImpliesInj
<1>6. \A m, n \in 1 .. Texts : data[m].index = data[n].index => m = n
  BY <1>5 DEF Injection, IsInjective, named
<1>7. ASSUME NEW i \in 0 .. Texts - 1, NEW n \in DOMAIN data, data[n].index = i
      PROVE  data[n].vector = Embedding!order_and_validate(data)[i] /\ data[n].vector \in Vectors
  <2> DEFINE m == CHOOSE k \in DOMAIN data : data[k].index = i
  <2>1. m \in DOMAIN data /\ data[m].index = i
    BY <1>7
  <2>2. Embedding!order_and_validate(data)[i] = data[m].vector
    BY <1>1
  <2> HIDE DEF m
  <2>3. m = n
    BY <1>2, <1>6, <1>7, <2>1
  <2> QED BY <1>1, <1>7, <2>2, <2>3 DEF Embedding!Sound
<1> QED BY <1>1, <1>7

\* Wherever the call is, an answer that is given is the one the endpoint named.
LEMMA AnswerHolds == Embedding!EmbeddingConstants /\ Suspended => Embedding!AnswerIsPerText
<1> SUFFICES ASSUME Embedding!EmbeddingConstants, Suspended, embed_pc = "returned", answer # None
             PROVE  Embedding!AnswerIsPerText
  BY DEF Embedding!AnswerIsPerText
<1>1. PICK row \in EmbedRow : /\ embed_ledger = <<row>> /\ row.outcome = "Complete"
                              /\ row.interpretation = "Accepted"
  BY DEF Suspended
<1>2. embed_ledger[1] = row
  BY <1>1
<1>3. /\ body.data \in EmbeddingData /\ answer = Embedding!order_and_validate(body.data)
      /\ answer \in [0 .. Texts - 1 -> Vectors]
  BY DEF Suspended, Answered
<1>4. Embedding!order_and_validate(body.data) # None
  BY <1>3
<1>5. /\ Len(body.data) = Texts /\ Embedding!Indexes(body.data) = 0 .. Texts - 1
      /\ \A i \in 0 .. Texts - 1 : \A n \in DOMAIN body.data :
            body.data[n].index = i => /\ body.data[n].vector = answer[i]
                                      /\ answer[i] \in Vectors
  BY <1>3, <1>4, OnePerText
<1>6. DOMAIN answer = 0 .. Texts - 1
  BY <1>3
<1> QED BY <1>1, <1>2, <1>5, <1>6 DEF Embedding!AnswerIsPerText

\* The caller of an embedding gets, for each of its texts, the one vector the endpoint named
\* with that text's index, and such an answer is settled and accepted in the ledger
\* (embed_batch_impl, order_and_validate), for any number of texts.
THEOREM AnswersPerText == ASSUME Embedding!EmbeddingConstants
    PROVE  Embedding!Spec => []Embedding!AnswerIsPerText
<1>1. Embedding!EmbeddingConstants
  OBVIOUS
<1>2. Suspended => Embedding!AnswerIsPerText
  BY <1>1, AnswerHolds
<1> QED BY <1>2, EmbeddingInvariance, PTL

-----------------------------------------------------------------------------
(* The call implements the contract of observed calls                      *)

\* What the contract sees of a receipt, and of the receipts of a call.
EmbedSeen(row) == [outcome |-> row.outcome, interpretation |-> row.interpretation]
EmbedView(l) == [n \in DOMAIN l |-> [outcome |-> l[n].outcome,
                                interpretation |-> l[n].interpretation]]

\* A call has no receipt or one, and the contract sees as many.
LEMMA ViewOfOne ==
    /\ EmbedView(<<>>) = <<>>
    /\ \A row : EmbedView(<<row>>) = <<EmbedSeen(row)>>
<1>1. EmbedView(<<>>) = <<>>
  BY DEF EmbedView
<1>2. ASSUME NEW row PROVE EmbedView(<<row>>) = <<EmbedSeen(row)>>
  <2>1. DOMAIN <<row>> = {1} /\ <<row>>[1] = row
    OBVIOUS
  <2>2. EmbedView(<<row>>) = [n \in {1} |-> EmbedSeen(row)]
    BY <2>1 DEF EmbedView, EmbedSeen
  <2>3. 1 .. 1 = {1}
    OBVIOUS
  <2> QED BY <2>2, <2>3
<1> QED BY <1>1, <1>2

\* Writing the intent begins the one request of the call.
LEMMA EmbedBeginsRequest ==
    ASSUME Suspended, embed_pc = "begin", embed_ledger' = <<Embedding!Receipt>>
    PROVE  Embedding!Promise!Begin
<1>1. embed_ledger = <<>>
  BY DEF Suspended
<1>2. EmbedView(embed_ledger) = <<>> /\ EmbedView(embed_ledger') = <<EmbedSeen(Embedding!Receipt)>>
  BY <1>1, ViewOfOne
<1>3. EmbedSeen(Embedding!Receipt) = Embedding!Promise!Open
  BY DEF EmbedSeen, Embedding!Receipt, Embedding!Promise!Open
<1>4. DOMAIN EmbedView(embed_ledger) = {}
  BY <1>2
<1>5. EmbedView(embed_ledger') = Append(EmbedView(embed_ledger), Embedding!Promise!Open)
  BY <1>2, <1>3
<1> QED BY <1>4, <1>5 DEF Embedding!Promise!Begin, EmbedView

\* The receipt of a call that is under way, and what a write to it shows.
LEMMA UnderWay ==
    ASSUME Suspended, embed_pc \in {"send", "response", "metadata", "settle", "interpret"}
    PROVE  \E row \in EmbedRow :
              /\ embed_ledger = <<row>> /\ row.interpretation = None
              /\ embed_pc # "interpret" => row.outcome = None
              /\ embed_pc = "interpret" => row.outcome = embed_outcome
              /\ EmbedView(embed_ledger) = <<EmbedSeen(row)>> /\ EmbedView(embed_ledger) # <<>>
              /\ Len(EmbedView(embed_ledger)) = 1
                 /\ EmbedView(embed_ledger)[Len(EmbedView(embed_ledger))] =
                       EmbedSeen(row)
<1>1. PICK row \in EmbedRow : /\ embed_ledger = <<row>> /\ row.interpretation = None
                              /\ embed_pc # "interpret" => row.outcome = None
                              /\ embed_pc = "interpret" => row.outcome = embed_outcome
  BY DEF Suspended
<1>2. EmbedView(embed_ledger) = <<EmbedSeen(row)>>
  BY <1>1, ViewOfOne
<1>3. Len(EmbedView(embed_ledger)) = 1 /\ EmbedView(embed_ledger)[1] = EmbedSeen(row)
        /\ EmbedView(embed_ledger) # <<>>
  BY <1>2
<1> QED BY <1>1, <1>2, <1>3

\* Sending and observing are not seen.
LEMMA Unseen ==
    ASSUME Suspended, embed_pc \in {"send", "metadata"}, NEW field \in {"sent", "usage"},
           embed_ledger' = Embedding!Update(field, TRUE)
    PROVE  EmbedView(embed_ledger') = EmbedView(embed_ledger)
<1>1. PICK row \in EmbedRow : embed_ledger = <<row>> /\ EmbedView(embed_ledger) = <<EmbedSeen(row)>>
  BY UnderWay
<1>2. PICK new : new = [row EXCEPT ![field] = TRUE]
  OBVIOUS
<1>3. embed_ledger' = <<new>>
  BY <1>1, <1>2, Updates
<1>4. EmbedView(embed_ledger') = <<EmbedSeen(new)>>
  BY <1>3, ViewOfOne
<1>5. EmbedSeen(new) = EmbedSeen(row)
  BY <1>2 DEF EmbedSeen, EmbedRow
<1> QED BY <1>1, <1>4, <1>5

\* Settling is settling, with the outcome that is being written.
LEMMA EmbedSettlesRequest ==
    ASSUME Suspended, embed_pc = "settle",
           embed_ledger' = Embedding!Update("outcome", embed_outcome)
    PROVE  Embedding!Promise!Settle
<1>1. PICK row \in EmbedRow : /\ embed_ledger = <<row>> /\ row.outcome = None
                              /\ EmbedView(embed_ledger) = <<EmbedSeen(row)>>
                                 /\ EmbedView(embed_ledger) # <<>>
                              /\ Len(EmbedView(embed_ledger)) = 1
                              /\ EmbedView(embed_ledger)[Len(EmbedView(embed_ledger))] =
                                    EmbedSeen(row)
  BY UnderWay
<1>2. /\ embed_outcome \in Embedding!Promise!Failures \cup {"Complete"}
      /\ embed_outcome \in EmbedOutcomes
  BY DEF Suspended, EmbedOutcomes, Embedding!Promise!Failures
<1>3. PICK new : new = [row EXCEPT !.outcome = embed_outcome]
  OBVIOUS
<1>4. embed_ledger' = <<new>>
  BY <1>1, <1>2, <1>3, Updates
<1>5. EmbedView(embed_ledger') = <<EmbedSeen(new)>>
  BY <1>4, ViewOfOne
<1>6. EmbedSeen(new) = [EmbedSeen(row) EXCEPT !.outcome = embed_outcome]
  BY <1>3 DEF EmbedSeen, EmbedRow
<1>7. EmbedView(embed_ledger') =
        [EmbedView(embed_ledger) EXCEPT ![Len(EmbedView(embed_ledger))] = EmbedSeen(new)]
  BY <1>1, <1>5
<1> DEFINE v == EmbedView(embed_ledger)
<1>8. v # <<>> /\ v[Len(v)].outcome = None
  BY <1>1 DEF EmbedSeen
<1>9. EmbedView(embed_ledger') = [v EXCEPT ![Len(v)] = [v[Len(v)] EXCEPT !.outcome = embed_outcome]]
  BY <1>1, <1>6, <1>7
<1>10. \E o \in Embedding!Promise!Failures \cup {"Complete"} :
          EmbedView(embed_ledger') = [v EXCEPT ![Len(v)] = [v[Len(v)] EXCEPT !.outcome = o]]
  BY <1>2, <1>9
<1> QED BY <1>8, <1>10 DEF Embedding!Promise!Settle, Embedding!Promise!Last, EmbedView

\* Interpreting is interpreting, with a verdict that the outcome allows.
LEMMA EmbedInterpretsRequest ==
    ASSUME Embedding!EmbeddingConstants, Suspended, embed_pc = "interpret", NEW i,
           i = Embedding!Interpretation,
           embed_ledger' = Embedding!Update("interpretation", i)
    PROVE  Embedding!Promise!Interpret(i) /\ i \in Embedding!Promise!Verdicts
<1>1. PICK row \in EmbedRow : /\ embed_ledger = <<row>> /\ row.interpretation = None
                              /\ row.outcome = embed_outcome
                              /\ EmbedView(embed_ledger) = <<EmbedSeen(row)>>
                                 /\ EmbedView(embed_ledger) # <<>>
                              /\ Len(EmbedView(embed_ledger)) = 1
                              /\ EmbedView(embed_ledger)[Len(EmbedView(embed_ledger))] =
                                    EmbedSeen(row)
  BY UnderWay
<1>2. Verdict
  BY DEF Suspended
<1>3. /\ i \in {"Accepted", "Invalid", "Failed"}
      /\ embed_outcome = "Complete" => i \in {"Accepted", "Invalid"}
      /\ embed_outcome # "Complete" => i = "Failed"
      /\ embed_outcome # None
  BY <1>2 DEF Verdict, Embedding!Interpretation, Embedding!EmbeddingConstants
<1>4. /\ i \in Embedding!Promise!Allowed(embed_outcome)
      /\ i \in Embedding!Promise!Verdicts /\ i \in Told
  BY <1>3 DEF Embedding!Promise!Allowed, Embedding!Promise!Verdicts, Told
<1>5. PICK new : new = [row EXCEPT !.interpretation = i]
  OBVIOUS
<1>6. embed_ledger' = <<new>>
  BY <1>1, <1>4, <1>5, Updates
<1>7. EmbedView(embed_ledger') = <<EmbedSeen(new)>>
  BY <1>6, ViewOfOne
<1>8. EmbedSeen(new) = [EmbedSeen(row) EXCEPT !.interpretation = i]
  BY <1>5 DEF EmbedSeen, EmbedRow
<1> DEFINE v == EmbedView(embed_ledger)
<1>9. /\ v # <<>> /\ v[Len(v)].interpretation = None
      /\ v[Len(v)].outcome # None /\ i \in Embedding!Promise!Allowed(v[Len(v)].outcome)
  BY <1>1, <1>3, <1>4 DEF EmbedSeen
<1>10. EmbedView(embed_ledger') = [v EXCEPT ![Len(v)] = [v[Len(v)] EXCEPT !.interpretation = i]]
  BY <1>1, <1>7, <1>8
<1> QED BY <1>4, <1>9, <1>10 DEF Embedding!Promise!Interpret, Embedding!Promise!Last, EmbedView

\* What a write that is not acknowledged leaves behind is a write of the contract, or is
\* not seen.
LEMMA EmbedInFlightIsAllowed ==
    ASSUME Embedding!EmbeddingConstants, Suspended, embed_ledger' \in Embedding!InFlight
    PROVE  Embedding!Promise!Write \/ EmbedView(embed_ledger') = EmbedView(embed_ledger)
<1>1. CASE embed_ledger' = embed_ledger
  BY <1>1
<1>2. CASE embed_pc = "begin"
  BY <1>1, <1>2, EmbedBeginsRequest DEF Embedding!InFlight, Embedding!Promise!Write
<1>3. CASE embed_pc = "metadata"
  BY <1>1, <1>3, Unseen DEF Embedding!InFlight
<1>4. CASE embed_pc = "settle"
  BY <1>1, <1>4, EmbedSettlesRequest DEF Embedding!InFlight, Embedding!Promise!Write
<1>5. CASE embed_pc = "interpret"
  <2>1. CASE embed_ledger' = Embedding!Update("interpretation", Embedding!Interpretation)
    <3>1. PICK i : i = Embedding!Interpretation
      OBVIOUS
    <3>2. Embedding!Promise!Interpret(i) /\ i \in Embedding!Promise!Verdicts
      BY <1>5, <2>1, <3>1, EmbedInterpretsRequest
    <3> QED BY <3>2 DEF Embedding!Promise!Write
  <2> QED BY <1>1, <1>5, <2>1 DEF Embedding!InFlight
<1>6. CASE embed_pc \notin {"begin", "metadata", "settle", "interpret"}
  BY <1>1, <1>6 DEF Embedding!InFlight
<1> QED BY <1>1, <1>2, <1>3, <1>4, <1>5, <1>6

\* Every step is a step of the contract, or is not seen by it.
LEMMA EmbedStepIsAllowed ==
    ASSUME Embedding!EmbeddingConstants, Suspended, [Embedding!Next]_Embedding!vars
    PROVE  Embedding!Promise!LNext
             \/ (EmbedView(embed_ledger') = EmbedView(embed_ledger) /\ embed_result' = embed_result)
<1>0. embed_pc \notin {"returned", "dropped"} => embed_result = None
  BY DEF Suspended
<1>1. CASE Embedding!Begin
  BY <1>0, <1>1, EmbedBeginsRequest
     DEF Embedding!Begin, Embedding!Promise!LNext, Embedding!Promise!Write
<1>2. CASE Embedding!Send
  BY <1>2, Unseen DEF Embedding!Send
<1>3. CASE Embedding!Breaks \/ Embedding!Responds
  BY <1>3 DEF Embedding!Breaks, Embedding!Responds
<1>4. CASE Embedding!Observe
  BY <1>4, Unseen DEF Embedding!Observe
<1>5. CASE Embedding!Settle
  BY <1>0, <1>5, EmbedSettlesRequest
     DEF Embedding!Settle, Embedding!Promise!LNext, Embedding!Promise!Write
<1>6. CASE Embedding!Interpret
  <2>1. PICK i : i = Embedding!Interpretation
    OBVIOUS
  <2>2. /\ embed_pc = "interpret" /\ embed_result = None /\ embed_result' = i
        /\ embed_ledger' = Embedding!Update("interpretation", i)
    BY <1>0, <1>6, <2>1 DEF Embedding!Interpret
  <2>3. Embedding!Promise!Interpret(i) /\ i \in Embedding!Promise!Verdicts
    BY <2>1, <2>2, EmbedInterpretsRequest
  <2> QED BY <2>2, <2>3 DEF Embedding!Promise!LNext
<1>7. CASE Embedding!WriteFails
  <2>1. Embedding!Promise!Write \/ EmbedView(embed_ledger') = EmbedView(embed_ledger)
    BY <1>7, EmbedInFlightIsAllowed DEF Embedding!WriteFails
  <2> QED BY <1>0, <1>7, <2>1 DEF Embedding!WriteFails, Embedding!Promise!LNext, EmbedView
<1>8. CASE Embedding!Drop
  <2>1. Embedding!Promise!Write \/ EmbedView(embed_ledger') = EmbedView(embed_ledger)
    BY <1>8, EmbedInFlightIsAllowed DEF Embedding!Drop
  <2> QED BY <1>0, <1>8, <2>1 DEF Embedding!Drop, Embedding!Promise!LNext
<1>9. CASE UNCHANGED Embedding!vars
  BY <1>9 DEF Embedding!vars
<1> QED BY <1>1, <1>2, <1>3, <1>4, <1>5, <1>6, <1>7, <1>8, <1>9 DEF Embedding!Next

\* The embedding call implements the contract of observed calls (AttemptLedger), for any
\* number of texts, whatever the endpoint answers and whichever write fails.
THEOREM EmbeddingImplements == ASSUME Embedding!EmbeddingConstants
    PROVE  Embedding!Spec => Embedding!ImplementsLedger
<1>1. Embedding!Init => Embedding!Promise!LInit
  <2> SUFFICES ASSUME Embedding!Init PROVE Embedding!Promise!LInit
    OBVIOUS
  <2>1. EmbedView(embed_ledger) = <<>> /\ embed_result = None
    BY ViewOfOne DEF Embedding!Init
  <2> QED BY <2>1 DEF Embedding!Promise!LInit, EmbedView
<1>2. Suspended /\ [Embedding!Next]_Embedding!vars =>
        [Embedding!Promise!LNext]_(Embedding!Promise!lvars)
  <2> SUFFICES ASSUME Suspended, [Embedding!Next]_Embedding!vars
               PROVE  [Embedding!Promise!LNext]_(Embedding!Promise!lvars)
    OBVIOUS
  <2> QED BY EmbedStepIsAllowed DEF Embedding!Promise!lvars, EmbedView
<1> QED BY <1>1, <1>2, EmbeddingInvariance, PTL
           DEF Embedding!Spec, Embedding!ImplementsLedger, Embedding!Promise!Ledger

------------------------------------------------------------------------------
(* Induction over a set of naturals.                                       *)

\* A set of naturals has a least element.
LEMMA LeastExists ==
    ASSUME NEW C, C \subseteq Nat, C # {} PROVE \E r \in C : \A s \in C : r <= s
<1> DEFINE R == {ss \in Nat \X Nat : ss[1] < ss[2]}
<1>1. IsWellFoundedOn(R, Nat)
  BY NatLessThanWellFounded DEF OpToRel
<1>2. \E x \in C : \A y \in C : ~ (<<y, x>> \in R)
  <2> HIDE DEF R
  <2> QED BY <1>1, WFMin
<1>3. PICK x \in C : \A y \in C : ~ (<<y, x>> \in R)
  BY <1>2
<1>4. ASSUME NEW y \in C PROVE x <= y
  <2>1. x \in Nat /\ y \in Nat /\ ~ (<<y, x>> \in R)
    BY <1>3
  <2>2. ~ (y < x)
    BY <2>1
  <2> QED BY <2>1, <2>2
<1> QED BY <1>4

\* What holds 0, and n + 1 with every n, holds every natural.
LEMMA Inductive ==
    ASSUME NEW T, 0 \in T, \A n \in Nat : n \in T => n + 1 \in T
    PROVE  Nat \subseteq T
<1> SUFFICES ASSUME Nat \ T # {} PROVE FALSE
  OBVIOUS
<1>1. PICK r \in Nat \ T : \A s \in Nat \ T : r <= s
  BY LeastExists
<1>2. r # 0 /\ r - 1 \in Nat /\ ~ r <= r - 1
  BY <1>1
<1>3. r - 1 \in T
  BY <1>1, <1>2
<1>4. (r - 1) + 1 = r
  BY <1>1
<1> QED BY <1>1, <1>2, <1>3, <1>4

------------------------------------------------------------------------------
(* The scan of a text, symbol by symbol.                                   *)

\* One symbol more.
Read(s, b) ==
    IF Decoder!Contains(s.items, Decoder!Done) THEN s
    ELSE IF b = Decoder!NL
    THEN [line |-> <<>>, items |-> s.items \o Decoder!process_line(s.line)]
    ELSE [s EXCEPT !.line = Append(@, b)]
Nothing == [line |-> <<>>, items |-> <<>>]
\* The positions of a text are taken from the last.
Last(P) == CHOOSE x \in P : \A y \in P : x >= y
Step(g, text, P) == IF P = {} THEN Nothing ELSE Read(g[P \ {Last(P)}], text[Last(P)])
Scans(g, text) == g = [P \in SUBSET DOMAIN text |-> Step(g, text, P)]

\* The scan is the library's fold, which goes through the sets of positions.
LEMMA ScanFolds ==
    ASSUME NEW text
    PROVE  Decoder!Scan(text) = (CHOOSE g : Scans(g, text))[DOMAIN text]
BY DEF Decoder!Scan, Decoder!FoldLeft, Decoder!MapThenFoldSet, Decoder!Max, Scans, Step, Read,
       Nothing, Last

\* The positions of n symbols.
LEMMA LastOf ==
    ASSUME NEW n \in Nat, NEW P \in SUBSET (1 .. n), P # {}
    PROVE  Last(P) \in P /\ \A y \in P : Last(P) >= y
<1>1. PICK r \in {n - p : p \in P} : \A s \in {n - p : p \in P} : r <= s
  <2>1. {n - p : p \in P} \subseteq Nat
    OBVIOUS
  <2>2. {n - p : p \in P} # {}
    OBVIOUS
  <2> QED BY <2>1, <2>2, LeastExists
<1>2. PICK x \in P : r = n - x
  BY <1>1
<1>3. \A y \in P : x >= y
  <2> SUFFICES ASSUME NEW y \in P PROVE x >= y
    OBVIOUS
  <2>1. n - x <= n - y
    BY <1>1, <1>2
  <2> QED BY <2>1
<1> QED BY <1>3 DEF Last

\* Before position k + 1 come k.
LEMMA LastOfAll ==
    ASSUME NEW k \in Nat
    PROVE  Last(1 .. k + 1) = k + 1 /\ (1 .. k + 1) \ {Last(1 .. k + 1)} = 1 .. k
<1>1. /\ k + 1 \in Nat /\ k + 1 \in 1 .. k + 1
      /\ 1 .. k + 1 \in SUBSET (1 .. k + 1) /\ 1 .. k + 1 # {}
  OBVIOUS
<1>2. Last(1 .. k + 1) \in 1 .. k + 1 /\ \A y \in 1 .. k + 1 : Last(1 .. k + 1) >= y
  <2> QED BY <1>1, LastOf
<1>3. PICK m : m = Last(1 .. k + 1)
  OBVIOUS
<1>4. m = k + 1
  <2>1. m \in 1 .. k + 1 /\ m >= k + 1
    BY <1>1, <1>2, <1>3
  <2> QED BY <2>1
<1> QED BY <1>3, <1>4

\* Sets of fewer positions.
Smaller(n, m) == {P \in SUBSET (1 .. n) : Cardinality(P) < m}

\* The scan of a text exists.
LEMMA ScanExists ==
    ASSUME NEW S, NEW text \in Seq(S) PROVE \E g : Scans(g, text)
<1> DEFINE n == Len(text)
           T == {m \in Nat : \E g : g = [P \in Smaller(n, m) |-> Step(g, text, P)]}
<1>0. n \in Nat /\ DOMAIN text = 1 .. n /\ IsFiniteSet(1 .. n)
  BY FS_Interval
<1> HIDE DEF n
<1>1. 0 \in T
  <2>1. Smaller(n, 0) = {}
    <3> SUFFICES ASSUME NEW P \in Smaller(n, 0) PROVE FALSE
      OBVIOUS
    <3>1. IsFiniteSet(P) /\ Cardinality(P) < 0
      BY <1>0, FS_Subset DEF Smaller
    <3>2. Cardinality(P) \in Nat
      BY <3>1, FS_CardinalityType
    <3> QED BY <3>1, <3>2
  <2>2. PICK g : g = [P \in {} |-> Nothing]
    OBVIOUS
  <2>3. g = [P \in Smaller(n, 0) |-> Step(g, text, P)]
    BY <2>1, <2>2
  <2> QED BY <2>3
<1>2. ASSUME NEW m \in Nat, m \in T PROVE m + 1 \in T
  <2>1. PICK g : g = [P \in Smaller(n, m) |-> Step(g, text, P)]
    BY <1>2
  <2>2. PICK h : h = [P \in Smaller(n, m + 1) |-> Step(g, text, P)]
    OBVIOUS
  <2>3. ASSUME NEW P \in Smaller(n, m + 1), P # {}
        PROVE  P \ {Last(P)} \in Smaller(n, m) /\ P \ {Last(P)} \in Smaller(n, m + 1)
    <3>1. P \in SUBSET (1 .. n) /\ IsFiniteSet(P) /\ Cardinality(P) < m + 1
      BY <1>0, FS_Subset DEF Smaller
    <3>2. Last(P) \in P
      BY <1>0, <2>3, <3>1, LastOf
    <3>3. /\ Cardinality(P) \in Nat /\ Cardinality(P \ {Last(P)}) = Cardinality(P) - 1
      BY <3>1, <3>2, FS_CardinalityType, FS_RemoveElement
    <3>4. Cardinality(P \ {Last(P)}) < m /\ Cardinality(P \ {Last(P)}) < m + 1
      BY <3>1, <3>3
    <3> QED BY <3>1, <3>4 DEF Smaller
  <2>4. ASSUME NEW P \in Smaller(n, m + 1) PROVE Step(g, text, P) = Step(h, text, P)
    <3>1. CASE P = {}
      BY <3>1 DEF Step
    <3>2. CASE P # {}
      <4>1. P \ {Last(P)} \in Smaller(n, m) /\ P \ {Last(P)} \in Smaller(n, m + 1)
        BY <2>3, <3>2
      <4>2. g[P \ {Last(P)}] = h[P \ {Last(P)}]
        BY <2>1, <2>2, <4>1
      <4> QED BY <4>2 DEF Step
    <3> QED BY <3>1, <3>2
  <2>5. h = [P \in Smaller(n, m + 1) |-> Step(h, text, P)]
    BY <2>2, <2>4
  <2>6. m + 1 \in Nat
    OBVIOUS
  <2> QED BY <2>5, <2>6
<1>3. n + 1 \in T
  <2> HIDE DEF T
  <2>1. Nat \subseteq T
    BY <1>1, <1>2, Inductive
  <2> QED BY <1>0, <2>1
<1>4. Smaller(n, n + 1) = SUBSET (1 .. n)
  <2>1. ASSUME NEW P \in SUBSET (1 .. n) PROVE Cardinality(P) < n + 1
    <3>1. IsFiniteSet(P) /\ Cardinality(P) <= Cardinality(1 .. n)
      BY <1>0, FS_Subset
    <3>2. Cardinality(P) \in Nat /\ Cardinality(1 .. n) = n
      BY <1>0, <3>1, FS_CardinalityType, FS_Interval
    <3> QED BY <1>0, <3>1, <3>2
  <2> QED BY <2>1 DEF Smaller
<1>5. PICK g : g = [P \in SUBSET (1 .. n) |-> Step(g, text, P)]
  BY <1>3, <1>4
<1> QED BY <1>0, <1>5 DEF Scans

\* What is scanned of a text is what is scanned of it up to each position.
LEMMA ScanGrows ==
    ASSUME NEW S, NEW text \in Seq(S), NEW g, Scans(g, text), NEW k \in Nat, k < Len(text)
    PROVE  g[1 .. k + 1] = Read(g[1 .. k], text[k + 1])
<1>1. 1 .. k + 1 \in SUBSET DOMAIN text /\ 1 .. k + 1 # {}
  <2>1. PICK n \in Nat : n = Len(text) /\ DOMAIN text = 1 .. n
    OBVIOUS
  <2>2. k + 1 <= n /\ k + 1 \in 1 .. k + 1
    BY <2>1
  <2>3. 1 .. k + 1 \subseteq 1 .. n
    BY <2>1, <2>2
  <2> QED BY <2>1, <2>2, <2>3
<1>2. g[1 .. k + 1] = Step(g, text, 1 .. k + 1)
  BY <1>1 DEF Scans
<1>3. Last(1 .. k + 1) = k + 1 /\ (1 .. k + 1) \ {Last(1 .. k + 1)} = 1 .. k
  BY LastOfAll
<1> QED BY <1>1, <1>2, <1>3 DEF Step

\* Nothing is read of no text.
LEMMA ScanOfNothing == Decoder!Scan(<<>>) = Nothing
<1>1. PICK g : g = (CHOOSE f : Scans(f, <<>>))
  OBVIOUS
<1>2. Scans(g, <<>>)
  <2>1. <<>> \in Seq({0})
    OBVIOUS
  <2> QED BY <1>1, <2>1, ScanExists
<1>3. DOMAIN <<>> = {} /\ {} \in SUBSET {}
  OBVIOUS
<1>4. g[{}] = Nothing
  BY <1>2, <1>3 DEF Scans, Step
<1> QED BY <1>1, <1>3, <1>4, ScanFolds

\* A text with one symbol more is read as the text, and then that symbol.
LEMMA ScanOfMore ==
    ASSUME NEW S, NEW text \in Seq(S), NEW b \in S
    PROVE  Decoder!Scan(Append(text, b)) = Read(Decoder!Scan(text), b)
<1> DEFINE more == Append(text, b)
<1>0. /\ more \in Seq(S) /\ Len(more) = Len(text) + 1 /\ Len(text) \in Nat
      /\ \A i \in 1 .. Len(text) : more[i] = text[i]
      /\ more[Len(text) + 1] = b
      /\ DOMAIN text = 1 .. Len(text) /\ DOMAIN more = 1 .. Len(text) + 1
  OBVIOUS
<1> HIDE DEF more
<1>1. PICK g : g = (CHOOSE f : Scans(f, text))
  OBVIOUS
<1>2. PICK h : h = (CHOOSE f : Scans(f, more))
  OBVIOUS
<1>3. Scans(g, text) /\ Scans(h, more)
  BY <1>0, <1>1, <1>2, ScanExists
<1> DEFINE T == {k \in Nat : k <= Len(text) => g[1 .. k] = h[1 .. k]}
<1>4. 0 \in T
  <2>1. 1 .. 0 = {} /\ {} \in SUBSET DOMAIN text /\ {} \in SUBSET DOMAIN more
    OBVIOUS
  <2>2. g[{}] = Nothing /\ h[{}] = Nothing
    BY <1>3, <2>1 DEF Scans, Step
  <2> QED BY <2>1, <2>2
<1>5. ASSUME NEW k \in Nat, k \in T PROVE k + 1 \in T
  <2> SUFFICES ASSUME k + 1 <= Len(text) PROVE g[1 .. k + 1] = h[1 .. k + 1]
    OBVIOUS
  <2>1. k < Len(text) /\ k < Len(more) /\ k <= Len(text) /\ k + 1 \in 1 .. Len(text)
    BY <1>0
  <2>2. g[1 .. k + 1] = Read(g[1 .. k], text[k + 1])
    BY <1>3, <2>1, ScanGrows
  <2>3. h[1 .. k + 1] = Read(h[1 .. k], more[k + 1])
    BY <1>0, <1>3, <2>1, ScanGrows
  <2> QED BY <1>0, <1>5, <2>1, <2>2, <2>3
<1>6. Nat \subseteq T
  <2> HIDE DEF T
  <2> QED BY <1>4, <1>5, Inductive
<1>7. g[1 .. Len(text)] = h[1 .. Len(text)]
  BY <1>0, <1>6
<1>8. h[1 .. Len(text) + 1] = Read(h[1 .. Len(text)], b)
  <2>1. Len(text) < Len(more)
    BY <1>0
  <2> QED BY <1>0, <1>3, <2>1, ScanGrows
<1>9. Decoder!Scan(text) = g[1 .. Len(text)] /\ Decoder!Scan(more) = h[1 .. Len(text) + 1]
  BY <1>0, <1>1, <1>2, ScanFolds
<1> QED BY <1>7, <1>8, <1>9 DEF more

------------------------------------------------------------------------------
(* The lines of a chunk.                                                   *)

Bytes == Seq(Decoder!Byte)
\* Where the first line ends, or 0.
Newlines(bytes) == {i \in 1 .. Len(bytes) : bytes[i] = Decoder!NL}
End(bytes) ==
    IF Newlines(bytes) # {}
    THEN CHOOSE x \in Newlines(bytes) : \A y \in Newlines(bytes) : x =< y ELSE 0
Line(bytes) == Decoder!process_line(SubSeq(bytes, 1, End(bytes) - 1))
Rest(bytes) == SubSeq(bytes, End(bytes) + 1, Len(bytes))
Cut(f, bytes) ==
    IF End(bytes) = 0 THEN [line_buf |-> bytes, items |-> <<>>]
    ELSE IF Line(bytes) = <<Decoder!Done>> THEN [line_buf |-> Rest(bytes), items |-> Line(bytes)]
    ELSE [line_buf |-> f[Rest(bytes)].line_buf, items |-> Line(bytes) \o f[Rest(bytes)].items]
Ingests(f, S) == f = [bytes \in S |-> Cut(f, bytes)]
Shorter(n) == {bytes \in Bytes : Len(bytes) < n}

\* The recursion of ingest.
LEMMA IngestCuts == Decoder!ingest = CHOOSE f : Ingests(f, Bytes)
BY DEF Decoder!ingest, Decoder!SelectInSeq, Decoder!Min, Ingests, Cut, Line, Rest, End,
       Newlines, Bytes

\* The first line ends at the first newline, and what comes after it is shorter.
LEMMA EndIsFirst ==
    ASSUME NEW bytes \in Bytes
    PROVE  /\ End(bytes) \in 0 .. Len(bytes)
           /\ End(bytes) = 0 <=> \A i \in 1 .. Len(bytes) : bytes[i] # Decoder!NL
           /\ End(bytes) # 0 => /\ bytes[End(bytes)] = Decoder!NL
                                /\ \A i \in 1 .. End(bytes) - 1 : bytes[i] # Decoder!NL
                                /\ Rest(bytes) \in Bytes
                                /\ Len(Rest(bytes)) = Len(bytes) - End(bytes)
                                /\ \A i \in 1 .. Len(Rest(bytes)) :
                                       Rest(bytes)[i] = bytes[End(bytes) + i]
<1>0. /\ Len(bytes) \in Nat
      /\ Newlines(bytes) \subseteq 1 .. Len(bytes) /\ Newlines(bytes) \subseteq Nat
  BY DEF Bytes, Newlines
<1>1. CASE Newlines(bytes) = {}
  <2>1. End(bytes) = 0
    BY <1>1 DEF End
  <2> QED BY <1>0, <1>1, <2>1 DEF Newlines
<1>2. CASE Newlines(bytes) # {}
  <2>1. \E x \in Newlines(bytes) : \A y \in Newlines(bytes) : x <= y
    BY <1>0, <1>2, LeastExists
  <2>2. End(bytes) \in Newlines(bytes) /\ \A y \in Newlines(bytes) : End(bytes) <= y
    BY <1>2, <2>1 DEF End
  <2>3. PICK e : e = End(bytes)
    OBVIOUS
  <2>4. e \in 1 .. Len(bytes) /\ e \in Nat /\ e # 0 /\ bytes[e] = Decoder!NL
    BY <1>0, <2>2, <2>3 DEF Newlines
  <2>5. ASSUME NEW i \in 1 .. e - 1 PROVE bytes[i] # Decoder!NL
    <3>1. i \in 1 .. Len(bytes) /\ ~ e <= i
      BY <1>0, <2>4
    <3> QED BY <2>2, <2>3, <3>1 DEF Newlines
  <2>6. PICK r : r = Rest(bytes)
    OBVIOUS
  <2>7. /\ r \in Bytes /\ Len(r) = Len(bytes) - e
        /\ \A i \in 1 .. Len(r) : r[i] = bytes[e + i]
    <3>0. r = SubSeq(bytes, e + 1, Len(bytes)) /\ bytes \in Seq(Decoder!Byte)
      BY <2>3, <2>6 DEF Rest, Bytes
    <3>1. e + 1 \in 1 .. Len(bytes) + 1 /\ Len(bytes) \in e .. Len(bytes)
      BY <1>0, <2>4
    <3>2. r \in Seq(Decoder!Byte) /\ Len(r) = Len(bytes) - e
      BY <1>0, <2>4, <3>0, <3>1
    <3>3. ASSUME NEW i \in 1 .. Len(r) PROVE r[i] = bytes[e + i]
      <4>1. r[i] = bytes[(e + 1) + i - 1] /\ (e + 1) + i - 1 = e + i
        BY <1>0, <2>4, <3>0, <3>2
      <4> QED BY <4>1
    <3> QED BY <3>2, <3>3 DEF Bytes
  <2> QED BY <1>0, <2>3, <2>4, <2>5, <2>6, <2>7
<1> QED BY <1>1, <1>2

\* What is cut of a text depends on shorter texts only.
LEMMA CutIsOfShorter ==
    ASSUME NEW f, NEW g, NEW bytes \in Bytes,
           End(bytes) # 0 => f[Rest(bytes)] = g[Rest(bytes)]
    PROVE  Cut(f, bytes) = Cut(g, bytes)
BY DEF Cut

\* The recursion has one value at most.
LEMMA IngestIsOne ==
    ASSUME NEW f, NEW g, NEW n \in Nat, NEW m \in Nat,
           Ingests(f, Shorter(n)), Ingests(g, Shorter(m))
    PROVE  \A bytes \in Shorter(n) \cap Shorter(m) : f[bytes] = g[bytes]
<1> DEFINE T == {k \in Nat : \A bytes \in Shorter(n) \cap Shorter(m) :
                               Len(bytes) < k => f[bytes] = g[bytes]}
<1>0. \A bytes \in Bytes : Len(bytes) \in Nat
  BY DEF Bytes
<1>1. 0 \in T
  BY <1>0 DEF Shorter
<1>2. ASSUME NEW k \in Nat, k \in T PROVE k + 1 \in T
  <2>1. ASSUME NEW bytes \in Shorter(n) \cap Shorter(m), Len(bytes) < k + 1
        PROVE  f[bytes] = g[bytes]
    <3>1. bytes \in Bytes /\ Len(bytes) \in Nat /\ Len(bytes) < n /\ Len(bytes) < m
      BY <1>0 DEF Shorter
    <3>2. f[bytes] = Cut(f, bytes) /\ g[bytes] = Cut(g, bytes)
      BY DEF Ingests
    <3>3. ASSUME End(bytes) # 0 PROVE f[Rest(bytes)] = g[Rest(bytes)]
      <4>1. PICK e : e = End(bytes)
        OBVIOUS
      <4>2. e \in 1 .. Len(bytes) /\ Rest(bytes) \in Bytes /\ Len(Rest(bytes)) = Len(bytes) - e
        BY <3>1, <3>3, <4>1, EndIsFirst
      <4>3. Len(bytes) - e < k /\ Len(bytes) - e < n /\ Len(bytes) - e < m
        BY <2>1, <3>1, <4>2
      <4>4. Rest(bytes) \in Shorter(n) \cap Shorter(m) /\ Len(Rest(bytes)) < k
        BY <4>2, <4>3 DEF Shorter
      <4> QED BY <1>2, <4>4
    <3> QED BY <3>1, <3>2, <3>3, CutIsOfShorter
  <2> QED BY <2>1
<1>3. Nat \subseteq T
  <2> HIDE DEF T
  <2> QED BY <1>1, <1>2, Inductive
<1>4. ASSUME NEW bytes \in Shorter(n) \cap Shorter(m) PROVE f[bytes] = g[bytes]
  <2>1. Len(bytes) \in Nat /\ Len(bytes) + 1 \in Nat /\ Len(bytes) < Len(bytes) + 1
    BY <1>0 DEF Shorter
  <2> QED BY <1>3, <2>1
<1> QED BY <1>4

\* The recursion has a value, for texts of any length.
LEMMA IngestExists == \E f : Ingests(f, Bytes)
<1> DEFINE T == {n \in Nat : \E f : Ingests(f, Shorter(n))}
<1>0. \A bytes \in Bytes : Len(bytes) \in Nat
  BY DEF Bytes
<1>1. 0 \in T
  <2>1. PICK f : f = [bytes \in {} |-> Nothing]
    OBVIOUS
  <2>2. Shorter(0) = {}
    BY <1>0 DEF Shorter
  <2> QED BY <2>1, <2>2 DEF Ingests
<1>2. ASSUME NEW n \in Nat, n \in T PROVE n + 1 \in T
  <2>1. PICK f : Ingests(f, Shorter(n))
    BY <1>2
  <2>2. PICK g : g = [bytes \in Shorter(n + 1) |-> Cut(f, bytes)]
    OBVIOUS
  <2>3. ASSUME NEW bytes \in Shorter(n + 1), End(bytes) # 0
        PROVE  f[Rest(bytes)] = g[Rest(bytes)]
    <3>1. bytes \in Bytes /\ Len(bytes) \in Nat /\ Len(bytes) < n + 1
      BY <1>0 DEF Shorter
    <3>2. PICK e : e = End(bytes)
      OBVIOUS
    <3>3. e \in 1 .. Len(bytes) /\ Rest(bytes) \in Bytes /\ Len(Rest(bytes)) = Len(bytes) - e
      BY <2>3, <3>1, <3>2, EndIsFirst
    <3>4. Len(bytes) - e < n /\ Len(bytes) - e < n + 1
      BY <3>1, <3>3
    <3>5. Rest(bytes) \in Shorter(n) /\ Rest(bytes) \in Shorter(n + 1)
      BY <3>3, <3>4 DEF Shorter
    <3>6. f[Rest(bytes)] = Cut(f, Rest(bytes)) /\ g[Rest(bytes)] = Cut(f, Rest(bytes))
      BY <2>1, <2>2, <3>5 DEF Ingests
    <3> QED BY <3>6
  <2>4. ASSUME NEW bytes \in Shorter(n + 1) PROVE Cut(f, bytes) = Cut(g, bytes)
    <3>1. bytes \in Bytes
      BY DEF Shorter
    <3> QED BY <2>3, <3>1, CutIsOfShorter
  <2>5. Ingests(g, Shorter(n + 1))
    BY <2>2, <2>4 DEF Ingests
  <2>6. n + 1 \in Nat
    OBVIOUS
  <2> QED BY <2>5, <2>6
<1>3. \A n \in Nat : \E f : Ingests(f, Shorter(n))
  <2>1. Nat \subseteq T
    <3> HIDE DEF T
    <3> QED BY <1>1, <1>2, Inductive
  <2> QED BY <2>1
<1>4. PICK F : F = [n \in Nat |-> CHOOSE f : Ingests(f, Shorter(n))]
  OBVIOUS
<1>5. \A n \in Nat : Ingests(F[n], Shorter(n))
  BY <1>3, <1>4
<1>6. PICK f : f = [bytes \in Bytes |-> F[Len(bytes) + 1][bytes]]
  OBVIOUS
<1>7. ASSUME NEW bytes \in Bytes PROVE f[bytes] = Cut(f, bytes)
  <2>1. PICK n : n = Len(bytes) + 1
    OBVIOUS
  <2>2. n \in Nat /\ Len(bytes) \in Nat /\ bytes \in Shorter(n)
    BY <1>0, <2>1 DEF Shorter
  <2>3. f[bytes] = Cut(F[n], bytes)
    BY <1>5, <1>6, <2>1, <2>2 DEF Ingests
  <2>4. ASSUME End(bytes) # 0 PROVE F[n][Rest(bytes)] = f[Rest(bytes)]
    <3>1. PICK e : e = End(bytes)
      OBVIOUS
    <3>2. PICK rest : rest = Rest(bytes)
      OBVIOUS
    <3>3. e \in 1 .. Len(bytes) /\ rest \in Bytes /\ Len(rest) = Len(bytes) - e /\ Len(rest) \in Nat
      BY <1>0, <2>2, <2>4, <3>1, <3>2, EndIsFirst
    <3>4. Len(rest) < n /\ Len(rest) + 1 \in Nat /\ Len(rest) < Len(rest) + 1
      BY <2>1, <2>2, <3>3
    <3>5. rest \in Shorter(n) \cap Shorter(Len(rest) + 1)
      BY <3>3, <3>4 DEF Shorter
    <3>6. F[n][rest] = F[Len(rest) + 1][rest]
      BY <1>5, <2>2, <3>4, <3>5, IngestIsOne
    <3> QED BY <1>6, <3>2, <3>3, <3>6
  <2> QED BY <2>3, <2>4, CutIsOfShorter
<1>8. Ingests(f, Bytes)
  BY <1>6, <1>7 DEF Ingests
<1> QED BY <1>8

\* ingest, line by line.
LEMMA Ingest == ASSUME NEW bytes \in Bytes PROVE Decoder!ingest[bytes] = Cut(Decoder!ingest, bytes)
<1>1. PICK f : f = Decoder!ingest
  OBVIOUS
<1>2. Ingests(f, Bytes)
  BY <1>1, IngestCuts, IngestExists
<1> QED BY <1>1, <1>2 DEF Ingests

------------------------------------------------------------------------------
(* Lines and texts.                                                        *)

\* What the scan of a text finds, and what a consumer may get.
Found == {Decoder!Done} \cup {Decoder!Data(payload) : payload \in Bytes}
Event == Found \cup {Decoder!Failed("Transport"), Decoder!Failed("StreamReset")}
Over(items) == Decoder!Contains(items, Decoder!Done)
Unbroken(text) == \A i \in 1 .. Len(text) : text[i] # Decoder!NL

\* A text of n symbols and one more.
Splits(n, more, front, b) ==
    /\ Len(front) = n /\ more = Append(front, b) /\ b = more[n + 1]
    /\ \A i \in 1 .. n : front[i] = more[i]
    /\ \A text \in Bytes : text \o more = Append(text \o front, b) /\ text \o front \in Bytes

\* A longer text is a shorter one and a symbol.
LEMMA Longer ==
    ASSUME NEW n \in Nat, NEW more \in Bytes, Len(more) = n + 1
    PROVE  \E front \in Bytes : \E b \in Decoder!Byte : Splits(n, more, front, b)
<1>1. more \in Seq(Decoder!Byte) /\ more # <<>>
  BY DEF Bytes
<1>2. PICK front : front = SubSeq(more, 1, n)
  OBVIOUS
<1>3. front \in Seq(Decoder!Byte) /\ Len(front) = n /\ \A i \in 1 .. n : front[i] = more[i]
  BY <1>1, <1>2
<1>4. PICK b \in Decoder!Byte : b = more[n + 1]
  BY <1>1
<1>5. more = Append(front, b)
  BY <1>1, <1>3, <1>4
<1>6. ASSUME NEW text \in Bytes
      PROVE  text \o more = Append(text \o front, b) /\ text \o front \in Bytes
  <2>1. text \in Seq(Decoder!Byte)
    BY DEF Bytes
  <2>2. text \o front \in Seq(Decoder!Byte)
    BY <1>3, <2>1
  <2>3. text \o Append(front, b) = Append(text \o front, b)
    BY <1>3, <1>4, <2>1, AppendIsConcat, ConcatAssociative
  <2> QED BY <1>5, <2>2, <2>3 DEF Bytes
<1>7. Splits(n, more, front, b)
  BY <1>3, <1>4, <1>5, <1>6 DEF Splits
<1>8. front \in Bytes
  BY <1>3 DEF Bytes
<1> QED BY <1>7, <1>8

\* A line holds one item or none.
LEMMA LineHolds ==
    ASSUME NEW line \in Bytes
    PROVE  /\ Decoder!process_line(line) \in Seq(Found)
           /\ Over(Decoder!process_line(line)) <=> Decoder!process_line(line) = <<Decoder!Done>>
<1>1. CASE Len(line) < 2 \/ Head(line) # "p"
  <2>1. Decoder!process_line(line) = <<>>
    BY <1>1 DEF Decoder!process_line
  <2> QED BY <2>1 DEF Over, Decoder!Contains
<1>2. CASE ~ (Len(line) < 2 \/ Head(line) # "p")
  <2>0. Tail(line) \in Bytes
    <3>1. line \in Seq(Decoder!Byte) /\ line # <<>>
      BY <1>2 DEF Bytes
    <3> QED BY <3>1 DEF Bytes
  <2>1. CASE Tail(line) = <<"D">>
    <3>1. Decoder!process_line(line) = <<Decoder!Done>>
      BY <1>2, <2>1 DEF Decoder!process_line
    <3>2. Decoder!Done \in Found
      BY DEF Found
    <3> QED BY <3>1, <3>2 DEF Over, Decoder!Contains
  <2>2. CASE Tail(line) # <<"D">>
    <3>1. Decoder!process_line(line) = <<Decoder!Data(Tail(line))>>
      BY <1>2, <2>2 DEF Decoder!process_line
    <3>2. Decoder!Data(Tail(line)) \in Found
      BY <2>0 DEF Found
    <3>3. Decoder!Data(Tail(line)) # Decoder!Done
      BY DEF Decoder!Data, Decoder!Done
    <3>4. ~ Over(<<Decoder!Data(Tail(line))>>)
      BY <3>3 DEF Over, Decoder!Contains
    <3> QED BY <3>1, <3>2, <3>3, <3>4
  <2> QED BY <2>1, <2>2
<1> QED BY <1>1, <1>2

\* The sentinel is in one of two sequences.
LEMMA OverEither ==
    ASSUME NEW s \in Seq(Event), NEW t \in Seq(Event)
    PROVE  Over(s \o t) <=> Over(s) \/ Over(t)
<1>1. Len(s \o t) = Len(s) + Len(t) /\ Len(s) \in Nat /\ Len(t) \in Nat
  OBVIOUS
<1>2. \A i \in 1 .. Len(s) : (s \o t)[i] = s[i]
  OBVIOUS
<1>3. \A i \in 1 .. Len(t) : (s \o t)[Len(s) + i] = t[i]
  OBVIOUS
<1>4. ASSUME NEW i \in 1 .. Len(s \o t), (s \o t)[i] = Decoder!Done PROVE Over(s) \/ Over(t)
  <2>1. CASE i \in 1 .. Len(s)
    BY <1>2, <1>4, <2>1 DEF Over, Decoder!Contains
  <2>2. CASE i \notin 1 .. Len(s)
    <3>1. i - Len(s) \in 1 .. Len(t) /\ Len(s) + (i - Len(s)) = i
      BY <1>1, <2>2
    <3> QED BY <1>3, <1>4, <3>1 DEF Over, Decoder!Contains
  <2> QED BY <2>1, <2>2
<1>5. ASSUME NEW i \in 1 .. Len(s), s[i] = Decoder!Done PROVE Over(s \o t)
  <2>1. i \in 1 .. Len(s \o t)
    BY <1>1
  <2> QED BY <1>2, <1>5, <2>1 DEF Over, Decoder!Contains
<1>6. ASSUME NEW i \in 1 .. Len(t), t[i] = Decoder!Done PROVE Over(s \o t)
  <2>1. Len(s) + i \in 1 .. Len(s \o t)
    BY <1>1
  <2> QED BY <1>3, <1>6, <2>1 DEF Over, Decoder!Contains
<1> QED BY <1>4, <1>5, <1>6 DEF Over, Decoder!Contains

\* What may have been read: items, and a line that has not ended.
Reading == {s \in [line : Bytes, items : Seq(Found)] : Unbroken(s.line)}

\* A line without a newline and the items before it are such a state.
LEMMA Readings ==
    ASSUME NEW line \in Bytes, NEW items \in Seq(Found), Unbroken(line)
    PROVE  [line |-> line, items |-> items] \in Reading
BY DEF Reading

\* One symbol more leaves such a state.
LEMMA ReadTyped ==
    ASSUME NEW s \in Reading, NEW b \in Decoder!Byte PROVE Read(s, b) \in Reading
<1>0. s.line \in Bytes /\ s.items \in Seq(Found) /\ s = [line |-> s.line, items |-> s.items]
  BY DEF Reading
<1>1. CASE Over(s.items)
  BY <1>1 DEF Read, Over
<1>2. CASE ~ Over(s.items) /\ b = Decoder!NL
  <2>1. Read(s, b) = [line |-> <<>>, items |-> s.items \o Decoder!process_line(s.line)]
    BY <1>2 DEF Read, Over
  <2>2. s.items \o Decoder!process_line(s.line) \in Seq(Found)
    BY <1>0, LineHolds
  <2>3. <<>> \in Bytes /\ Unbroken(<<>>)
    BY DEF Bytes, Unbroken
  <2> QED BY <2>1, <2>2, <2>3, Readings
<1>3. CASE ~ Over(s.items) /\ b # Decoder!NL
  <2>1. Read(s, b) = [line |-> Append(s.line, b), items |-> s.items]
    BY <1>0, <1>3 DEF Read, Over
  <2>2. Append(s.line, b) \in Bytes /\ Unbroken(Append(s.line, b))
    <3>1. s.line \in Seq(Decoder!Byte) /\ Unbroken(s.line)
      BY <1>0 DEF Bytes, Reading
    <3>2. /\ Append(s.line, b) \in Seq(Decoder!Byte)
          /\ \A i \in 1 .. Len(Append(s.line, b)) :
               Append(s.line, b)[i] = IF i <= Len(s.line) THEN s.line[i] ELSE b
      BY <3>1
    <3>3. Len(s.line) \in Nat /\ Len(Append(s.line, b)) = Len(s.line) + 1
      BY <3>1
    <3> QED BY <1>3, <3>1, <3>2, <3>3 DEF Unbroken, Bytes
  <2> QED BY <1>0, <2>1, <2>2, Readings
<1> QED BY <1>1, <1>2, <1>3

\* Induction over the length of a text.
LEMMA ScanTyped == ASSUME NEW text \in Bytes PROVE Decoder!Scan(text) \in Reading
<1> DEFINE T == {n \in Nat : \A t \in Bytes : Len(t) = n => Decoder!Scan(t) \in Reading}
<1>1. 0 \in T
  <2>1. \A t \in Bytes : Len(t) = 0 => t = <<>>
    BY DEF Bytes
  <2>2. Nothing \in Reading
    <3>1. <<>> \in Bytes /\ Unbroken(<<>>) /\ <<>> \in Seq(Found)
      BY DEF Bytes, Unbroken
    <3> QED BY <3>1 DEF Nothing, Reading
  <2> QED BY <2>1, <2>2, ScanOfNothing
<1>2. ASSUME NEW n \in Nat, n \in T PROVE n + 1 \in T
  <2>1. ASSUME NEW t \in Bytes, Len(t) = n + 1 PROVE Decoder!Scan(t) \in Reading
    <3>0. PICK front \in Bytes : \E b \in Decoder!Byte : Splits(n, t, front, b)
      BY <2>1, Longer
    <3>1. PICK b \in Decoder!Byte : Len(front) = n /\ t = Append(front, b)
      BY <3>0 DEF Splits
    <3>2. Decoder!Scan(front) \in Reading
      BY <1>2, <3>1
    <3>3. Decoder!Scan(t) = Read(Decoder!Scan(front), b)
      BY <3>1, ScanOfMore DEF Bytes
    <3> QED BY <3>2, <3>3, ReadTyped
  <2> QED BY <2>1
<1>3. Nat \subseteq T
  <2> HIDE DEF T
  <2> QED BY <1>1, <1>2, Inductive
<1>4. Len(text) \in Nat
  BY DEF Bytes
<1> QED BY <1>3, <1>4

\* After the sentinel nothing is read.
LEMMA NothingAfterDone ==
    ASSUME NEW text \in Bytes, Over(Decoder!Scan(text).items)
    PROVE  \A more \in Bytes : Decoder!Scan(text \o more) = Decoder!Scan(text)
<1> DEFINE T == {n \in Nat : \A more \in Bytes : Len(more) = n =>
                               Decoder!Scan(text \o more) = Decoder!Scan(text)}
<1>1. 0 \in T
  <2>1. \A more \in Bytes : Len(more) = 0 => text \o more = text
    BY DEF Bytes
  <2> QED BY <2>1
<1>2. ASSUME NEW n \in Nat, n \in T PROVE n + 1 \in T
  <2>1. ASSUME NEW more \in Bytes, Len(more) = n + 1
        PROVE  Decoder!Scan(text \o more) = Decoder!Scan(text)
    <3>0. PICK front \in Bytes : \E b \in Decoder!Byte : Splits(n, more, front, b)
      BY <2>1, Longer
    <3>1. PICK b \in Decoder!Byte :
            Len(front) = n /\ text \o more = Append(text \o front, b) /\ text \o front \in Bytes
      BY <3>0 DEF Splits
    <3>2. Decoder!Scan(text \o front) = Decoder!Scan(text)
      BY <1>2, <3>1
    <3>3. Decoder!Scan(text \o more) = Read(Decoder!Scan(text \o front), b)
      BY <3>1, ScanOfMore DEF Bytes
    <3> QED BY <3>2, <3>3 DEF Read, Over
  <2> QED BY <2>1
<1>3. Nat \subseteq T
  <2> HIDE DEF T
  <2> QED BY <1>1, <1>2, Inductive
<1>4. \A more \in Bytes : Len(more) \in Nat
  BY DEF Bytes
<1> QED BY <1>3, <1>4

\* What ends no line only makes it longer.
LEMMA LineGrows ==
    ASSUME NEW text \in Bytes, ~ Over(Decoder!Scan(text).items), NEW more \in Bytes, Unbroken(more)
    PROVE  Decoder!Scan(text \o more) = [line |-> Decoder!Scan(text).line \o more,
                                         items |-> Decoder!Scan(text).items]
<1> DEFINE s == Decoder!Scan(text)
           Grown(m) == Decoder!Scan(text \o m) = [line |-> s.line \o m, items |-> s.items]
           T == {n \in Nat : \A m \in Bytes : Len(m) = n /\ Unbroken(m) => Grown(m)}
<1>0. s \in Reading /\ s.line \in Bytes /\ s = [line |-> s.line, items |-> s.items]
  BY ScanTyped DEF Reading
<1> HIDE DEF s
<1>1. 0 \in T
  <2>1. \A m \in Bytes : Len(m) = 0 => text \o m = text /\ s.line \o m = s.line
    BY <1>0 DEF Bytes
  <2> QED BY <1>0, <2>1 DEF s
<1>2. ASSUME NEW n \in Nat, n \in T PROVE n + 1 \in T
  <2>1. ASSUME NEW m \in Bytes, Len(m) = n + 1, Unbroken(m) PROVE Grown(m)
    <3>0. PICK front \in Bytes : \E b \in Decoder!Byte : Splits(n, m, front, b)
      BY <2>1, Longer
    <3>1. PICK b \in Decoder!Byte :
            /\ Len(front) = n /\ b = m[n + 1] /\ \A i \in 1 .. n : front[i] = m[i]
            /\ \A t \in Bytes : t \o m = Append(t \o front, b) /\ t \o front \in Bytes
      BY <3>0 DEF Splits
    <3>2. Unbroken(front) /\ b # Decoder!NL
      BY <2>1, <3>1 DEF Unbroken
    <3>3. Decoder!Scan(text \o front) = [line |-> s.line \o front, items |-> s.items]
      BY <1>2, <3>1, <3>2
    <3>4. Decoder!Scan(text \o m) = Read(Decoder!Scan(text \o front), b)
      BY <3>1, ScanOfMore DEF Bytes
    <3>5. Decoder!Scan(text \o m) = [line |-> Append(s.line \o front, b), items |-> s.items]
      <4>1. PICK r : r = [line |-> s.line \o front, items |-> s.items]
        OBVIOUS
      <4>2. ~ Over(r.items)
        BY <4>1 DEF s
      <4>3. Read(r, b) = [r EXCEPT !.line = Append(@, b)]
        BY <3>2, <4>2 DEF Read, Over
      <4>4. [r EXCEPT !.line = Append(@, b)] =
              [line |-> Append(s.line \o front, b), items |-> s.items]
        <5>1. PICK l : l = s.line \o front
          OBVIOUS
        <5>2. PICK i : i = s.items
          OBVIOUS
        <5>3. r = [line |-> l, items |-> i]
          BY <4>1, <5>1, <5>2
        <5>4. [r EXCEPT !.line = Append(@, b)] = [line |-> Append(l, b), items |-> i]
          BY <5>3
        <5> QED BY <5>1, <5>2, <5>4
      <4> QED BY <3>3, <3>4, <4>1, <4>3, <4>4
    <3>6. s.line \o m = Append(s.line \o front, b)
      BY <1>0, <3>1
    <3> QED BY <3>5, <3>6
  <2> QED BY <2>1
<1>3. Nat \subseteq T
  <2> HIDE DEF T
  <2> QED BY <1>1, <1>2, Inductive
<1>4. Len(more) \in Nat
  BY DEF Bytes
<1>5. Grown(more)
  BY <1>3, <1>4
<1> QED BY <1>5 DEF s

\* A chunk that ends the line that is being read: what is before, and what is after.
LEMMA ChunkEndsLine ==
    ASSUME NEW line \in Bytes, Unbroken(line), NEW more \in Bytes, End(line \o more) # 0
    PROVE  \E head \in Bytes, tail \in Bytes :
             /\ Unbroken(head) /\ Len(tail) < Len(more)
             /\ Rest(line \o more) = tail
             /\ Line(line \o more) = Decoder!process_line(line \o head)
             /\ \A text \in Bytes : /\ Append(text \o head, Decoder!NL) \in Bytes
                                    /\ text \o more = Append(text \o head, Decoder!NL) \o tail
<1>0. line \in Seq(Decoder!Byte) /\ more \in Seq(Decoder!Byte) /\ Decoder!NL \in Decoder!Byte
  <2>1. Decoder!NL \in Decoder!Byte
    BY DEF Decoder!NL, Decoder!Byte
  <2> QED BY <2>1 DEF Bytes
<1>1. PICK l \in Nat : l = Len(line)
  BY <1>0
<1>2. PICK m \in Nat : m = Len(more)
  BY <1>0
<1>3. PICK bytes \in Bytes : bytes = line \o more
  <2>1. line \o more \in Seq(Decoder!Byte)
    BY <1>0
  <2> QED BY <2>1 DEF Bytes
<1>4. /\ Len(bytes) = l + m /\ \A i \in 1 .. l : bytes[i] = line[i]
      /\ \A i \in 1 .. m : bytes[l + i] = more[i]
  <2>1. /\ Len(bytes) = l + m
        /\ \A i \in 1 .. l + m : bytes[i] = IF i <= l THEN line[i] ELSE more[i - l]
    BY <1>0, <1>1, <1>2, <1>3, ConcatProperties
  <2>2. \A i \in 1 .. l : i \in 1 .. l + m /\ i <= l
    OBVIOUS
  <2>3. \A i \in 1 .. m : l + i \in 1 .. l + m /\ ~ (l + i <= l) /\ (l + i) - l = i
    OBVIOUS
  <2> QED BY <2>1, <2>2, <2>3
<1>5. PICK e : e = End(bytes)
  OBVIOUS
<1>6. /\ e \in 1 .. l + m /\ bytes[e] = Decoder!NL
      /\ \A i \in 1 .. e - 1 : bytes[i] # Decoder!NL
      /\ Rest(bytes) \in Bytes /\ Len(Rest(bytes)) = (l + m) - e
      /\ \A i \in 1 .. Len(Rest(bytes)) : Rest(bytes)[i] = bytes[e + i]
  <2>1. End(bytes) \in 0 .. Len(bytes) /\ End(bytes) # 0
    BY <1>3, EndIsFirst
  <2>2. e \in 1 .. l + m
    BY <1>4, <1>5, <2>1
  <2>3. /\ bytes[End(bytes)] = Decoder!NL
        /\ \A i \in 1 .. End(bytes) - 1 : bytes[i] # Decoder!NL
        /\ Rest(bytes) \in Bytes /\ Len(Rest(bytes)) = Len(bytes) - End(bytes)
        /\ \A i \in 1 .. Len(Rest(bytes)) : Rest(bytes)[i] = bytes[End(bytes) + i]
    BY <2>1, EndIsFirst
  <2> QED BY <1>4, <1>5, <2>2, <2>3
<1>7. e \in l + 1 .. l + m
  <2> SUFFICES ASSUME e \in 1 .. l PROVE FALSE
    BY <1>6
  <2> QED BY <1>1, <1>4, <1>6 DEF Unbroken
<1>8. PICK k \in Nat : k = e - l - 1
  BY <1>7
<1>9. k < m /\ e = l + k + 1
  BY <1>7, <1>8
<1>10. PICK head : head = SubSeq(more, 1, k)
  OBVIOUS
<1>11. /\ head \in Seq(Decoder!Byte) /\ Len(head) = k /\ \A i \in 1 .. k : head[i] = more[i]
  BY <1>0, <1>2, <1>9, <1>10
<1>12. PICK tail \in Seq(Decoder!Byte) : tail = Rest(bytes)
  BY <1>6 DEF Bytes
<1>13. /\ Len(tail) = m - (k + 1)
       /\ \A i \in 1 .. Len(tail) : tail[i] = more[k + 1 + i]
  <2>1. Len(tail) = m - (k + 1)
    BY <1>6, <1>9, <1>12
  <2>2. ASSUME NEW i \in 1 .. Len(tail) PROVE tail[i] = more[k + 1 + i]
    <3>1. k + 1 + i \in 1 .. m /\ e + i = l + (k + 1 + i)
      BY <1>9, <2>1
    <3> QED BY <1>4, <1>6, <1>12, <3>1
  <2> QED BY <2>1, <2>2
<1>14. more[k + 1] = Decoder!NL /\ Unbroken(head)
  <2>1. k + 1 \in 1 .. m /\ e = l + (k + 1)
    BY <1>9
  <2>2. ASSUME NEW i \in 1 .. k PROVE head[i] # Decoder!NL
    <3>1. i \in 1 .. m /\ l + i \in 1 .. e - 1
      BY <1>9
    <3> QED BY <1>4, <1>6, <1>11, <3>1
  <2> QED BY <1>4, <1>6, <1>11, <2>1, <2>2 DEF Unbroken
<1>15. SubSeq(bytes, 1, e - 1) = line \o head
  <2>1. bytes \in Seq(Decoder!Byte) /\ e - 1 \in Nat /\ e - 1 = l + k /\ l + k <= l + m
    BY <1>9 DEF Bytes
  <2>2. PICK before : before = SubSeq(bytes, 1, e - 1)
    OBVIOUS
  <2>3. /\ before \in Seq(Decoder!Byte) /\ Len(before) = l + k
        /\ \A i \in 1 .. l + k : before[i] = bytes[i]
    BY <1>4, <2>1, <2>2
  <2>4. /\ line \o head \in Seq(Decoder!Byte) /\ Len(line \o head) = l + k
        /\ \A i \in 1 .. l : (line \o head)[i] = line[i]
        /\ \A i \in 1 .. k : (line \o head)[l + i] = head[i]
    <3>1. line \o head \in Seq(Decoder!Byte) /\ Len(line \o head) = l + k
      <4>1. head \in Seq(Decoder!Byte) /\ Len(head) = k
        BY <1>11
      <4>2. line \o head \in Seq(Decoder!Byte) /\ Len(line \o head) = Len(line) + Len(head)
        BY <1>0, <4>1, ConcatProperties
      <4> QED BY <1>1, <4>1, <4>2
    <3>2. ASSUME NEW i \in 1 .. l PROVE (line \o head)[i] = line[i]
      <4>1. i \in 1 .. Len(line) + Len(head) /\ i <= Len(line)
        BY <1>1, <1>11
      <4> QED BY <1>0, <1>11, <4>1, ConcatProperties
    <3>3. ASSUME NEW i \in 1 .. k PROVE (line \o head)[l + i] = head[i]
      <4>1. /\ l + i \in 1 .. Len(line) + Len(head)
            /\ ~ (l + i <= Len(line)) /\ (l + i) - Len(line) = i
        BY <1>1, <1>11
      <4> QED BY <1>0, <1>11, <4>1, ConcatProperties
    <3> QED BY <3>1, <3>2, <3>3
  <2>5. ASSUME NEW i \in 1 .. l + k PROVE before[i] = (line \o head)[i]
    <3>1. CASE i \in 1 .. l
      BY <1>4, <2>3, <2>4, <3>1
    <3>2. CASE i \notin 1 .. l
      <4>1. PICK j \in Int : j = i - l
        OBVIOUS
      <4>2. j \in 1 .. k /\ j \in 1 .. m /\ l + j = i
        BY <1>9, <3>2, <4>1
      <4>3. before[i] = more[j] /\ (line \o head)[i] = head[j]
        BY <1>4, <2>3, <2>4, <4>2
      <4> QED BY <1>11, <4>2, <4>3
    <3> QED BY <3>1, <3>2
  <2>6. before = line \o head
    BY <2>3, <2>4, <2>5, SeqEqual
  <2> QED BY <2>2, <2>6
<1>16. ASSUME NEW text \in Bytes
       PROVE  /\ Append(text \o head, Decoder!NL) \in Bytes
              /\ text \o more = Append(text \o head, Decoder!NL) \o tail
  <2>1. PICK t \in Nat : t = Len(text)
    BY DEF Bytes
  <2>2. PICK u : u = Append(text \o head, Decoder!NL)
    OBVIOUS
  <2>3. text \in Seq(Decoder!Byte) /\ text \o head \in Seq(Decoder!Byte)
    BY <1>11 DEF Bytes
  <2>4. /\ Len(text \o head) = t + k /\ \A i \in 1 .. t : (text \o head)[i] = text[i]
        /\ \A i \in 1 .. k : (text \o head)[t + i] = head[i]
    BY <1>11, <2>1, <2>3
  <2>5. u \in Seq(Decoder!Byte) /\ Len(u) = t + k + 1 /\ u[t + k + 1] = Decoder!NL
        /\ \A i \in 1 .. t + k : u[i] = (text \o head)[i]
    <3>1. PICK w \in Seq(Decoder!Byte) : w = text \o head
      BY <2>3
    <3>2. u = Append(w, Decoder!NL) /\ Len(w) = t + k
      BY <2>2, <2>4, <3>1
    <3>3. u \in Seq(Decoder!Byte) /\ Len(u) = t + k + 1 /\ u[t + k + 1] = Decoder!NL
      <4>1. u \in Seq(Decoder!Byte) /\ Len(u) = Len(w) + 1 /\ u[Len(w) + 1] = Decoder!NL
        BY <1>0, <3>2, AppendProperties
      <4> QED BY <3>2, <4>1
    <3>4. \A i \in 1 .. t + k : u[i] = w[i]
      <4>1. \A i \in 1 .. Len(w) : Append(w, Decoder!NL)[i] = w[i]
        BY <1>0, AppendProperties
      <4> QED BY <3>2, <4>1
    <3> QED BY <3>1, <3>3, <3>4
  <2>6. PICK v : v = u \o tail
    OBVIOUS
  <2>7. /\ v \in Seq(Decoder!Byte) /\ Len(v) = t + m
        /\ \A i \in 1 .. t + k + 1 : v[i] = u[i]
        /\ \A i \in 1 .. Len(tail) : v[t + k + 1 + i] = tail[i]
    <3>1. /\ v \in Seq(Decoder!Byte) /\ Len(v) = Len(u) + Len(tail)
          /\ \A i \in 1 .. Len(u) + Len(tail) :
                 v[i] = IF i <= Len(u) THEN u[i] ELSE tail[i - Len(u)]
      BY <1>12, <2>5, <2>6, ConcatProperties
    <3>2. PICK c \in Nat : c = t + k + 1
      OBVIOUS
    <3>3. PICK d \in Nat : d = Len(tail)
      BY <1>12
    <3>4. \A i \in 1 .. c + d : v[i] = IF i <= c THEN u[i] ELSE tail[i - c]
      BY <2>5, <3>1, <3>2, <3>3
    <3>5. \A i \in 1 .. c : i \in 1 .. c + d /\ i <= c
      OBVIOUS
    <3>6. \A i \in 1 .. d : c + i \in 1 .. c + d /\ ~ (c + i <= c) /\ (c + i) - c = i
      OBVIOUS
    <3>7. c + d = t + m
      BY <1>9, <1>13, <3>2, <3>3
    <3>8. \A i \in 1 .. c : v[i] = u[i]
      BY <3>4, <3>5
    <3>9. \A i \in 1 .. d : v[c + i] = tail[i]
      BY <3>4, <3>6
    <3> QED BY <2>5, <3>1, <3>2, <3>3, <3>7, <3>8, <3>9
  <2>8. PICK w : w = text \o more
    OBVIOUS
  <2>9. /\ w \in Seq(Decoder!Byte) /\ Len(w) = t + m
        /\ \A i \in 1 .. t : w[i] = text[i] /\ \A j \in 1 .. m : w[t + j] = more[j]
    <3>1. /\ w \in Seq(Decoder!Byte) /\ Len(w) = t + m
          /\ \A i \in 1 .. t : w[i] = text[i]
      BY <1>0, <1>2, <2>1, <2>3, <2>8
    <3>2. \A j \in 1 .. m : w[t + j] = more[j]
      BY <1>0, <1>2, <2>1, <2>3, <2>8
    <3> QED BY <3>1, <3>2
  <2>10. \A j \in 1 .. m : w[t + j] = more[j]
    BY <1>0, <1>2, <2>1, <2>3, <2>8
  <2>11. ASSUME NEW i \in 1 .. t + m PROVE w[i] = v[i]
    <3>1. CASE i \in 1 .. t
      <4>1. i \in 1 .. t + k /\ i \in 1 .. t + k + 1
        BY <3>1
      <4> QED BY <2>4, <2>5, <2>7, <2>9, <3>1, <4>1
    <3>2. CASE i \in t + 1 .. t + k
      <4>1. /\ i - t \in 1 .. k /\ i - t \in 1 .. m /\ t + (i - t) = i
            /\ i \in 1 .. t + k /\ i \in 1 .. t + k + 1
        BY <1>9, <3>2
      <4>2. w[i] = more[i - t] /\ v[i] = head[i - t]
        BY <2>4, <2>5, <2>7, <2>10, <4>1
      <4> QED BY <1>11, <4>1, <4>2
    <3>3. CASE i = t + k + 1
      <4>1. k + 1 \in 1 .. m /\ t + (k + 1) = i /\ i \in 1 .. t + k + 1
        BY <1>9, <3>3
      <4>2. w[i] = more[k + 1]
        BY <2>10, <4>1
      <4>3. v[i] = u[t + k + 1]
        BY <2>7, <3>3, <4>1
      <4> QED BY <1>14, <2>5, <4>2, <4>3
    <3>4. CASE i \in t + k + 2 .. t + m
      <4>1. PICK j \in Int : j = i - (t + k + 1)
        OBVIOUS
      <4>2. /\ j \in 1 .. Len(tail) /\ t + k + 1 + j = i
            /\ k + 1 + j \in 1 .. m /\ t + (k + 1 + j) = i
        BY <1>9, <1>13, <3>4, <4>1
      <4>3. w[i] = more[k + 1 + j] /\ v[i] = tail[j]
        BY <2>7, <2>10, <4>2
      <4> QED BY <1>13, <4>2, <4>3
    <3> QED BY <3>1, <3>2, <3>3, <3>4
  <2>12. w = v
    BY <2>7, <2>9, <2>11, SeqEqual
  <2> QED BY <2>2, <2>5, <2>6, <2>8, <2>12 DEF Bytes
<1>17. Line(bytes) = Decoder!process_line(line \o head)
  BY <1>5, <1>15 DEF Line
<1>18. Len(tail) < m
  BY <1>9, <1>13
<1> QED BY <1>2, <1>3, <1>11, <1>12, <1>14, <1>16, <1>17, <1>18 DEF Bytes

\* What ingest makes of a chunk after a text is what the scan makes of it.
Agrees(text, more) ==
    LET in == Decoder!ingest[Decoder!Scan(text).line \o more] s == Decoder!Scan(text \o more) IN
    /\ in.items \in Seq(Found) /\ in.line_buf \in Bytes
    /\ s.items = Decoder!Scan(text).items \o in.items
    /\ ~ Over(in.items) => s.line = in.line_buf

\* What that comes to, with both results named.
LEMMA AgreesWhen ==
    ASSUME NEW text, NEW more, NEW s, s = Decoder!Scan(text),
           NEW in, in = Decoder!ingest[s.line \o more], NEW z, z = Decoder!Scan(text \o more),
           in.items \in Seq(Found), in.line_buf \in Bytes, z.items = s.items \o in.items,
           ~ Over(in.items) => z.line = in.line_buf
    PROVE  Agrees(text, more)
BY DEF Agrees

\* One line of it.
LEMMA IngestStep ==
    ASSUME NEW text \in Bytes, NEW more \in Bytes, ~ Over(Decoder!Scan(text).items),
           \A t, u \in Bytes : Len(u) < Len(more) /\ ~ Over(Decoder!Scan(t).items) => Agrees(t, u)
    PROVE  Agrees(text, more)
<1>1. PICK s : s = Decoder!Scan(text)
  OBVIOUS
<1>2. s \in Reading /\ s.line \in Bytes /\ Unbroken(s.line) /\ s.items \in Seq(Found)
  BY <1>1, ScanTyped DEF Reading
<1>3. PICK bytes \in Bytes : bytes = s.line \o more
  <2>1. s.line \in Seq(Decoder!Byte) /\ more \in Seq(Decoder!Byte)
    BY <1>2 DEF Bytes
  <2>2. s.line \o more \in Seq(Decoder!Byte)
    BY <2>1
  <2> QED BY <2>2 DEF Bytes
<1>4. PICK in : in = Decoder!ingest[bytes]
  OBVIOUS
<1>5. in = Cut(Decoder!ingest, bytes)
  BY <1>4, Ingest
<1>6. CASE End(bytes) = 0
  <2>1. in = [line_buf |-> bytes, items |-> <<>>]
    BY <1>5, <1>6 DEF Cut
  <2>2. Unbroken(more)
    <3>1. \A i \in 1 .. Len(bytes) : bytes[i] # Decoder!NL
      BY <1>6, EndIsFirst
    <3>2. /\ Len(bytes) = Len(s.line) + Len(more) /\ Len(s.line) \in Nat /\ Len(more) \in Nat
          /\ \A i \in 1 .. Len(more) : bytes[Len(s.line) + i] = more[i]
      BY <1>2, <1>3 DEF Bytes
    <3>3. ASSUME NEW i \in 1 .. Len(more) PROVE more[i] # Decoder!NL
      <4>1. Len(s.line) + i \in 1 .. Len(bytes)
        BY <3>2
      <4> QED BY <3>1, <3>2, <4>1
    <3> QED BY <3>3 DEF Unbroken
  <2>3. Decoder!Scan(text \o more) = [line |-> bytes, items |-> s.items]
    BY <1>1, <1>3, <2>2, LineGrows
  <2>4. s.items \o <<>> = s.items
    BY <1>2
  <2>5. <<>> \in Seq(Found) /\ bytes \in Bytes
    OBVIOUS
  <2>6. PICK z : z = Decoder!Scan(text \o more)
    OBVIOUS
  <2>7. /\ in.items = <<>> /\ in.line_buf = bytes /\ z.items = s.items /\ z.line = bytes
    BY <2>1, <2>3, <2>6
  <2>8. in = Decoder!ingest[s.line \o more]
    BY <1>3, <1>4
  <2> QED BY <1>1, <2>4, <2>5, <2>6, <2>7, <2>8, AgreesWhen
<1>7. CASE End(bytes) # 0
  <2>0. End(s.line \o more) # 0
    BY <1>3, <1>7
  <2>1. PICK head \in Bytes, tail \in Bytes :
             /\ Unbroken(head) /\ Len(tail) < Len(more)
             /\ Rest(bytes) = tail
             /\ Line(bytes) = Decoder!process_line(s.line \o head)
             /\ \A t \in Bytes : /\ Append(t \o head, Decoder!NL) \in Bytes
                                 /\ t \o more = Append(t \o head, Decoder!NL) \o tail
    <3>1. s.line \in Bytes /\ Unbroken(s.line)
      BY <1>2
    <3>2. \E head \in Bytes, tail \in Bytes :
             /\ Unbroken(head) /\ Len(tail) < Len(more)
             /\ Rest(s.line \o more) = tail
             /\ Line(s.line \o more) = Decoder!process_line(s.line \o head)
             /\ \A t \in Bytes : /\ Append(t \o head, Decoder!NL) \in Bytes
                                 /\ t \o more = Append(t \o head, Decoder!NL) \o tail
      BY <2>0, <3>1, ChunkEndsLine
    <3> QED BY <1>3, <3>2
  <2>2. PICK item : item = Line(bytes)
    OBVIOUS
  <2>3. s.line \o head \in Bytes
    BY <1>2, <2>1 DEF Bytes
  <2>4. item \in Seq(Found) /\ (Over(item) <=> item = <<Decoder!Done>>)
    BY <2>1, <2>2, <2>3, LineHolds
  <2>5. PICK next \in Bytes :
          next = Append(text \o head, Decoder!NL) /\ text \o more = next \o tail
    BY <2>1
  <2>6. Decoder!Scan(text \o head) = [line |-> s.line \o head, items |-> s.items]
    BY <1>1, <2>1, LineGrows
  <2>7. Decoder!Scan(next) = [line |-> <<>>, items |-> s.items \o item]
    <3>1. text \o head \in Seq(Decoder!Byte) /\ Decoder!NL \in Decoder!Byte
      BY <2>1 DEF Bytes, Decoder!NL, Decoder!Byte
    <3>2. Decoder!Scan(next) = Read([line |-> s.line \o head, items |-> s.items], Decoder!NL)
      BY <2>5, <2>6, <3>1, ScanOfMore
    <3> QED BY <1>1, <2>1, <2>2, <3>2 DEF Read, Over
  <2>8. s.items \in Seq(Event) /\ item \in Seq(Event)
    BY <1>2, <2>4, SeqMonotonic DEF Event
  <2>9. Over(s.items \o item) <=> Over(item)
    BY <1>1, <2>8, OverEither
  <2>10. CASE item = <<Decoder!Done>>
    <3>1. in = [line_buf |-> tail, items |-> item]
      BY <1>5, <1>7, <2>1, <2>2, <2>10 DEF Cut
    <3>2. Decoder!Scan(text \o more) = Decoder!Scan(next)
      <4>1. Over(Decoder!Scan(next).items)
        BY <2>4, <2>7, <2>9, <2>10
      <4> QED BY <2>5, <4>1, NothingAfterDone
    <3>3. PICK z : z = Decoder!Scan(text \o more)
      OBVIOUS
    <3>4. in = Decoder!ingest[s.line \o more]
      BY <1>3, <1>4
    <3>5. in.items = item /\ in.line_buf = tail /\ z.items = s.items \o item /\ Over(item)
      <4>1. in.items = item /\ in.line_buf = tail
        BY <3>1
      <4>2. z.items = s.items \o item
        BY <2>7, <3>2, <3>3
      <4> QED BY <2>4, <2>10, <4>1, <4>2
    <3> QED BY <1>1, <2>4, <3>3, <3>4, <3>5, AgreesWhen
  <2>11. CASE item # <<Decoder!Done>>
    <3>1. PICK in2 : in2 = Decoder!ingest[tail]
      OBVIOUS
    <3>2. in = [line_buf |-> in2.line_buf, items |-> item \o in2.items]
      BY <1>5, <1>7, <2>1, <2>2, <2>11, <3>1 DEF Cut
    <3>3. Agrees(next, tail)
      <4>1. ~ Over(Decoder!Scan(next).items)
        BY <2>4, <2>7, <2>9, <2>11
      <4> QED BY <2>1, <4>1
    <3>4. <<>> \o tail = tail
      BY DEF Bytes
    <3>5. PICK z : z = Decoder!Scan(text \o more)
      OBVIOUS
    <3>6. /\ in2.items \in Seq(Found) /\ in2.line_buf \in Bytes
          /\ z.items = (s.items \o item) \o in2.items
          /\ ~ Over(in2.items) => z.line = in2.line_buf
      <4>1. Decoder!ingest[Decoder!Scan(next).line \o tail] = in2
        BY <2>7, <3>1, <3>4
      <4>2. Decoder!Scan(next \o tail) = z /\ Decoder!Scan(next).items = s.items \o item
        BY <2>5, <2>7, <3>5
      <4> QED BY <3>3, <4>1, <4>2 DEF Agrees
    <3>7. item \o in2.items \in Seq(Found) /\ z.items = s.items \o (item \o in2.items)
      <4>1. (s.items \o item) \o in2.items = s.items \o (item \o in2.items)
        <5>1. PICK a \in Seq(Found) : a = s.items
          BY <1>2
        <5>2. PICK c \in Seq(Found) : c = in2.items
          BY <3>6
        <5>3. (a \o item) \o c = a \o (item \o c)
          BY <2>4
        <5> QED BY <5>1, <5>2, <5>3
      <4>2. item \o in2.items \in Seq(Found)
        BY <2>4, <3>6
      <4> QED BY <3>6, <4>1, <4>2
    <3>8. in2.items \in Seq(Event)
      BY <3>6, SeqMonotonic DEF Event
    <3>9. ~ Over(item \o in2.items) => z.line = in2.line_buf
      BY <2>8, <3>6, <3>8, OverEither
    <3>10. in = Decoder!ingest[s.line \o more]
      BY <1>3, <1>4
    <3>11. in.items = item \o in2.items /\ in.line_buf = in2.line_buf
      BY <3>2
    <3> QED BY <1>1, <3>5, <3>6, <3>7, <3>9, <3>10, <3>11, AgreesWhen
  <2> QED BY <2>10, <2>11
<1> QED BY <1>6, <1>7

\* All of it.
LEMMA IngestReads ==
    ASSUME NEW text \in Bytes, NEW more \in Bytes, ~ Over(Decoder!Scan(text).items)
    PROVE  Agrees(text, more)
<1> DEFINE T == {n \in Nat : \A t, u \in Bytes :
                               Len(u) < n /\ ~ Over(Decoder!Scan(t).items) => Agrees(t, u)}
<1>0. \A u \in Bytes : Len(u) \in Nat
  BY DEF Bytes
<1>1. 0 \in T
  BY <1>0
<1>2. ASSUME NEW n \in Nat, n \in T PROVE n + 1 \in T
  <2>1. ASSUME NEW t \in Bytes, NEW u \in Bytes, Len(u) < n + 1, ~ Over(Decoder!Scan(t).items)
        PROVE  Agrees(t, u)
    <3>1. \A v \in Bytes : Len(v) < Len(u) => Len(v) < n
      BY <1>0, <2>1
    <3>2. \A t2, v \in Bytes : Len(v) < Len(u) /\ ~ Over(Decoder!Scan(t2).items) => Agrees(t2, v)
      BY <1>2, <3>1
    <3> QED BY <2>1, <3>2, IngestStep
  <2> QED BY <2>1
<1>3. Nat \subseteq T
  <2> HIDE DEF T
  <2> QED BY <1>1, <1>2, Inductive
<1>4. Len(more) + 1 \in Nat /\ Len(more) < Len(more) + 1
  BY <1>0
<1> QED BY <1>3, <1>4

------------------------------------------------------------------------------
(* What is yielded.                                                        *)

Faults == {Decoder!Failed("Transport"), Decoder!Failed("StreamReset")}
Heard == Decoder!Scan(received)
\* The bytes are over and the last line was not looked at.
Pending == ended = "eof" /\ ~ flushed
\* A failure ends what is yielded.
FaultIsLast(items) == \A n \in 1 .. Len(items) - 1 : items[n] \notin Faults

\* What the variables hold, and how the end of the bytes shows in them.
DecoderTyped ==
    /\ received \in Bytes /\ Len(received) <= DecoderBytes
    /\ ended \in {"no", "eof", "error"} /\ line_buf \in Bytes
    /\ ready \in Seq(Event) /\ yielded \in Seq(Event)
    /\ {stream_ended, saw_done, flushed, finished} \subseteq BOOLEAN
    /\ stream_ended <=> ended # "no"
    /\ flushed => ended = "eof"
\* Bytes are asked for until the sentinel, and the buffer is the line that is being read.
LineIsBuffered ==
    /\ ended # "no" => ~ Over(Heard.items)
    /\ ended = "no" \/ Pending => /\ saw_done <=> Over(Heard.items)
                                  /\ ~ saw_done => line_buf = Heard.line
\* What was yielded and what is ready are what the bytes so far amount to.
YieldsAll ==
    /\ ended = "error" => finished \/ ready = <<Decoder!Failed("Transport")>>
    /\ yielded \o ready = IF Pending THEN Heard.items ELSE Decoder!Meaning(received, ended)
    /\ finished \/ Pending => ready = <<>>
    /\ finished => ~ Pending
\* The inductive invariant of a decoder.
DecoderInv == DecoderTyped /\ LineIsBuffered /\ YieldsAll

\* The sets of results.
LEMMA EventsDiffer ==
    /\ Faults \cap Found = {} /\ Decoder!Done \notin Faults
    /\ Decoder!Ends \ {Decoder!Done} = Faults
    /\ Found \subseteq Event /\ Faults \subseteq Event
BY DEF Faults, Found, Event, Decoder!Ends, Decoder!Done, Decoder!Failed, Decoder!Data

\* A failure after what was found is last.
LEMMA FaultAppended ==
    ASSUME NEW items \in Seq(Found), NEW f \in Faults
    PROVE  /\ FaultIsLast(items) /\ FaultIsLast(Append(items, f))
           /\ items \in Seq(Event) /\ Append(items, f) \in Seq(Event)
<1>1. Len(items) \in Nat /\ \A n \in 1 .. Len(items) : items[n] \in Found
  OBVIOUS
<1>2. items \in Seq(Event) /\ f \in Event
  BY EventsDiffer, SeqMonotonic
<1>3. /\ Append(items, f) \in Seq(Event) /\ Len(Append(items, f)) = Len(items) + 1
      /\ \A n \in 1 .. Len(items) : Append(items, f)[n] = items[n]
  BY <1>2, AppendProperties
<1>4. FaultIsLast(items)
  BY <1>1, EventsDiffer DEF FaultIsLast
<1>5. FaultIsLast(Append(items, f))
  <2>1. ASSUME NEW n \in 1 .. Len(Append(items, f)) - 1 PROVE Append(items, f)[n] \notin Faults
    <3>1. n \in 1 .. Len(items)
      BY <1>1, <1>3
    <3> QED BY <1>1, <1>3, <3>1, EventsDiffer
  <2> QED BY <2>1 DEF FaultIsLast
<1> QED BY <1>2, <1>3, <1>4, <1>5

\* What a text means, by how it ended.
LEMMA MeaningIs ==
    ASSUME NEW text \in Bytes, NEW end \in {"no", "eof", "error"}
    PROVE  LET s == Decoder!Scan(text) last == Decoder!process_line(s.line)
               w == Decoder!Meaning(text, end) IN
           /\ s.items \in Seq(Found) /\ s.line \in Bytes
           /\ w \in Seq(Event) /\ FaultIsLast(w)
           /\ end = "no" => w = s.items
           /\ ~ Over(s.items) /\ end = "error" =>
                 w = s.items \o <<Decoder!Failed("Transport")>>
           /\ ~ Over(s.items) /\ end = "eof" =>
                 w = s.items \o (IF last = <<Decoder!Done>> THEN last
                                 ELSE Append(last, Decoder!Failed("StreamReset")))
           /\ \E more \in Seq(Event) : w = s.items \o more
<1>1. PICK s : s = Decoder!Scan(text)
  OBVIOUS
<1>2. s.items \in Seq(Found) /\ s.line \in Bytes
  BY <1>1, ScanTyped DEF Reading
<1>3. PICK last : last = Decoder!process_line(s.line)
  OBVIOUS
<1>4. last \in Seq(Found)
  BY <1>2, <1>3, LineHolds
<1>5. PICK items \in Seq(Found) : items = s.items
  BY <1>2
<1>6. PICK w : w = Decoder!Meaning(text, end)
  OBVIOUS
<1>7. w = IF Over(items) \/ end = "no" THEN items
          ELSE IF end = "error" THEN Append(items, Decoder!Failed("Transport"))
          ELSE items \o (IF last = <<Decoder!Done>> THEN last
                         ELSE Append(last, Decoder!Failed("StreamReset")))
  BY <1>1, <1>3, <1>5, <1>6 DEF Decoder!Meaning, Over
<1>8. Decoder!Failed("Transport") \in Faults /\ Decoder!Failed("StreamReset") \in Faults
  BY DEF Faults
<1>9. items \in Seq(Event) /\ last \in Seq(Event)
  BY <1>4, EventsDiffer, SeqMonotonic
<1>10. CASE Over(items) \/ end = "no"
  <2>1. w = items
    BY <1>7, <1>10
  <2>2. items = items \o <<>> /\ <<>> \in Seq(Event)
    BY <1>9
  <2>3. w \in Seq(Event) /\ FaultIsLast(w)
    BY <1>8, <2>1, FaultAppended
  <2> QED BY <1>1, <1>2, <1>3, <1>5, <1>6, <1>10, <2>1, <2>2, <2>3
<1>11. CASE ~ (Over(items) \/ end = "no") /\ end = "error"
  <2>1. w = Append(items, Decoder!Failed("Transport"))
    BY <1>7, <1>11
  <2>2. w \in Seq(Event) /\ FaultIsLast(w)
    BY <1>8, <2>1, FaultAppended
  <2>3. PICK f \in Event : f = Decoder!Failed("Transport")
    BY DEF Event
  <2>4. w = items \o <<f>> /\ <<f>> \in Seq(Event)
    BY <1>9, <2>1, <2>3, AppendIsConcat
  <2> QED BY <1>1, <1>2, <1>3, <1>5, <1>6, <1>11, <2>2, <2>3, <2>4
<1>12. CASE ~ (Over(items) \/ end = "no") /\ end # "error"
  <2>1. CASE last = <<Decoder!Done>>
    <3>1. w = items \o last
      BY <1>7, <1>12, <2>1
    <3>2. w \in Seq(Found)
      BY <1>4, <3>1
    <3>3. w \in Seq(Event) /\ FaultIsLast(w)
      BY <1>8, <3>2, FaultAppended
    <3> QED BY <1>1, <1>2, <1>3, <1>5, <1>6, <1>9, <1>12, <2>1, <3>1, <3>3
  <2>2. CASE last # <<Decoder!Done>>
    <3>1. PICK f \in Faults : f = Decoder!Failed("StreamReset")
      BY <1>8
    <3>2. w = items \o Append(last, f)
      BY <1>7, <1>12, <2>2, <3>1
    <3>3. Append(last, f) \in Seq(Event) /\ f \in Event
      BY <1>9, <3>1, EventsDiffer
    <3>4. items \o last \in Seq(Found)
      BY <1>4
    <3>5. w = Append(items \o last, f)
      <4>1. Append(last, f) = last \o <<f>> /\ <<f>> \in Seq(Event)
        BY <1>9, <3>3, AppendIsConcat
      <4>2. items \o last \in Seq(Event)
        BY <1>9
      <4>3. Append(items \o last, f) = (items \o last) \o <<f>>
        BY <3>3, <4>2, AppendIsConcat
      <4> QED BY <1>9, <3>2, <4>1, <4>3, ConcatAssociative
    <3>6. w \in Seq(Event) /\ FaultIsLast(w)
      BY <3>4, <3>5, FaultAppended
    <3> QED BY <1>1, <1>2, <1>3, <1>5, <1>6, <1>12, <2>2, <3>1, <3>2, <3>3, <3>6
  <2> QED BY <2>1, <2>2
<1> QED BY <1>10, <1>11, <1>12

\* Nothing was yielded of nothing.
LEMMA DecoderBegins == ASSUME DecoderBytes \in Nat, Decoder!Init PROVE DecoderInv
<1>1. /\ received = <<>> /\ ended = "no" /\ line_buf = <<>> /\ ready = <<>> /\ yielded = <<>>
      /\ stream_ended = FALSE /\ saw_done = FALSE /\ flushed = FALSE /\ finished = FALSE
  BY DEF Decoder!Init
<1>2. <<>> \in Bytes /\ <<>> \in Seq(Event) /\ Len(<<>>) = 0 /\ <<>> \o <<>> = <<>>
  BY DEF Bytes
<1>3. Heard = [line |-> <<>>, items |-> <<>>]
  BY <1>1, ScanOfNothing DEF Heard, Nothing
<1>4. ~ Over(<<>>)
  BY DEF Over, Decoder!Contains
<1>5. Decoder!Meaning(received, "no") = Heard.items
  BY <1>1, <1>2, MeaningIs DEF Heard
<1>6. ~ Pending /\ Heard.items = <<>> /\ Heard.line = <<>>
  BY <1>1, <1>3 DEF Pending
<1>7. yielded \o ready = Decoder!Meaning(received, ended)
  BY <1>1, <1>2, <1>5, <1>6
<1>8. received \in Bytes /\ Len(received) <= DecoderBytes /\ line_buf \in Bytes
      /\ ready \in Seq(Event) /\ yielded \in Seq(Event)
  BY <1>1, <1>2
<1>9. ~ Over(Heard.items)
  BY <1>4, <1>6
<1>10. DecoderTyped
  BY <1>1, <1>8 DEF DecoderTyped
<1>11. LineIsBuffered
  BY <1>1, <1>6, <1>9 DEF LineIsBuffered
<1>12. YieldsAll
  BY <1>1, <1>6, <1>7 DEF YieldsAll
<1> QED BY <1>10, <1>11, <1>12 DEF DecoderInv

\* An item is taken from what is ready.
LEMMA YieldStep == ASSUME DecoderInv, Decoder!Yield PROVE DecoderInv'
<1>1. /\ ~ finished /\ ready # <<>>
      /\ yielded' = Append(yielded, Head(ready)) /\ ready' = Tail(ready)
      /\ finished' = (Head(ready) \in Faults)
      /\ UNCHANGED <<received, ended, line_buf, stream_ended, saw_done, flushed>>
  BY EventsDiffer DEF Decoder!Yield, Decoder!source
<1>2. ~ Pending /\ UNCHANGED <<Pending, Heard>>
  BY <1>1 DEF DecoderInv, YieldsAll, DecoderTyped, Pending, Heard
<1>3. PICK w \in Seq(Event) : w = Decoder!Meaning(received, ended) /\ FaultIsLast(w)
  BY MeaningIs DEF DecoderInv, DecoderTyped, LineIsBuffered, YieldsAll
<1>4. ready \in Seq(Event) /\ yielded \in Seq(Event) /\ yielded \o ready = w
  BY <1>2, <1>3 DEF DecoderInv, DecoderTyped, LineIsBuffered, YieldsAll
<1>5. Head(ready) \in Event /\ Tail(ready) \in Seq(Event) /\ Len(Tail(ready)) = Len(ready) - 1
      /\ Len(ready) \in Nat /\ Len(ready) # 0 /\ Head(ready) = ready[1]
  BY <1>1, <1>4
<1>6. PICK f \in Event : f = Head(ready)
  BY <1>5
<1>7. ready = <<f>> \o Tail(ready) /\ <<f>> \in Seq(Event)
  BY <1>1, <1>4, <1>6
<1>8. yielded' \in Seq(Event) /\ ready' \in Seq(Event) /\ yielded' \o ready' = w
  <2>1. yielded' = yielded \o <<f>>
    BY <1>1, <1>4, <1>6, AppendIsConcat
  <2>2. (yielded \o <<f>>) \o Tail(ready) = yielded \o (<<f>> \o Tail(ready))
    BY <1>4, <1>5, <1>7, ConcatAssociative
  <2>3. yielded \o <<f>> \in Seq(Event)
    BY <1>4, <1>7
  <2> QED BY <1>1, <1>4, <1>5, <1>7, <2>1, <2>2, <2>3
<1>9. ASSUME f \in Faults PROVE Tail(ready) = <<>>
  <2>1. PICK n : n = Len(yielded) + 1
    OBVIOUS
  <2>2. /\ Len(yielded) \in Nat /\ Len(w) = Len(yielded) + Len(ready)
        /\ n \in 1 .. Len(w) /\ w[n] = f
    <3>1. Len(yielded) \in Nat /\ Len(w) = Len(yielded) + Len(ready)
      BY <1>4, ConcatProperties
    <3>2. n \in 1 .. Len(yielded) + Len(ready) /\ ~ (n <= Len(yielded)) /\ n - Len(yielded) = 1
      BY <1>5, <2>1, <3>1
    <3>3. w[n] = ready[1]
      BY <1>4, <3>2, ConcatProperties
    <3> QED BY <1>5, <1>6, <3>1, <3>2, <3>3
  <2>3. n \notin 1 .. Len(w) - 1
    BY <1>3, <1>9, <2>2 DEF FaultIsLast
  <2>4. Len(ready) = 1
    BY <1>5, <2>1, <2>2, <2>3
  <2>5. Len(Tail(ready)) = 0
    BY <1>5, <2>4
  <2>6. PICK rest \in Seq(Event) : rest = Tail(ready)
    BY <1>5
  <2>7. rest = <<>>
    BY <2>5, <2>6, EmptySeq
  <2> QED BY <2>6, <2>7
<1>10. ended = "error" => finished' \/ ready' = <<Decoder!Failed("Transport")>>
  <2> SUFFICES ASSUME ended = "error" PROVE finished'
    OBVIOUS
  <2>1. ready = <<Decoder!Failed("Transport")>>
    BY <1>1 DEF DecoderInv, DecoderTyped, LineIsBuffered, YieldsAll
  <2>2. Head(ready) \in Faults
    BY <2>1 DEF Faults
  <2> QED BY <1>1, <2>2
<1>11. finished' => ready' = <<>>
  BY <1>1, <1>6, <1>9
<1>12. Decoder!Meaning(received', ended') = w
  BY <1>1, <1>3
<1>13. DecoderTyped'
  BY <1>1, <1>8 DEF DecoderInv, DecoderTyped
<1>14. LineIsBuffered'
  BY <1>1, <1>2 DEF DecoderInv, LineIsBuffered
<1>15. YieldsAll'
  <2>1. ~ Pending'
    BY <1>2
  <2>2. ended' = ended
    BY <1>1
  <2> QED BY <1>8, <1>10, <1>11, <1>12, <2>1, <2>2 DEF YieldsAll
<1> QED BY <1>13, <1>14, <1>15 DEF DecoderInv

\* Nothing else comes.
LEMMA FinishStep == ASSUME DecoderInv, Decoder!Finish PROVE DecoderInv'
<1>1. /\ ready = <<>> /\ (saw_done \/ (stream_ended /\ flushed)) /\ finished' = TRUE
      /\ UNCHANGED <<received, ended, line_buf, ready, stream_ended, saw_done, flushed, yielded>>
  BY DEF Decoder!Finish, Decoder!source
<1>2. ~ Pending /\ UNCHANGED <<Pending, Heard>>
  BY <1>1 DEF DecoderInv, DecoderTyped, LineIsBuffered, Pending, Heard
<1>3. DecoderTyped'
  BY <1>1 DEF DecoderInv, DecoderTyped
<1>4. LineIsBuffered'
  BY <1>1, <1>2 DEF DecoderInv, LineIsBuffered
<1>5. YieldsAll'
  BY <1>1, <1>2 DEF DecoderInv, YieldsAll
<1> QED BY <1>3, <1>4, <1>5 DEF DecoderInv

\* The last line is looked at.
LEMMA FlushStep == ASSUME DecoderInv, Decoder!flush_terminal PROVE DecoderInv'
<1>1. PICK item : item = Decoder!process_line(line_buf)
  OBVIOUS
<1>2. /\ ~ finished /\ ready = <<>> /\ ~ saw_done /\ stream_ended /\ ~ flushed
      /\ saw_done' = (item = <<Decoder!Done>>)
      /\ ready' = IF item = <<Decoder!Done>> THEN item
                  ELSE Append(item, Decoder!Failed("StreamReset"))
      /\ line_buf' = <<>> /\ flushed' = TRUE
      /\ UNCHANGED <<received, ended, stream_ended, finished, yielded>>
  BY <1>1 DEF Decoder!flush_terminal, Decoder!source
<1>3. ended = "eof" /\ Pending /\ ~ Pending' /\ Heard' = Heard
  BY <1>2 DEF DecoderInv, DecoderTyped, YieldsAll, Pending, Heard
<1>4. /\ ~ Over(Heard.items) /\ line_buf = Heard.line /\ line_buf \in Bytes
      /\ yielded \o ready = Heard.items
  BY <1>2, <1>3 DEF DecoderInv, DecoderTyped, LineIsBuffered, YieldsAll
<1>5. item \in Seq(Found)
  BY <1>1, <1>4, LineHolds
<1>6. Decoder!Failed("StreamReset") \in Faults
  BY DEF Faults
<1>7. ready' \in Seq(Event)
  BY <1>2, <1>5, <1>6, FaultAppended
<1>8. yielded = Heard.items /\ yielded \in Seq(Event)
  BY <1>2, <1>4 DEF DecoderInv, DecoderTyped, LineIsBuffered, YieldsAll
<1>9. Decoder!Meaning(received, ended) = Heard.items \o ready'
  <2>1. received \in Bytes
    BY DEF DecoderInv, DecoderTyped, LineIsBuffered, YieldsAll
  <2>2. Decoder!Meaning(received, "eof") =
          Heard.items \o (IF item = <<Decoder!Done>> THEN item
                          ELSE Append(item, Decoder!Failed("StreamReset")))
    BY <1>1, <1>4, <2>1, MeaningIs DEF Heard
  <2> QED BY <1>2, <1>3, <2>2
<1>10. <<>> \in Bytes /\ saw_done' \in BOOLEAN
  BY <1>2 DEF Bytes
<1>11. DecoderTyped'
  BY <1>2, <1>3, <1>7, <1>8, <1>10 DEF DecoderInv, DecoderTyped
<1>12. LineIsBuffered'
  <2>1. ended' = "eof" /\ ~ Over(Heard'.items)
    BY <1>2, <1>3, <1>4
  <2> QED BY <1>3, <2>1 DEF LineIsBuffered
<1>13. YieldsAll'
  <2>1. ended' = "eof" /\ ~ finished'
    BY <1>2, <1>3
  <2>2. yielded' \o ready' = Decoder!Meaning(received', ended')
    BY <1>2, <1>8, <1>9
  <2> QED BY <1>3, <2>1, <2>2 DEF YieldsAll
<1> QED BY <1>11, <1>12, <1>13 DEF DecoderInv

\* A decoder that wants bytes has yielded all there was.
LEMMA WantsAll ==
    ASSUME DecoderInv, Decoder!Wants
    PROVE  /\ ended = "no" /\ ~ Pending /\ ~ finished /\ ~ flushed /\ ready = <<>>
           /\ yielded = Heard.items /\ line_buf = Heard.line /\ ~ Over(Heard.items)
           /\ yielded \in Seq(Found) /\ received \in Bytes
<1>1. /\ ended = "no" /\ ~ finished /\ ready = <<>> /\ ~ saw_done /\ ~ flushed
      /\ received \in Bytes
  BY DEF DecoderInv, DecoderTyped, YieldsAll, Decoder!Wants
<1>2. ~ Pending
  BY <1>1 DEF Pending
<1>3. line_buf = Heard.line /\ ~ Over(Heard.items)
  BY <1>1 DEF DecoderInv, DecoderTyped, LineIsBuffered, YieldsAll
<1>4. yielded \o ready = Decoder!Meaning(received, "no") /\ yielded \in Seq(Event)
  BY <1>1, <1>2 DEF DecoderInv, DecoderTyped, LineIsBuffered, YieldsAll
<1>5. yielded = Heard.items /\ yielded \in Seq(Found)
  <2>1. Decoder!Meaning(received, "no") = Heard.items /\ Heard.items \in Seq(Found)
    BY <1>1, MeaningIs DEF Heard
  <2>2. yielded \o <<>> = yielded
    BY <1>4
  <2> QED BY <1>1, <1>4, <2>1, <2>2
<1> QED BY <1>1, <1>2, <1>3, <1>5

\* A chunk comes, wherever it was cut.
LEMMA ChunkStep == ASSUME DecoderBytes \in Nat, DecoderInv, Decoder!Chunk PROVE DecoderInv'
<1> DEFINE Takes(more) ==
               /\ received' = received \o more
               /\ LET in == Decoder!ingest[line_buf \o more] IN
                    /\ line_buf' = in.line_buf /\ ready' = in.items
                    /\ saw_done' = Decoder!Contains(in.items, Decoder!Done)
<1>0. PICK n \in 0 .. DecoderChunk :
        \E more \in [1 .. n -> Decoder!Byte] : Len(received) + n <= DecoderBytes /\ Takes(more)
  BY DEF Decoder!Chunk
<1>1. PICK more \in [1 .. n -> Decoder!Byte] : Len(received) + n <= DecoderBytes /\ Takes(more)
  BY <1>0
<1> HIDE DEF Takes
<1>2. /\ Decoder!Wants /\ UNCHANGED <<ended, stream_ended, flushed, finished, yielded>>
  BY DEF Decoder!Chunk
<1>3. more \in Bytes /\ Len(more) = n
  BY <1>1 DEF Bytes
<1>4. /\ ended = "no" /\ ~ Pending /\ ~ finished /\ ~ flushed
      /\ yielded = Heard.items /\ line_buf = Heard.line /\ ~ Over(Heard.items)
      /\ yielded \in Seq(Found) /\ received \in Bytes
  BY <1>2, WantsAll
<1>5. received' \in Bytes /\ Len(received') <= DecoderBytes
  <2>1. received \in Seq(Decoder!Byte) /\ more \in Seq(Decoder!Byte)
    BY <1>3, <1>4 DEF Bytes
  <2>2. /\ received \o more \in Seq(Decoder!Byte)
        /\ Len(received \o more) = Len(received) + Len(more)
    BY <2>1, ConcatProperties
  <2> QED BY <1>1, <1>3, <2>2 DEF Bytes, Takes
<1>6. Agrees(received, more)
  BY <1>3, <1>4, IngestReads DEF Heard
<1>7. PICK in : in = Decoder!ingest[line_buf \o more]
  OBVIOUS
<1>8. /\ in.items \in Seq(Found) /\ in.line_buf \in Bytes
      /\ Heard'.items = Heard.items \o in.items
      /\ ~ Over(in.items) => Heard'.line = in.line_buf
  BY <1>1, <1>4, <1>6, <1>7 DEF Agrees, Heard, Takes
<1>9. line_buf' = in.line_buf /\ ready' = in.items /\ saw_done' = Over(in.items)
  BY <1>1, <1>7 DEF Over, Takes
<1>10. Heard.items \in Seq(Event) /\ in.items \in Seq(Event)
  BY <1>4, <1>8, SeqMonotonic, EventsDiffer
<1>11. Over(Heard'.items) <=> Over(in.items)
  BY <1>4, <1>8, <1>10, OverEither
<1>12. Decoder!Meaning(received', ended') = Heard'.items
  BY <1>2, <1>4, <1>5, MeaningIs DEF Heard
<1>13. ~ Pending'
  BY <1>2, <1>4 DEF Pending
<1>14. saw_done' \in BOOLEAN
  BY <1>9 DEF Over, Decoder!Contains
<1>15. DecoderTyped'
  BY <1>2, <1>4, <1>5, <1>8, <1>9, <1>10, <1>14 DEF DecoderInv, DecoderTyped
<1>16. LineIsBuffered'
  BY <1>2, <1>4, <1>8, <1>9, <1>11, <1>13 DEF LineIsBuffered
<1>17. YieldsAll'
  <2>1. yielded' \o ready' = Heard'.items
    BY <1>2, <1>4, <1>8, <1>9
  <2>2. ended' = "no" /\ ~ finished'
    BY <1>2, <1>4
  <2> QED BY <1>12, <1>13, <2>1, <2>2 DEF YieldsAll
<1> QED BY <1>15, <1>16, <1>17 DEF DecoderInv

\* The connection fails.
LEMMA ReadFailsStep == ASSUME DecoderInv, Decoder!ReadFails PROVE DecoderInv'
<1>1. /\ Decoder!Wants /\ ended' = "error" /\ stream_ended' = TRUE
      /\ ready' = <<Decoder!Failed("Transport")>>
      /\ UNCHANGED <<received, line_buf, saw_done, flushed, finished, yielded>>
  BY DEF Decoder!ReadFails
<1>2. /\ ended = "no" /\ ~ finished /\ ~ flushed /\ yielded = Heard.items /\ ~ Over(Heard.items)
      /\ received \in Bytes
  BY <1>1, WantsAll
<1>3. Heard' = Heard /\ ~ Pending'
  BY <1>1 DEF Heard, Pending
<1>4. Decoder!Meaning(received, "error") = Heard.items \o <<Decoder!Failed("Transport")>>
  BY <1>2, MeaningIs DEF Heard
<1>5. <<Decoder!Failed("Transport")>> \in Seq(Event)
  BY DEF Event
<1>6. yielded' \o ready' = Decoder!Meaning(received', ended')
  BY <1>1, <1>2, <1>4
<1>7. DecoderTyped'
  BY <1>1, <1>2, <1>5 DEF DecoderInv, DecoderTyped
<1>8. LineIsBuffered'
  BY <1>1, <1>2, <1>3 DEF LineIsBuffered
<1>9. YieldsAll'
  BY <1>1, <1>2, <1>3, <1>6 DEF YieldsAll
<1> QED BY <1>7, <1>8, <1>9 DEF DecoderInv

\* The connection closes.
LEMMA CloseStep == ASSUME DecoderInv, Decoder!Close PROVE DecoderInv'
<1>1. /\ Decoder!Wants /\ ended' = "eof" /\ stream_ended' = TRUE
      /\ UNCHANGED <<received, line_buf, ready, saw_done, flushed, finished, yielded>>
  BY DEF Decoder!Close
<1>2. /\ ended = "no" /\ ~ finished /\ ~ flushed /\ ready = <<>> /\ yielded = Heard.items
      /\ line_buf = Heard.line /\ ~ Over(Heard.items) /\ ~ saw_done /\ yielded \in Seq(Event)
  BY <1>1, WantsAll DEF Decoder!Wants, DecoderInv, DecoderTyped
<1>3. Heard' = Heard /\ Pending'
  BY <1>1, <1>2 DEF Heard, Pending
<1>4. yielded \o <<>> = yielded
  BY <1>2
<1>5. DecoderTyped'
  BY <1>1, <1>2 DEF DecoderInv, DecoderTyped
<1>6. LineIsBuffered'
  BY <1>1, <1>2, <1>3 DEF LineIsBuffered
<1>7. YieldsAll'
  BY <1>1, <1>2, <1>3, <1>4 DEF YieldsAll
<1> QED BY <1>5, <1>6, <1>7 DEF DecoderInv

\* Every step of a decoder keeps the invariant.
LEMMA DecoderSteps ==
    ASSUME DecoderBytes \in Nat, DecoderInv, [Decoder!Next]_Decoder!vars PROVE DecoderInv'
<1>1. CASE UNCHANGED Decoder!vars
  <2>1. UNCHANGED <<received, ended, line_buf, ready, stream_ended, saw_done, flushed,
                    finished, yielded>>
    BY <1>1 DEF Decoder!vars, Decoder!source
  <2>2. UNCHANGED <<Heard, Pending>>
    BY <2>1 DEF Heard, Pending
  <2> QED BY <2>1, <2>2 DEF DecoderInv, DecoderTyped, LineIsBuffered, YieldsAll
<1>2. CASE Decoder!Next
  BY <1>2, YieldStep, FinishStep, FlushStep, ChunkStep, ReadFailsStep, CloseStep
     DEF Decoder!Next, Decoder!Decode
<1> QED BY <1>1, <1>2

\* A first part is a prefix.
LEMMA PrefixOf ==
    ASSUME NEW s \in Seq(Event), NEW t \in Seq(Event) PROVE Decoder!IsPrefix(s, s \o t)
<1>1. s \o t \in Seq(Event) /\ Len(s \o t) = Len(s) + Len(t) /\ Len(s) \in Nat /\ Len(t) \in Nat
      /\ \A i \in 1 .. Len(s) : (s \o t)[i] = s[i]
  OBVIOUS
<1>2. PICK w \in Seq(Event) : w = s \o t
  BY <1>1
<1>3. SubSeq(w, 1, Len(s)) = s
  <2>1. SubSeq(w, 1, Len(s)) \in Seq(Event) /\ Len(SubSeq(w, 1, Len(s))) = Len(s)
        /\ \A i \in 1 .. Len(s) : SubSeq(w, 1, Len(s))[i] = w[i]
    BY <1>1, <1>2
  <2> QED BY <1>1, <1>2, <2>1, SeqEqual
<1>4. SubSeq(s, 1, Len(s)) = s
  OBVIOUS
<1> QED BY <1>1, <1>2, <1>3, <1>4 DEF Decoder!IsPrefix

\* What the invariant says of what the consumer gets.
LEMMA ChunksDoNotMatter == ASSUME DecoderInv PROVE Decoder!ChunkingDoesNotMatter
<1>0. /\ received \in Bytes /\ ended \in {"no", "eof", "error"}
      /\ ready \in Seq(Event) /\ yielded \in Seq(Event)
  BY DEF DecoderInv, DecoderTyped, LineIsBuffered, YieldsAll
<1>1. Decoder!TypeOK
  <2>1. ASSUME NEW items \in Seq(Event), NEW n \in DOMAIN items
        PROVE  \/ items[n] \in Decoder!Ends
               \/ items[n].event = "Data" /\ items[n].payload \in Seq(Decoder!Byte)
    <3>1. items[n] \in Event
      OBVIOUS
    <3> QED BY <3>1 DEF Event, Found, Decoder!Ends, Decoder!Data, Bytes
  <2> QED BY <1>0, <2>1 DEF Decoder!TypeOK, DecoderInv, DecoderTyped, Bytes
<1>2. PICK w \in Seq(Event) : /\ w = Decoder!Meaning(received, ended)
                              /\ \E more \in Seq(Event) : w = Heard.items \o more
  BY <1>0, MeaningIs DEF Heard
<1>3. Decoder!IsPrefix(yielded, w)
  <2>1. CASE Pending
    <3>1. ready = <<>> /\ yielded \o ready = Heard.items /\ yielded \o <<>> = yielded
      BY <1>0, <2>1 DEF DecoderInv, DecoderTyped, LineIsBuffered, YieldsAll
    <3>2. yielded = Heard.items
      BY <3>1
    <3> QED BY <1>0, <1>2, <3>2, PrefixOf
  <2>2. CASE ~ Pending
    <3>1. w = yielded \o ready
      BY <1>2, <2>2 DEF DecoderInv, DecoderTyped, LineIsBuffered, YieldsAll
    <3> QED BY <1>0, <3>1, PrefixOf
  <2> QED BY <2>1, <2>2
<1>4. finished => yielded = w
  <2> SUFFICES ASSUME finished PROVE yielded = w
    OBVIOUS
  <2>1. ~ Pending /\ ready = <<>> /\ yielded \o <<>> = yielded
    BY <1>0 DEF DecoderInv, DecoderTyped, LineIsBuffered, YieldsAll
  <2> QED BY <1>2, <2>1 DEF DecoderInv, DecoderTyped, LineIsBuffered, YieldsAll
<1>5. Decoder!Wants => yielded = Decoder!Meaning(received, "no")
  <2> SUFFICES ASSUME Decoder!Wants PROVE yielded = Decoder!Meaning(received, "no")
    OBVIOUS
  <2>1. yielded = Heard.items
    BY WantsAll
  <2>2. Decoder!Meaning(received, "no") = Heard.items
    BY <1>0, MeaningIs DEF Heard
  <2> QED BY <2>1, <2>2
<1> QED BY <1>1, <1>2, <1>3, <1>4, <1>5 DEF Decoder!ChunkingDoesNotMatter

\* The decoder keeps that invariant, for any length of a stream and of a chunk.
THEOREM DecoderInvariance == DecoderBytes \in Nat => (Decoder!Spec => []DecoderInv)
<1> SUFFICES ASSUME DecoderBytes \in Nat PROVE Decoder!Spec => []DecoderInv
  OBVIOUS
<1>1. Decoder!Init => DecoderInv
  BY DecoderBegins
<1>2. DecoderInv /\ [Decoder!Next]_Decoder!vars => DecoderInv'
  BY DecoderSteps
<1> QED BY <1>1, <1>2, PTL DEF Decoder!Spec

------------------------------------------------------------------------------
(* The components in the system that composes them.                        *)

\* A behaviour is about one component.  The variables of the embedding call hold its first
\* state in every behaviour, and only a step of that call changes them.
LEMMA Turns ==
    MCNext \/ UNCHANGED MCvars => scenario' = scenario /\ [Embedding!Next]_Embedding!vars
<1>1. ASSUME MCNext PROVE /\ scenario' = scenario
                          /\ Embedding!Next \/ UNCHANGED embed_vars
  BY <1>1 DEF MCNext, call_step, sse_step, generate_step, embed_step, serve_step,
              gateway_step, Turn
<1>2. ASSUME UNCHANGED MCvars PROVE UNCHANGED scenario /\ UNCHANGED embed_vars
  BY <1>2 DEF MCvars
<1>3. UNCHANGED embed_vars => UNCHANGED Embedding!vars
  BY DEF embed_vars, Embedding!vars
<1> QED BY <1>1, <1>2, <1>3

\* An embedding call answers with the vector of each text, by the index the endpoint
\* names, and implements the contract of observed calls (embeddings.rs, AttemptLedger),
\* for any number of texts and any answers of the endpoint.
THEOREM EmbeddingsArePerText == MCSpec => EmbeddingIsPerText
<1>1. MCInit => Embedding!Init
  BY DEF MCInit
<1>2. [MCNext]_MCvars => [Embedding!Next]_Embedding!vars
  BY Turns
<1>3. Embedding!Spec => []Embedding!AnswerIsPerText
  BY AnswersPerText, EmbeddingAssumption
<1>4. Embedding!Spec => Embedding!ImplementsLedger
  BY EmbeddingImplements, EmbeddingAssumption
<1>5. Embedding!AnswerIsPerText => (scenario = "embed" => Embedding!AnswerIsPerText)
  OBVIOUS
<1>6. MCSpec => Embedding!Spec
  BY <1>1, <1>2, PTL DEF MCSpec, Embedding!Spec
<1> QED BY <1>3, <1>4, <1>5, <1>6, PTL DEF EmbeddingIsPerText

\* Only a step of the decoder changes what it holds.
LEMMA DecoderTurns == MCNext \/ UNCHANGED MCvars => [Decoder!Next]_Decoder!vars
<1>1. ASSUME MCNext PROVE Decoder!Next \/ UNCHANGED sse_vars
  BY <1>1 DEF MCNext, call_step, sse_step, generate_step, embed_step, serve_step,
              gateway_step, Turn
<1>2. ASSUME UNCHANGED MCvars PROVE UNCHANGED sse_vars
  BY <1>2 DEF MCvars
<1>3. UNCHANGED sse_vars => UNCHANGED Decoder!vars
  BY DEF sse_vars, Decoder!vars, Decoder!source
<1> QED BY <1>1, <1>2, <1>3

\* However a response body is cut into chunks, the decoder yields what a scan of the
\* whole text yields, holds no whole line back, and ends once (sse.rs), for any length
\* of the body and of its chunks.
THEOREM ChunksStayWhole == MCSpec => []ChunkingDoesNotMatter
<1> DEFINE Decoding == scenario = "sse" => DecoderInv
<1>1. MCInit => Decoding
  BY DecoderAssumption, DecoderBegins DEF MCInit
<1>2. Decoding /\ [MCNext]_MCvars => Decoding'
  <2> SUFFICES ASSUME Decoding, [MCNext]_MCvars, scenario' = "sse" PROVE DecoderInv'
    OBVIOUS
  <2>1. scenario = "sse" /\ DecoderInv
    BY Turns
  <2>2. [Decoder!Next]_Decoder!vars
    BY <2>1, DecoderTurns
  <2> QED BY <2>1, <2>2, DecoderAssumption, DecoderSteps
<1>3. Decoding => ChunkingDoesNotMatter
  BY ChunksDoNotMatter DEF ChunkingDoesNotMatter
<1> QED BY <1>1, <1>2, <1>3, PTL DEF MCSpec
==============================================================================

--------------------------- MODULE Corpora_proofs ----------------------------
(***************************************************************************)
(* Proofs about records and the pairs made of them: RecordStore, for any   *)
(* records, writers, bodies and artifacts and any width of the attempt     *)
(* counter, Preference, for any bodies, grades and policies, Grading, for  *)
(* any tests, panels and votes, JudgeRequest, for any requests and         *)
(* answers, and then MCCorpora, which composes them.                       *)
(*                                                                         *)
(* One lemma, CommitStep, says what any step does to the three tables: it  *)
(* leaves them alone, or it commits one command that extends the history   *)
(* of one record.  The invariants of the tables are argued from it, those  *)
(* of the writers from it and from each writer's own action.  PairsInv     *)
(* says that a pair is held only while what it was made of is so.          *)
(* GradeInv says what a stored verdict was decided on, VoteInv which       *)
(* request a cached row or a grade answers.                                *)
(***************************************************************************)
EXTENDS MCCorpora, SequenceTheorems, FiniteSetTheorems, WellFoundedInduction, TLAPS

\* The history of a record, also of one that is not there.
Story(r) == IF records[r] = None THEN <<>> ELSE records[r].history

Prefix(h, g) == Len(h) <= Len(g) /\ \A k \in 1 .. Len(h) : g[k] = h[k]

\* The invariants of RecordStore, of one record.
Mirrored(r) ==
    /\ records[r] = None => rows[r] = <<>> /\ mutations[r] = <<>>
    /\ Len(rows[r]) = Len(Story(r))
    /\ \A k \in 1 .. Len(rows[r]) : /\ rows[r][k].state = Story(r)[k].state
                                    /\ rows[r][k].attempt = Story(r)[k].attempt

Tiled(r) ==
    LET m == mutations[r] IN
    /\ records[r] # None => m # <<>>
    /\ m # <<>> => /\ m[1].start = 0
                   /\ m[Len(m)].start + m[Len(m)].count = Len(rows[r])
    /\ \A i \in 1 .. Len(m) :
          /\ m[i].count > 0 /\ m[i].start + m[i].count <= Len(rows[r])
          /\ i > 1 => m[i].start = m[i - 1].start + m[i - 1].count
          /\ \A k \in m[i].start + 1 .. m[i].start + m[i].count :
                rows[r][k].by = m[i].cmd

Once(r) == \A i, j \in 1 .. Len(mutations[r]) :
              mutations[r][i].cmd = mutations[r][j].cmd => i = j

FromBody(r, n, body) ==
    \E j \in 1 .. n : /\ mutations[r][j].cmd.kind # "publication"
                      /\ mutations[r][j].cmd.body = body
                      /\ \A k \in j + 1 .. n : mutations[r][k].cmd.kind = "publication"

Derived(r) ==
    \A i \in 1 .. Len(mutations[r]) :
        LET m == mutations[r][i] IN
        m.cmd.kind = "transition" =>
            /\ Len(m.cmd.expected.history) = m.start
            /\ \A k \in 1 .. m.start :
                  /\ rows[r][k].state = m.cmd.expected.history[k].state
                  /\ rows[r][k].attempt = m.cmd.expected.history[k].attempt
            /\ FromBody(r, i - 1, m.cmd.expected.body)

\* The strengthening.  The body of a record is that of the last command that was not a
\* publication; its state is the one its history ends in; and once Exported, only
\* publications extend it, which is why acknowledging an artifact again changes nothing.
LastWords(r) ==
    records[r] # None =>
        /\ Len(records[r].history) > 0
        /\ records[r].state = records[r].history[Len(records[r].history)].state
        /\ FromBody(r, Len(mutations[r]), records[r].body)

Exports(r) ==
    \A k \in 1 .. Len(rows[r]) :
        /\ rows[r][k].by.kind = "publication" => rows[r][k].state = "Exported"
        /\ rows[r][k].state = "Exported" => records[r].state = "Exported"

Told(r) == Mirrored(r) /\ Tiled(r) /\ Once(r) /\ Derived(r) /\ LastWords(r) /\ Exports(r)

\* A command that has not committed and never will: the record it would create exists,
\* or the record it was computed from has moved on, or its counter is exhausted.
Dead(r, c) ==
    /\ ~ already_applied(r, c)
    /\ records[r] # None
    /\ c.kind = "transition" =>
          Len(records[r].history) > Len(c.expected.history) \/ ~ CanAppend(c.expected)

\* What a writer asked for: a command of one of the three kinds, computed from the record
\* as it is or as it was.
Asked(w) ==
    LET r == writer[w].rid  c == writer[w].cmd IN
    writer[w].pc # "idle" =>
        /\ r \in RecordIds /\ c \in Command
        /\ c.kind # "transition" => c.to \in {None, "Error"}
        /\ c.kind = "transition" =>
              /\ c.expected \in Envelope /\ c.to \in LifecycleState
              /\ c.expected.state # "Exported" /\ c.to # "Exported"
              /\ records[r] # None
              /\ records[r] = c.expected \/ Len(records[r].history) > Len(c.expected.history)

\* What it was told stays true.
Answered(w) ==
    LET r == writer[w].rid  c == writer[w].cmd IN
    writer[w].pc = "answered" =>
        IF writer[w].status \in {"Applied", "AlreadyApplied"}
        THEN /\ already_applied(r, c)
             /\ writer[w].seen \in Envelope /\ records[r] # None
             /\ Prefix(writer[w].seen.history, records[r].history)
        ELSE Dead(r, c)

IInv == /\ TypeOK
        /\ \A r \in RecordIds : Told(r)
        /\ \A w \in Writers : Asked(w) /\ Answered(w)
        /\ AppliedOnce

------------------------------------------------------------------------------
(* What a step does to the tables                                          *)

Extends(r, env) ==
    /\ env \in Envelope
    /\ Len(Story(r)) < Len(env.history)
    /\ \A k \in 1 .. Len(Story(r)) : env.history[k] = Story(r)[k]
    /\ env.state = env.history[Len(env.history)].state

NewEntries(r, env) == Len(Story(r)) + 1 .. Len(env.history)

\* Command c commits, once, and makes record r the longer envelope env.
Commits(r, env, c) ==
    /\ Extends(r, env) /\ c \in Command \cup Publication
    /\ ~ already_applied(r, c)
    /\ Store(r, env, Len(Story(r)), c)
    /\ c.kind = "publication" =>
          /\ records[r] # None /\ env.body = records[r].body
          /\ \A k \in NewEntries(r, env) : env.history[k].state = "Exported"
    /\ c.kind # "publication" =>
          /\ env.body = c.body
          /\ \A k \in NewEntries(r, env) : env.history[k].state # "Exported"
    /\ c.kind = "transition" =>
          /\ records[r] # None /\ records[r] = c.expected /\ CanAppend(c.expected)
          /\ records[r].state # "Exported"
    /\ c.kind \in {"insert", "insert_transition"} => records[r] = None

Tables == <<records, rows, mutations>>

\* append makes a well-typed envelope one entry longer.
LEMMA Appended ==
    ASSUME NEW env \in Envelope, CanAppend(env), NEW to \in LifecycleState
    PROVE  LET e == append(env, to) IN
           /\ e \in Envelope /\ e.body = env.body /\ e.state = to
           /\ Len(e.history) = Len(env.history) + 1
           /\ \A k \in 1 .. Len(env.history) : e.history[k] = env.history[k]
           /\ e.history[Len(e.history)].state = to
<1> DEFINE entry == [state |-> to, attempt |-> env.attempts + 1]
<1>1. env.history \in Seq(Transition) /\ env.attempts + 1 \in Attempts
  BY ConstantsAssumption DEF Envelope, Attempts, CanAppend
<1>2. entry \in Transition
  BY <1>1 DEF Transition
<1> DEFINE h == Append(env.history, entry)
<1>3. /\ h \in Seq(Transition) /\ Len(h) = Len(env.history) + 1
      /\ \A k \in 1 .. Len(env.history) : h[k] = env.history[k]
      /\ h[Len(h)] = entry
  <2> HIDE DEF entry, Transition
  <2> QED BY <1>1, <1>2
<1>4. append(env, to) = [body |-> env.body, state |-> to, attempts |-> env.attempts + 1,
                         history |-> h]
  <2>1. append(env, to) = [env EXCEPT !.attempts = env.attempts + 1, !.state = to,
                                      !.history = h]
    BY DEF append
  <2> HIDE DEF h, Transition, Attempts, LifecycleState
  <2>2. env = [body |-> env.body, state |-> env.state, attempts |-> env.attempts,
               history |-> env.history]
    BY DEF Envelope
  <2> QED BY <2>1, <2>2
<1> HIDE DEF h
<1>5. append(env, to) \in Envelope
  BY <1>1, <1>3, <1>4 DEF Envelope
<1> QED BY <1>3, <1>4, <1>5

\* The envelopes an insertion makes are well-typed and do not start out Exported.
LEMMA Inserted ==
    ASSUME NEW body \in Bodies
    PROVE  /\ GeneratedEnvelope(body) \in Envelope /\ GeneratedEnvelope(body).body = body
           /\ Len(GeneratedEnvelope(body).history) = 2
           /\ GeneratedEnvelope(body).history[1].state = "UserSynthesized"
           /\ GeneratedEnvelope(body).history[2].state = "AssistantGenerated"
           /\ GeneratedEnvelope(body).state = "AssistantGenerated"
           /\ error_stub(body) \in Envelope /\ error_stub(body).body = body
           /\ CanAppend(error_stub(body)) /\ Len(error_stub(body).history) = 0
<1> USE ConstantsAssumption
<1> DEFINE first == [state |-> "UserSynthesized", attempt |-> 0]
           second == [state |-> "AssistantGenerated", attempt |-> 0]
<1>1. first \in Transition /\ second \in Transition /\ 0 \in Attempts
  BY DEF Transition, LifecycleState, Attempts
<1>2. <<first, second>> \in Seq(Transition)
  <2> HIDE DEF first, second, Transition
  <2> QED BY <1>1
<1>3. GeneratedEnvelope(body) \in Envelope
  BY <1>1, <1>2 DEF GeneratedEnvelope, Envelope, LifecycleState
<1>4. error_stub(body) \in Envelope
  BY <1>1 DEF error_stub, Envelope, LifecycleState
<1> QED BY <1>3, <1>4 DEF GeneratedEnvelope, error_stub, CanAppend

\* A step leaves the tables alone or commits one command: an insertion, a transition, or
\* the first acknowledgment of an artifact.
LEMMA CommitStep ==
    ASSUME IInv, [Next]_vars
    PROVE  \/ UNCHANGED Tables
           \/ \E r \in RecordIds : \E env, c : Commits(r, env, c)
<1>1. TypeOK /\ \A w \in Writers : Asked(w)
  BY DEF IInv
<1>2. ASSUME NEW w \in Writers, InsertApply(w)
      PROVE  \E r \in RecordIds : \E env, c : Commits(r, env, c)
  <2> DEFINE r == writer[w].rid
             c == writer[w].cmd
             env == IF c.to = None THEN GeneratedEnvelope(c.body)
                                   ELSE append(error_stub(c.body), c.to)
  <2>1. /\ c.kind # "transition" /\ ~ already_applied(r, c) /\ records[r] = None
        /\ Store(r, env, 0, c) /\ writer[w].pc = "sent"
    BY <1>2 DEF InsertApply
  <2>2. /\ r \in RecordIds /\ c \in Command /\ c.to \in {None, "Error"}
        /\ c.kind \in {"insert", "insert_transition"} /\ c.body \in Bodies
    BY <1>1, <2>1 DEF Asked, Command
  <2>3. Len(Story(r)) = 0
    BY <2>1 DEF Story
  <2>4. /\ env \in Envelope /\ env.body = c.body /\ Len(env.history) > 0
        /\ env.state = env.history[Len(env.history)].state
        /\ \A k \in 1 .. Len(env.history) : env.history[k].state # "Exported"
    <3>1. CASE c.to = None
      <4>1. env = GeneratedEnvelope(c.body)
        BY <3>1
      <4>2. \A k \in 1 .. 2 : k = 1 \/ k = 2
        OBVIOUS
      <4> HIDE DEF env, c
      <4> QED BY <2>2, <4>1, <4>2, Inserted
    <3>2. CASE c.to = "Error" /\ c.to # None
      <4>1. env = append(error_stub(c.body), "Error")
        BY <3>2
      <4>2. "Error" \in LifecycleState
        BY DEF LifecycleState
      <4> HIDE DEF env, c
      <4>3. /\ error_stub(c.body) \in Envelope /\ error_stub(c.body).body = c.body
            /\ CanAppend(error_stub(c.body)) /\ Len(error_stub(c.body).history) = 0
        BY <2>2, Inserted
      <4> DEFINE stub == error_stub(c.body)
      <4> HIDE DEF stub
      <4>4. /\ env \in Envelope /\ env.body = c.body /\ env.state = "Error"
            /\ Len(env.history) = 1 /\ env.history[Len(env.history)].state = "Error"
        <5>1. /\ env = append(stub, "Error") /\ stub \in Envelope /\ CanAppend(stub)
              /\ stub.body = c.body /\ Len(stub.history) = 0
          BY <4>1, <4>3 DEF stub
        <5>2. /\ env \in Envelope /\ env.body = stub.body /\ env.state = "Error"
              /\ Len(env.history) = Len(stub.history) + 1
              /\ env.history[Len(env.history)].state = "Error"
          BY <4>2, <5>1, Appended
        <5> QED BY <5>1, <5>2
      <4>5. \A k \in 1 .. 1 : k = 1
        OBVIOUS
      <4> QED BY <4>4, <4>5
    <3> QED BY <2>2, <3>1, <3>2
  <2> HIDE DEF env, r, c
  <2>5. Commits(r, env, c)
    BY <2>1, <2>2, <2>3, <2>4 DEF Commits, Extends, NewEntries
  <2> QED BY <2>2, <2>5
<1>3. ASSUME NEW w \in Writers, TransitionApply(w)
      PROVE  \E r \in RecordIds : \E env, c : Commits(r, env, c)
  <2> DEFINE r == writer[w].rid
             c == writer[w].cmd
             base == [c.expected EXCEPT !.body = c.body]
             env == append(base, c.to)
  <2>1. /\ c.kind = "transition" /\ ~ already_applied(r, c) /\ records[r] = c.expected
        /\ CanAppend(c.expected) /\ Store(r, env, Len(c.expected.history), c)
        /\ writer[w].pc = "sent"
    BY <1>3 DEF TransitionApply
  <2>2. /\ r \in RecordIds /\ c \in Command /\ c.to \in LifecycleState /\ c.to # "Exported"
        /\ c.body \in Bodies /\ c.expected \in Envelope /\ c.expected.state # "Exported"
        /\ records[r] # None
    BY <1>1, <2>1 DEF Asked, Command
  <2>3. /\ base \in Envelope /\ base.body = c.body /\ CanAppend(base)
        /\ base.history = c.expected.history
    BY <2>1, <2>2 DEF Envelope, CanAppend
  <2>4. Story(r) = c.expected.history
    BY <2>1, <2>2 DEF Story
  <2>5. Len(c.expected.history) \in Nat
    BY <2>2 DEF Envelope
  <2> HIDE DEF base
  <2>6. /\ env \in Envelope /\ env.body = c.body /\ env.state = c.to
        /\ Len(env.history) = Len(c.expected.history) + 1
        /\ \A k \in 1 .. Len(c.expected.history) : env.history[k] = c.expected.history[k]
        /\ env.history[Len(env.history)].state = c.to
    BY <2>2, <2>3, Appended
  <2> HIDE DEF env, r, c
  <2>7. NewEntries(r, env) = {Len(env.history)}
    BY <2>4, <2>5, <2>6 DEF NewEntries
  <2>8. Commits(r, env, c)
    BY <2>1, <2>2, <2>4, <2>5, <2>6, <2>7 DEF Commits, Extends
  <2> QED BY <2>2, <2>8
<1>4. ASSUME NEW r \in RecordIds, NEW a \in Artifacts, AcknowledgeExport(r, a)
      PROVE  UNCHANGED Tables \/ \E env, c : Commits(r, env, c)
  <2> DEFINE c == [kind |-> "publication", artifact |-> a]
             old == records[r]
             already == \E i \in DOMAIN rows[r] :
                           rows[r][i].state = "Exported" /\ rows[r][i].by = c
  <2>1. /\ old # None
        /\ \/ /\ ~ already /\ CanAppend(old)
              /\ Store(r, append(old, "Exported"), Len(old.history), c)
           \/ /\ already
              /\ records' = [records EXCEPT ![r].state = "Exported"]
              /\ UNCHANGED <<rows, mutations>>
    BY <1>4 DEF AcknowledgeExport
  <2>2. old \in Envelope /\ Told(r) /\ rows[r] \in Seq(Row)
    BY <1>1, <2>1 DEF IInv, TypeOK
  <2>3. c \in Publication /\ c.kind = "publication"
    BY DEF Publication
  <2>4. DOMAIN rows[r] = 1 .. Len(rows[r])
    BY <2>2
  <2> HIDE DEF c, old
  <2>5. CASE already /\ records' = [records EXCEPT ![r].state = "Exported"]
             /\ UNCHANGED <<rows, mutations>>
    <3>1. old.state = "Exported"
      BY <2>2, <2>4, <2>5 DEF Told, Exports, old
    <3>2. [old EXCEPT !.state = "Exported"] = old
      BY <2>2, <3>1 DEF Envelope
    <3>3. records' = records
      BY <1>1, <2>5, <3>2 DEF TypeOK, old
    <3> QED BY <2>5, <3>3 DEF Tables
  <2>6. CASE ~ already /\ CanAppend(old)
             /\ Store(r, append(old, "Exported"), Len(old.history), c)
    <3> DEFINE env == append(old, "Exported")
    <3>1. "Exported" \in LifecycleState
      BY DEF LifecycleState
    <3>2. /\ env \in Envelope /\ env.body = old.body /\ env.state = "Exported"
          /\ Len(env.history) = Len(old.history) + 1
          /\ \A k \in 1 .. Len(old.history) : env.history[k] = old.history[k]
          /\ env.history[Len(env.history)].state = "Exported"
      BY <2>2, <2>6, <3>1, Appended
    <3> HIDE DEF env
    <3>3. ~ already_applied(r, c)
      <4> SUFFICES ASSUME NEW i \in DOMAIN mutations[r], mutations[r][i].cmd = c
                   PROVE  FALSE
        BY DEF already_applied
      <4>1. mutations[r] \in Seq(Mutation)
        BY <1>1 DEF TypeOK
      <4>2. i \in 1 .. Len(mutations[r])
        BY <4>1
      <4>3. mutations[r][i] \in Mutation
        BY <4>1, <4>2, ElementOfSeq
      <4> DEFINE k == mutations[r][i].start + 1
      <4>4. /\ mutations[r][i].count > 0
            /\ mutations[r][i].start + mutations[r][i].count <= Len(rows[r])
            /\ \A n \in mutations[r][i].start + 1 .. mutations[r][i].start + mutations[r][i].count :
                  rows[r][n].by = mutations[r][i].cmd
        BY <2>2, <4>2 DEF Told, Tiled
      <4>5. /\ mutations[r][i].start \in Nat /\ mutations[r][i].count \in Nat
            /\ Len(rows[r]) \in Nat
        BY <2>2, <4>3 DEF Mutation
      <4>6. /\ k \in 1 .. Len(rows[r])
            /\ k \in mutations[r][i].start + 1 .. mutations[r][i].start + mutations[r][i].count
        BY <4>4, <4>5
      <4>7. rows[r][k].by = c
        BY <4>4, <4>6
      <4>8. rows[r][k].state = "Exported"
        BY <2>2, <2>3, <4>6, <4>7 DEF Told, Exports
      <4> QED BY <2>4, <2>6, <4>6, <4>7, <4>8
    <3>4. Story(r) = old.history /\ Len(old.history) \in Nat
      BY <2>1, <2>2 DEF Story, old, Envelope
    <3>5. NewEntries(r, env) = {Len(env.history)}
      BY <3>2, <3>4 DEF NewEntries
    <3>6. Commits(r, env, c)
      BY <2>1, <2>3, <2>6, <3>2, <3>3, <3>4, <3>5 DEF Commits, Extends, env, old
    <3> QED BY <3>6
  <2> QED BY <2>1, <2>5, <2>6
<1>5. ASSUME NEW w \in Writers,
             \/ RecognizeEarlierCommit(w) \/ InsertConflict(w) \/ TransitionRefused(w)
             \/ Retry(w) \/ Crash(w)
             \/ \E r \in RecordIds : SendInsert(w, r) \/ SendTransition(w, r)
      PROVE  UNCHANGED Tables
  BY <1>5 DEF RecognizeEarlierCommit, InsertConflict, TransitionRefused, Retry, Crash,
              SendInsert, SendTransition, Issue, Tables
<1>6. UNCHANGED vars => UNCHANGED Tables
  BY DEF vars, Tables
<1> QED BY <1>2, <1>3, <1>4, <1>5, <1>6 DEF Next, Transact

\* A function on an initial segment is a sequence of that length.
LEMMA FunctionSeq ==
    ASSUME NEW S, NEW m \in Nat, NEW f \in [1 .. m -> S]
    PROVE  f \in Seq(S) /\ Len(f) = m
OBVIOUS

\* The tables after a commit, entry by entry: what was there stays, and the command writes
\* exactly the rest of the history.
RowsAfter(r, env, c) ==
    /\ Len(rows[r]) \in Nat /\ Len(env.history) \in Nat
    /\ Len(rows[r]) = Len(Story(r)) /\ Len(rows[r]) < Len(env.history)
    /\ Len(rows'[r]) = Len(env.history)
    /\ \A k \in 1 .. Len(rows[r]) : rows'[r][k] = rows[r][k]
    /\ \A k \in Len(rows[r]) + 1 .. Len(env.history) :
          /\ rows'[r][k].state = env.history[k].state
          /\ rows'[r][k].attempt = env.history[k].attempt
          /\ rows'[r][k].by = c

MutationsAfter(r, env, c) ==
    /\ Len(mutations[r]) \in Nat /\ Len(mutations'[r]) = Len(mutations[r]) + 1
    /\ \A i \in 1 .. Len(mutations[r]) : mutations'[r][i] = mutations[r][i]
    /\ mutations'[r][Len(mutations[r]) + 1].cmd = c
    /\ mutations'[r][Len(mutations[r]) + 1].start = Len(rows[r])
    /\ mutations'[r][Len(mutations[r]) + 1].count = Len(env.history) - Len(rows[r])

TablesTyped ==
    /\ records \in [RecordIds -> Envelope \cup {None}]
    /\ rows \in [RecordIds -> Seq(Row)]
    /\ mutations \in [RecordIds -> Seq(Mutation)]

Same(q) == records'[q] = records[q] /\ rows'[q] = rows[q] /\ mutations'[q] = mutations[q]

\* A commit writes the three tables and no record but its own.
LEMMA Committed ==
    ASSUME IInv, NEW r \in RecordIds, NEW env, NEW c, Commits(r, env, c)
    PROVE  /\ env \in Envelope /\ records'[r] = env
           /\ RowsAfter(r, env, c) /\ MutationsAfter(r, env, c)
           /\ TablesTyped' /\ \A q \in RecordIds : q # r => Same(q)
<1> DEFINE n == Len(rows[r])
           g == Len(env.history)
           new == history(env, n, c)
           receipt == [cmd |-> c, start |-> n, count |-> g - n]
<1>1. /\ records \in [RecordIds -> Envelope \cup {None}]
      /\ rows \in [RecordIds -> Seq(Row)] /\ mutations \in [RecordIds -> Seq(Mutation)]
  BY DEF IInv, TypeOK
<1>2. /\ env \in Envelope /\ c \in Command \cup Publication
      /\ Len(Story(r)) < g /\ Store(r, env, Len(Story(r)), c)
  BY DEF Commits, Extends
<1>3. n = Len(Story(r))
  BY DEF IInv, Told, Mirrored
<1>4. env.history \in Seq(Transition)
  BY <1>2 DEF Envelope
<1>5. n \in Nat /\ g \in Nat /\ n < g /\ Len(mutations[r]) \in Nat
  <2>1. rows[r] \in Seq(Row) /\ mutations[r] \in Seq(Mutation)
    BY <1>1
  <2> HIDE DEF Row, Mutation, Transition
  <2> QED BY <1>2, <1>3, <1>4, <2>1, LenProperties
<1>6. /\ records' = [records EXCEPT ![r] = env]
      /\ rows' = [rows EXCEPT ![r] = @ \o new]
      /\ mutations' = [mutations EXCEPT ![r] = Append(@, receipt)]
  BY <1>2, <1>3 DEF Store
<1>7. \A i \in 1 .. g - n : env.history[n + i] \in Transition
  <2> SUFFICES ASSUME NEW i \in 1 .. g - n PROVE env.history[n + i] \in Transition
    OBVIOUS
  <2>1. n + i \in 1 .. g
    BY <1>5
  <2> HIDE DEF Transition
  <2> QED BY <1>4, <2>1, ElementOfSeq
<1>8. new \in [1 .. g - n -> Row]
  BY <1>2, <1>7 DEF history, Row, Transition
<1>9. g - n \in Nat
  BY <1>5
<1>10. new \in Seq(Row) /\ Len(new) = g - n
  <2> HIDE DEF new, Row
  <2> QED BY <1>8, <1>9, FunctionSeq
<1>11. \A i \in 1 .. g - n : new[i] = [state |-> env.history[n + i].state,
                                       attempt |-> env.history[n + i].attempt, by |-> c]
  BY DEF history
<1>12. receipt \in Mutation
  BY <1>2, <1>5 DEF Mutation
<1> HIDE DEF new, receipt
<1>13. /\ rows[r] \o new \in Seq(Row) /\ Len(rows[r] \o new) = g
       /\ \A k \in 1 .. n : (rows[r] \o new)[k] = rows[r][k]
       /\ \A k \in n + 1 .. g : (rows[r] \o new)[k] = new[k - n]
  <2>1. rows[r] \in Seq(Row)
    BY <1>1
  <2> HIDE DEF Row
  <2>2. /\ rows[r] \o new \in Seq(Row) /\ Len(rows[r] \o new) = n + (g - n)
        /\ \A k \in 1 .. n + (g - n) :
              (rows[r] \o new)[k] = IF k <= n THEN rows[r][k] ELSE new[k - n]
    BY <1>10, <2>1, ConcatProperties
  <2> QED BY <1>5, <2>2
<1>14. /\ Append(mutations[r], receipt) \in Seq(Mutation)
       /\ Len(Append(mutations[r], receipt)) = Len(mutations[r]) + 1
       /\ \A i \in 1 .. Len(mutations[r]) : Append(mutations[r], receipt)[i] = mutations[r][i]
       /\ Append(mutations[r], receipt)[Len(mutations[r]) + 1] = receipt
  <2>1. mutations[r] \in Seq(Mutation)
    BY <1>1
  <2> HIDE DEF Mutation
  <2> QED BY <1>12, <2>1
<1>15. records'[r] = env /\ rows'[r] = rows[r] \o new
       /\ mutations'[r] = Append(mutations[r], receipt)
  BY <1>1, <1>6
<1>16. \A k \in n + 1 .. g : (rows[r] \o new)[k] =
          [state |-> env.history[k].state, attempt |-> env.history[k].attempt, by |-> c]
  <2> SUFFICES ASSUME NEW k \in n + 1 .. g
               PROVE  (rows[r] \o new)[k] = [state |-> env.history[k].state,
                                             attempt |-> env.history[k].attempt, by |-> c]
    OBVIOUS
  <2>1. k - n \in 1 .. g - n /\ n + (k - n) = k
    BY <1>5
  <2> QED BY <1>11, <1>13, <2>1
<1>17. /\ records' \in [RecordIds -> Envelope \cup {None}]
       /\ rows' \in [RecordIds -> Seq(Row)] /\ mutations' \in [RecordIds -> Seq(Mutation)]
       /\ \A q \in RecordIds : q # r => /\ records'[q] = records[q]
                                        /\ rows'[q] = rows[q]
                                        /\ mutations'[q] = mutations[q]
  <2> HIDE DEF Envelope, Row, Mutation
  <2> QED BY <1>1, <1>2, <1>6, <1>13, <1>14
<1>18. RowsAfter(r, env, c)
  <2>1. Len(rows'[r]) = g
    BY <1>13, <1>15
  <2>2. \A k \in 1 .. n : rows'[r][k] = rows[r][k]
    BY <1>13, <1>15
  <2>3. ASSUME NEW k \in n + 1 .. g
        PROVE  /\ rows'[r][k].state = env.history[k].state
               /\ rows'[r][k].attempt = env.history[k].attempt
               /\ rows'[r][k].by = c
    <3>1. rows'[r][k] = [state |-> env.history[k].state,
                         attempt |-> env.history[k].attempt, by |-> c]
      BY <1>15, <1>16
    <3> QED BY <3>1
  <2> QED BY <1>3, <1>5, <2>1, <2>2, <2>3 DEF RowsAfter
<1>19. MutationsAfter(r, env, c)
  <2>1. /\ Len(mutations'[r]) = Len(mutations[r]) + 1
        /\ \A i \in 1 .. Len(mutations[r]) : mutations'[r][i] = mutations[r][i]
        /\ mutations'[r][Len(mutations[r]) + 1] = receipt
    BY <1>14, <1>15
  <2>2. receipt.cmd = c /\ receipt.start = n /\ receipt.count = g - n
    BY DEF receipt
  <2> QED BY <1>5, <2>1, <2>2 DEF MutationsAfter
<1> QED BY <1>2, <1>15, <1>17, <1>18, <1>19 DEF TablesTyped, Same

\* A commit keeps the story of its record straight; the other records are untouched.
LEMMA ToldStep ==
    ASSUME IInv, NEW r \in RecordIds, NEW env, NEW c, Commits(r, env, c)
    PROVE  \A q \in RecordIds : Told(q)'
<1> DEFINE n == Len(rows[r])
           g == Len(env.history)
           l == Len(mutations[r])
<1>1. /\ env \in Envelope /\ records'[r] = env
      /\ RowsAfter(r, env, c) /\ MutationsAfter(r, env, c)
      /\ \A q \in RecordIds : q # r => Same(q)
  BY Committed
<1>2. Mirrored(r) /\ Tiled(r) /\ Once(r) /\ Derived(r) /\ LastWords(r) /\ Exports(r)
  BY DEF IInv, Told
<1>3. Extends(r, env) /\ c \in Command \cup Publication /\ ~ already_applied(r, c)
  BY DEF Commits
<1>4. n \in Nat /\ g \in Nat /\ l \in Nat /\ n < g /\ n = Len(Story(r))
  BY <1>1 DEF RowsAfter, MutationsAfter
<1>5. /\ Len(rows'[r]) = g
      /\ \A k \in 1 .. n : rows'[r][k] = rows[r][k]
      /\ \A k \in n + 1 .. g : /\ rows'[r][k].state = env.history[k].state
                               /\ rows'[r][k].attempt = env.history[k].attempt
                               /\ rows'[r][k].by = c
  BY <1>1 DEF RowsAfter
<1>6. Len(mutations'[r]) = l + 1 /\ \A i \in 1 .. l : mutations'[r][i] = mutations[r][i]
  BY <1>1 DEF MutationsAfter
<1>7. /\ mutations'[r][l + 1].cmd = c /\ mutations'[r][l + 1].start = n
      /\ mutations'[r][l + 1].count = g - n
  BY <1>1 DEF MutationsAfter
<1>8. records'[r] # None /\ Story(r)' = env.history
  BY <1>1, NoneAssumption DEF Story
<1>9. mutations[r] \in Seq(Mutation) /\ DOMAIN mutations[r] = 1 .. l
  BY DEF IInv, TypeOK
<1>10. \A i \in 1 .. l : mutations[r][i].start \in Nat /\ mutations[r][i].count \in Nat
  <2> SUFFICES ASSUME NEW i \in 1 .. l
               PROVE  mutations[r][i].start \in Nat /\ mutations[r][i].count \in Nat
    OBVIOUS
  <2>1. mutations[r][i] \in Mutation
    BY <1>9, ElementOfSeq
  <2> QED BY <2>1 DEF Mutation
<1>11. (mutations[r] # <<>> => l > 0) /\ (mutations[r] = <<>> => l = 0)
  <2> HIDE DEF Mutation
  <2> QED BY <1>9
<1> HIDE DEF n, g, l
<1>12. 1 .. l + 1 = 1 .. l \cup {l + 1} /\ 1 .. g = 1 .. n \cup (n + 1 .. g)
       /\ l + 1 - 1 = l /\ l \in 0 .. l
  BY <1>4
<1>13. Mirrored(r)'
  <2>1. ASSUME NEW k \in 1 .. g
        PROVE  rows'[r][k].state = env.history[k].state
               /\ rows'[r][k].attempt = env.history[k].attempt
    <3>1. CASE k \in 1 .. n
      <4>1. /\ rows[r][k].state = Story(r)[k].state
            /\ rows[r][k].attempt = Story(r)[k].attempt
        BY <1>2, <3>1 DEF Mirrored, n
      <4>2. env.history[k] = Story(r)[k]
        BY <1>3, <1>4, <3>1 DEF Extends
      <4> QED BY <1>5, <3>1, <4>1, <4>2
    <3>2. CASE k \in n + 1 .. g
      BY <1>5, <3>2
    <3> QED BY <1>12, <3>1, <3>2
  <2>2. Len(rows'[r]) = Len(env.history)
    BY <1>5 DEF g
  <2>3. ASSUME NEW k \in 1 .. Len(rows'[r])
        PROVE  rows'[r][k].state = env.history[k].state
               /\ rows'[r][k].attempt = env.history[k].attempt
    BY <1>5, <2>1
  <2> QED BY <1>8, <2>2, <2>3 DEF Mirrored
<1>14. Tiled(r)'
  <2> DEFINE Fits(i, m, h) ==
                 /\ m[i].count > 0 /\ m[i].start + m[i].count <= Len(h)
                 /\ i > 1 => m[i].start = m[i - 1].start + m[i - 1].count
                 /\ \A k \in m[i].start + 1 .. m[i].start + m[i].count : h[k].by = m[i].cmd
  <2>1. /\ l = 0 => n = 0
        /\ l > 0 => mutations[r][1].start = 0 /\ mutations[r][l].start + mutations[r][l].count = n
    <3>1. l = 0 => records[r] = None
      BY <1>2, <1>4, <1>11 DEF Tiled
    <3>2. records[r] = None => n = 0
      BY <1>2 DEF Mirrored, n
    <3>3. mutations[r] # <<>> => /\ mutations[r][1].start = 0
                                 /\ mutations[r][l].start + mutations[r][l].count = n
      BY <1>2 DEF Tiled, l, n
    <3>4. l > 0 => mutations[r] # <<>>
      BY <1>4, <1>11
    <3> QED BY <3>1, <3>2, <3>3, <3>4
  <2>2. ASSUME NEW i \in 1 .. l PROVE Fits(i, mutations'[r], rows'[r])
    <3> DEFINE m == mutations[r][i]
    <3>1. /\ m.count > 0 /\ m.start + m.count <= n
          /\ i > 1 => m.start = mutations[r][i - 1].start + mutations[r][i - 1].count
          /\ \A k \in m.start + 1 .. m.start + m.count : rows[r][k].by = m.cmd
      BY <1>2 DEF Tiled, l, n
    <3>2. mutations'[r][i] = m
      BY <1>6
    <3>3. i > 1 => mutations'[r][i - 1] = mutations[r][i - 1]
      <4>1. i > 1 => i - 1 \in 1 .. l
        BY <1>4
      <4> QED BY <1>6, <4>1
    <3>4. m.start \in Nat /\ m.count \in Nat
      BY <1>10
    <3> HIDE DEF m
    <3>5. \A k \in m.start + 1 .. m.start + m.count : k \in 1 .. n
      BY <1>4, <3>1, <3>4
    <3>6. \A k \in m.start + 1 .. m.start + m.count : rows'[r][k] = rows[r][k]
      BY <1>5, <3>5
    <3>7. m.start + m.count <= Len(rows'[r])
      BY <1>4, <1>5, <3>1, <3>4
    <3> QED BY <3>1, <3>2, <3>3, <3>6, <3>7
  <2>3. Fits(l + 1, mutations'[r], rows'[r])
    <3>1. n + (g - n) = g /\ g - n > 0 /\ g <= g
      BY <1>4
    <3>2. l + 1 > 1 => n = mutations'[r][l].start + mutations'[r][l].count
      <4>1. l + 1 > 1 => l > 0 /\ l \in 1 .. l
        BY <1>4
      <4> QED BY <1>6, <2>1, <4>1
    <3>3. \A k \in n + 1 .. g : rows'[r][k].by = c
      BY <1>5
    <3> QED BY <1>5, <1>7, <1>12, <3>1, <3>2, <3>3
  <2>4. mutations'[r][1].start = 0
    <3>1. CASE l = 0
      BY <1>7, <2>1, <3>1
    <3>2. CASE l > 0
      <4>1. 1 \in 1 .. l
        BY <1>4, <3>2
      <4> QED BY <1>6, <2>1, <3>2, <4>1
    <3> QED BY <1>4, <3>1, <3>2
  <2>5. mutations'[r][l + 1].start + mutations'[r][l + 1].count = Len(rows'[r])
    <3>1. n + (g - n) = g
      BY <1>4
    <3> QED BY <1>5, <1>7, <3>1
  <2>6. mutations'[r] # <<>>
    <3>1. l + 1 # 0
      BY <1>4
    <3> QED BY <1>6, <3>1
  <2>7. \A i \in 1 .. l + 1 : Fits(i, mutations'[r], rows'[r])
    <3> HIDE DEF Fits
    <3> QED BY <1>12, <2>2, <2>3
  <2> QED BY <1>6, <2>4, <2>5, <2>6, <2>7 DEF Tiled
<1>15. Once(r)'
  <2>1. \A i \in 1 .. l : mutations[r][i].cmd # c
    BY <1>3, <1>9 DEF already_applied
  <2> SUFFICES ASSUME NEW i \in 1 .. l + 1, NEW j \in 1 .. l + 1,
                      mutations'[r][i].cmd = mutations'[r][j].cmd
               PROVE  i = j
    BY <1>6 DEF Once
  <2>2. CASE i \in 1 .. l /\ j \in 1 .. l
    BY <1>2, <1>6, <2>2 DEF Once, l
  <2>3. CASE i \in 1 .. l /\ j = l + 1
    BY <1>6, <1>7, <2>1, <2>3
  <2>4. CASE j \in 1 .. l /\ i = l + 1
    BY <1>6, <1>7, <2>1, <2>4
  <2> QED BY <1>12, <2>2, <2>3, <2>4
<1>16. ASSUME NEW i \in 0 .. l, NEW body, FromBody(r, i, body)
       PROVE  \E j \in 1 .. i :
                  /\ mutations'[r][j].cmd.kind # "publication"
                  /\ mutations'[r][j].cmd.body = body
                  /\ \A k \in j + 1 .. i : mutations'[r][k].cmd.kind = "publication"
  <2>1. PICK j \in 1 .. i : /\ mutations[r][j].cmd.kind # "publication"
                            /\ mutations[r][j].cmd.body = body
                            /\ \A k \in j + 1 .. i : mutations[r][k].cmd.kind = "publication"
    BY <1>16 DEF FromBody
  <2>2. \A k \in 1 .. i : k \in 1 .. l
    BY <1>4
  <2>3. \A k \in 1 .. i : mutations'[r][k] = mutations[r][k]
    BY <1>6, <2>2
  <2>4. \A k \in j + 1 .. i : k \in 1 .. i
    OBVIOUS
  <2> QED BY <2>1, <2>3, <2>4
<1>17. Derived(r)'
  <2> DEFINE Written(i, body) ==
                 \E j \in 1 .. i :
                    /\ mutations'[r][j].cmd.kind # "publication"
                    /\ mutations'[r][j].cmd.body = body
                    /\ \A k \in j + 1 .. i : mutations'[r][k].cmd.kind = "publication"
             Sound(i, m) ==
                 /\ Len(m.cmd.expected.history) = m.start
                 /\ \A k \in 1 .. m.start :
                       /\ rows'[r][k].state = m.cmd.expected.history[k].state
                       /\ rows'[r][k].attempt = m.cmd.expected.history[k].attempt
                 /\ Written(i - 1, m.cmd.expected.body)
  <2>0. ASSUME NEW i \in 0 .. l, NEW body, FromBody(r, i, body) PROVE Written(i, body)
    BY <1>16, <2>0
  <2> HIDE DEF Written
  <2>1. ASSUME NEW i \in 1 .. l, mutations'[r][i].cmd.kind = "transition"
        PROVE  Sound(i, mutations'[r][i])
    <3> DEFINE m == mutations[r][i]
    <3>1. mutations'[r][i] = m /\ i - 1 \in 0 .. l
      BY <1>4, <1>6
    <3>2. /\ Len(m.cmd.expected.history) = m.start
          /\ \A k \in 1 .. m.start : /\ rows[r][k].state = m.cmd.expected.history[k].state
                                     /\ rows[r][k].attempt = m.cmd.expected.history[k].attempt
          /\ FromBody(r, i - 1, m.cmd.expected.body)
      BY <1>2, <2>1, <3>1 DEF Derived, l
    <3>3. m.start + m.count <= n
      BY <1>2 DEF Tiled, l, n
    <3>4. m.start \in Nat /\ m.count \in Nat
      BY <1>10
    <3> HIDE DEF m
    <3>5. \A k \in 1 .. m.start : k \in 1 .. n
      BY <1>4, <3>3, <3>4
    <3>6. \A k \in 1 .. m.start : rows'[r][k] = rows[r][k]
      BY <1>5, <3>5
    <3>7. Written(i - 1, m.cmd.expected.body)
      BY <2>0, <3>1, <3>2
    <3> QED BY <3>1, <3>2, <3>6, <3>7
  <2>2. ASSUME mutations'[r][l + 1].cmd.kind = "transition"
        PROVE  Sound(l + 1, mutations'[r][l + 1])
    <3>1. records[r] # None /\ records[r] = c.expected
      BY <1>7, <2>2 DEF Commits
    <3>2. Story(r) = c.expected.history
      BY <3>1 DEF Story
    <3>3. \A k \in 1 .. n : /\ rows[r][k].state = c.expected.history[k].state
                            /\ rows[r][k].attempt = c.expected.history[k].attempt
      BY <1>2, <3>2 DEF Mirrored, n
    <3>4. FromBody(r, l, c.expected.body)
      BY <1>2, <3>1 DEF LastWords, l
    <3>5. Written(l, c.expected.body)
      BY <1>12, <2>0, <3>4
    <3>6. Len(c.expected.history) = n
      BY <1>4, <3>2
    <3>7. \A k \in 1 .. n : /\ rows'[r][k].state = c.expected.history[k].state
                            /\ rows'[r][k].attempt = c.expected.history[k].attempt
      BY <1>5, <3>3
    <3> QED BY <1>7, <1>12, <3>5, <3>6, <3>7
  <2>3. ASSUME NEW i \in 1 .. l + 1, mutations'[r][i].cmd.kind = "transition"
        PROVE  Sound(i, mutations'[r][i])
    <3> HIDE DEF Sound
    <3>1. CASE i \in 1 .. l
      BY <2>1, <2>3, <3>1
    <3>2. CASE i = l + 1
      BY <2>2, <2>3, <3>2
    <3> QED BY <1>12, <3>1, <3>2
  <2> USE DEF Written
  <2> QED BY <1>6, <2>3 DEF Derived, FromBody
<1>18. LastWords(r)'
  <2>1. g > 0 /\ env.state = env.history[g].state
    BY <1>3, <1>4 DEF Extends, g
  <2>2. \E j \in 1 .. l + 1 :
           /\ mutations'[r][j].cmd.kind # "publication"
           /\ mutations'[r][j].cmd.body = env.body
           /\ \A k \in j + 1 .. l + 1 : mutations'[r][k].cmd.kind = "publication"
    <3>1. CASE c.kind = "publication"
      <4>1. records[r] # None /\ env.body = records[r].body
        BY <3>1 DEF Commits
      <4>2. FromBody(r, l, env.body)
        BY <1>2, <4>1 DEF LastWords, l
      <4>3. PICK j \in 1 .. l : /\ mutations'[r][j].cmd.kind # "publication"
                                /\ mutations'[r][j].cmd.body = env.body
                                /\ \A k \in j + 1 .. l : mutations'[r][k].cmd.kind = "publication"
        BY <1>12, <1>16, <4>2
      <4>4. /\ j \in 1 .. l + 1
            /\ \A k \in j + 1 .. l + 1 : k \in j + 1 .. l \/ k = l + 1
        BY <1>4
      <4>5. \A k \in j + 1 .. l + 1 : mutations'[r][k].cmd.kind = "publication"
        BY <1>7, <3>1, <4>3, <4>4
      <4> QED BY <4>3, <4>4, <4>5
    <3>2. CASE c.kind # "publication"
      <4>1. env.body = c.body
        BY <3>2 DEF Commits
      <4>2. l + 1 \in 1 .. l + 1 /\ l + 1 + 1 .. l + 1 = {}
        BY <1>4
      <4> QED BY <1>7, <3>2, <4>1, <4>2
    <3> QED BY <3>1, <3>2
  <2>3. Len(env.history) > 0 /\ env.state = env.history[Len(env.history)].state
    BY <2>1 DEF g
  <2> QED BY <1>1, <1>6, <2>2, <2>3 DEF LastWords, FromBody
<1>19. Exports(r)'
  <2>1. ASSUME NEW k \in 1 .. n
        PROVE  /\ rows'[r][k].by.kind = "publication" => rows'[r][k].state = "Exported"
               /\ rows'[r][k].state = "Exported" => env.state = "Exported"
    <3>1. /\ rows'[r][k] = rows[r][k]
          /\ rows[r][k].by.kind = "publication" => rows[r][k].state = "Exported"
          /\ rows[r][k].state = "Exported" => records[r].state = "Exported"
      BY <1>2, <1>5 DEF Exports, n
    <3>2. records[r] # None
      <4>1. n > 0
        BY <1>4
      <4> QED BY <1>2, <4>1 DEF Mirrored, n
    <3>3. c.kind = "publication" \/ (c.kind = "transition" /\ records[r].state # "Exported")
      BY <1>3, <3>2 DEF Commits, Command, Publication
    <3>4. c.kind = "publication" => env.state = "Exported"
      <4>1. Len(env.history) \in NewEntries(r, env)
        BY <1>4 DEF NewEntries, g
      <4> QED BY <1>3, <4>1 DEF Commits, Extends
    <3> QED BY <3>1, <3>3, <3>4
  <2>2. ASSUME NEW k \in n + 1 .. g
        PROVE  /\ rows'[r][k].by.kind = "publication" => rows'[r][k].state = "Exported"
               /\ rows'[r][k].state = "Exported" => env.state = "Exported"
    <3>1. rows'[r][k].by = c /\ rows'[r][k].state = env.history[k].state
      BY <1>5
    <3>2. k \in NewEntries(r, env) /\ Len(env.history) \in NewEntries(r, env)
      BY <1>4 DEF NewEntries, g
    <3>3. env.state = env.history[Len(env.history)].state
      BY <1>3 DEF Extends
    <3>4. /\ c.kind = "publication" => env.history[k].state = "Exported" /\ env.state = "Exported"
          /\ c.kind # "publication" => env.history[k].state # "Exported"
      BY <3>2, <3>3 DEF Commits
    <3> QED BY <3>1, <3>4
  <2>3. ASSUME NEW k \in 1 .. Len(rows'[r])
        PROVE  /\ rows'[r][k].by.kind = "publication" => rows'[r][k].state = "Exported"
               /\ rows'[r][k].state = "Exported" => env.state = "Exported"
    BY <1>5, <1>12, <2>1, <2>2
  <2> QED BY <1>1, <2>3 DEF Exports
<1>20. Told(r)'
  BY <1>13, <1>14, <1>15, <1>17, <1>18, <1>19 DEF Told
<1>21. ASSUME NEW q \in RecordIds, q # r PROVE Told(q)'
  <2>1. Told(q) /\ Same(q)
    BY <1>1, <1>21 DEF IInv
  <2>2. records'[q] = records[q] /\ rows'[q] = rows[q] /\ mutations'[q] = mutations[q]
    BY <2>1 DEF Same
  <2>3. Mirrored(q)' /\ Tiled(q)' /\ Once(q)'
    BY <2>1, <2>2 DEF Told, Mirrored, Tiled, Once, Story
  <2>4. LastWords(q)' /\ Exports(q)'
    BY <2>1, <2>2 DEF Told, LastWords, Exports, FromBody
  <2>5. Derived(q)'
    BY <2>1, <2>2 DEF Told, Derived, FromBody
  <2> QED BY <2>3, <2>4, <2>5 DEF Told
<1> QED BY <1>20, <1>21

------------------------------------------------------------------------------
(* What a step keeps                                                       *)

\* Of record r: what committed stays, what is dead stays dead, and the record is the same
\* or longer by a suffix.
Keeps(r) ==
    /\ \A c : already_applied(r, c) => already_applied(r, c)'
    /\ \A c \in Command : Dead(r, c) => Dead(r, c)'
    /\ records[r] # None => /\ records'[r] # None
                            /\ Prefix(records[r].history, records'[r].history)
                            /\ \/ records'[r] = records[r]
                               \/ Len(records'[r].history) > Len(records[r].history)

\* A stored record is a well-typed envelope.
LEMMA Envelopes ==
    ASSUME TablesTyped, NEW r \in RecordIds, records[r] # None
    PROVE  records[r] \in Envelope /\ Len(records[r].history) \in Nat
<1>1. records[r] \in Envelope
  BY DEF TablesTyped
<1> QED BY <1>1 DEF Envelope

\* A commit is remembered, and keeps what committed and what is dead.
LEMMA CommitKeeps ==
    ASSUME IInv, NEW r \in RecordIds, NEW env, NEW c, Commits(r, env, c)
    PROVE  Keeps(r) /\ already_applied(r, c)'
<1> DEFINE l == Len(mutations[r])
<1>1. /\ env \in Envelope /\ records'[r] = env
      /\ RowsAfter(r, env, c) /\ MutationsAfter(r, env, c) /\ TablesTyped'
  BY Committed
<1>2. /\ l \in Nat /\ Len(mutations'[r]) = l + 1 /\ mutations'[r][l + 1].cmd = c
      /\ \A i \in 1 .. l : mutations'[r][i] = mutations[r][i]
  BY <1>1 DEF MutationsAfter
<1>3. DOMAIN mutations[r] = 1 .. l /\ DOMAIN mutations'[r] = 1 .. l + 1
  BY <1>1, <1>2 DEF IInv, TypeOK, TablesTyped
<1> HIDE DEF l
<1>4. already_applied(r, c)'
  <2>1. l + 1 \in 1 .. l + 1
    BY <1>2
  <2> QED BY <1>2, <1>3, <2>1 DEF already_applied
<1>5. ASSUME NEW d, already_applied(r, d) PROVE already_applied(r, d)'
  <2>1. PICK i \in 1 .. l : mutations[r][i].cmd = d
    BY <1>3, <1>5 DEF already_applied
  <2>2. i \in 1 .. l + 1
    BY <1>2
  <2> QED BY <1>2, <1>3, <2>1, <2>2 DEF already_applied
<1>6. ASSUME NEW d, ~ already_applied(r, d), d # c PROVE ~ already_applied(r, d)'
  <2>1. \A i \in 1 .. l + 1 : i \in 1 .. l \/ i = l + 1
    BY <1>2
  <2> QED BY <1>2, <1>3, <1>6, <2>1 DEF already_applied
<1>7. ASSUME records[r] # None
      PROVE  /\ Len(records[r].history) \in Nat /\ Len(env.history) \in Nat
             /\ Len(records[r].history) < Len(env.history)
             /\ Prefix(records[r].history, env.history)
  <2>1. Story(r) = records[r].history
    BY <1>7 DEF Story
  <2>2. /\ Len(env.history) \in Nat /\ Len(Story(r)) \in Nat
    BY <1>1 DEF RowsAfter
  <2>3. /\ Len(Story(r)) < Len(env.history)
        /\ \A k \in 1 .. Len(Story(r)) : env.history[k] = Story(r)[k]
    BY DEF Commits, Extends
  <2> QED BY <2>1, <2>2, <2>3 DEF Prefix
<1>8. env # None
  BY <1>1, NoneAssumption
<1>9. ASSUME NEW d \in Command, Dead(r, d) PROVE Dead(r, d)'
  <2>1. /\ ~ already_applied(r, d) /\ records[r] # None
        /\ d.kind = "transition" =>
              Len(records[r].history) > Len(d.expected.history) \/ ~ CanAppend(d.expected)
    BY <1>9 DEF Dead
  <2>2. d # c
    <3> SUFFICES ASSUME d = c PROVE FALSE
      OBVIOUS
    <3>1. d.kind \in {"insert", "insert_transition", "transition"}
      BY DEF Command
    <3>2. /\ d.kind \in {"insert", "insert_transition"} => records[r] = None
          /\ d.kind = "transition" => records[r] = d.expected /\ CanAppend(d.expected)
      BY DEF Commits
    <3>3. d.kind = "transition" /\ Len(records[r].history) > Len(records[r].history)
      BY <2>1, <3>1, <3>2
    <3> QED BY <1>7, <2>1, <3>3
  <2>3. ~ already_applied(r, d)'
    BY <1>6, <2>1, <2>2
  <2>4. d.kind = "transition" =>
           Len(env.history) > Len(d.expected.history) \/ ~ CanAppend(d.expected)
    <3> SUFFICES ASSUME d.kind = "transition", CanAppend(d.expected)
                 PROVE  Len(env.history) > Len(d.expected.history)
      OBVIOUS
    <3>1. d.expected \in Envelope \/ d.expected = None
      BY DEF Command
    <3>2. Len(d.expected.history) < Len(records[r].history)
      BY <2>1
    <3> QED BY <1>7, <2>1, <3>2
  <2> QED BY <1>1, <1>8, <2>3, <2>4 DEF Dead
<1> QED BY <1>1, <1>4, <1>5, <1>7, <1>8, <1>9 DEF Keeps

\* Every step keeps the tables typed, their story straight and what committed.
LEMMA TablesStep ==
    ASSUME IInv, [Next]_vars
    PROVE  TablesTyped' /\ \A q \in RecordIds : Told(q)' /\ Keeps(q)
<1>1. TablesTyped /\ \A q \in RecordIds : Told(q)
  BY DEF IInv, TypeOK, TablesTyped
<1>2. ASSUME NEW q \in RecordIds, records'[q] = records[q], mutations'[q] = mutations[q]
      PROVE  Keeps(q)
  <2>1. records[q] # None => Prefix(records[q].history, records[q].history)
    BY <1>1, Envelopes DEF Prefix
  <2> QED BY <1>2, <2>1 DEF Keeps, Dead, already_applied
<1>3. CASE UNCHANGED Tables
  <2>1. \A q \in RecordIds : Keeps(q)
    BY <1>2, <1>3 DEF Tables
  <2>2. ASSUME NEW q \in RecordIds PROVE Told(q)'
    <3>1. Mirrored(q)' /\ Tiled(q)' /\ Once(q)'
      BY <1>1, <1>3 DEF Tables, Told, Mirrored, Tiled, Once, Story
    <3>2. LastWords(q)' /\ Exports(q)'
      BY <1>1, <1>3 DEF Tables, Told, LastWords, Exports, FromBody
    <3>3. Derived(q)'
      BY <1>1, <1>3 DEF Tables, Told, Derived, FromBody
    <3> QED BY <3>1, <3>2, <3>3 DEF Told
  <2> QED BY <1>1, <1>3, <2>1, <2>2 DEF Tables, TablesTyped
<1>4. ASSUME NEW r \in RecordIds, NEW env, NEW c, Commits(r, env, c)
      PROVE  TablesTyped' /\ \A q \in RecordIds : Told(q)' /\ Keeps(q)
  <2>1. TablesTyped' /\ \A q \in RecordIds : q # r => Same(q)
    BY <1>4, Committed
  <2>2. \A q \in RecordIds : Told(q)'
    BY <1>4, ToldStep
  <2>3. Keeps(r)
    BY <1>4, CommitKeeps
  <2>4. ASSUME NEW q \in RecordIds, q # r PROVE Keeps(q)
    BY <1>2, <2>1, <2>4 DEF Same
  <2> QED BY <2>1, <2>2, <2>3, <2>4
<1> QED BY <1>3, <1>4, CommitStep

------------------------------------------------------------------------------
(* What a step does to the writers                                         *)

Desk == [pc : {"idle", "sent", "unknown", "answered"},
         rid : RecordIds \cup {None}, cmd : Command \cup {None},
         seen : Envelope \cup {None}, status : Status \cup {None}]

\* Writer w is the only one whose local state changes, to d.
Turns(w, d) == /\ d \in Desk /\ writer' \in [Writers -> Desk] /\ writer'[w] = d
               /\ \A v \in Writers : v # w => writer'[v] = writer[v]

\* What writer w asked for and was told still holds, and an answer Applied is news.
Kept(w) == /\ Asked(w)' /\ Answered(w)'
           /\ \/ writer'[w] = writer[w]
              \/ /\ writer'[w].status = "Applied" /\ writer'[w].pc = "answered"
                    => ~ already_applied(writer'[w].rid, writer'[w].cmd)

\* The prefix order on histories is transitive.
LEMMA PrefixOfPrefix ==
    ASSUME NEW f, NEW g, NEW h, Len(f) \in Nat, Len(g) \in Nat, Len(h) \in Nat,
           Prefix(f, g), Prefix(g, h)
    PROVE  Prefix(f, h)
<1>1. \A k \in 1 .. Len(f) : k \in 1 .. Len(g)
  BY DEF Prefix
<1> QED BY <1>1 DEF Prefix

\* A transaction answers the caller, or the answer is lost.
LEMMA Replied ==
    ASSUME writer \in [Writers -> Desk], NEW w \in Writers, NEW status \in Status,
           NEW env \in Envelope \cup {None}, Reply(w, status, env)
    PROVE  \E d : /\ Turns(w, d) /\ d.rid = writer[w].rid /\ d.cmd = writer[w].cmd
                  /\ \/ d.pc = "unknown"
                     \/ d.pc = "answered" /\ d.status = status /\ d.seen = env
<1>1. writer[w] \in Desk
  OBVIOUS
<1>2. CASE Answer(w, status, env)
  <2> DEFINE d == [writer[w] EXCEPT !.pc = "answered", !.status = status, !.seen = env]
  <2>1. writer' = [writer EXCEPT ![w] = d]
    BY <1>2 DEF Answer
  <2>2. /\ d \in Desk /\ d.rid = writer[w].rid /\ d.cmd = writer[w].cmd
        /\ d.pc = "answered" /\ d.status = status /\ d.seen = env
    BY <1>1 DEF Desk
  <2> HIDE DEF d, Desk
  <2>3. Turns(w, d)
    BY <2>1, <2>2 DEF Turns
  <2> QED BY <2>2, <2>3
<1>3. CASE LoseAnswer(w)
  <2> DEFINE d == [writer[w] EXCEPT !.pc = "unknown"]
  <2>1. writer' = [writer EXCEPT ![w] = d]
    BY <1>3 DEF LoseAnswer
  <2>2. d \in Desk /\ d.rid = writer[w].rid /\ d.cmd = writer[w].cmd /\ d.pc = "unknown"
    BY <1>1 DEF Desk
  <2> HIDE DEF d, Desk
  <2>3. Turns(w, d)
    BY <2>1, <2>2 DEF Turns
  <2> QED BY <2>2, <2>3
<1> QED BY <1>2, <1>3 DEF Reply

\* What a caller asked for stays as it was, whatever the tables did.
LEMMA AskedKept ==
    ASSUME TablesTyped, NEW w \in Writers, Asked(w), \A q \in RecordIds : Keeps(q),
           writer[w].pc # "idle",
           writer'[w].rid = writer[w].rid, writer'[w].cmd = writer[w].cmd
    PROVE  Asked(w)'
<1> DEFINE r == writer[w].rid
           c == writer[w].cmd
<1>1. /\ r \in RecordIds /\ c \in Command
      /\ c.kind # "transition" => c.to \in {None, "Error"}
      /\ c.kind = "transition" =>
            /\ c.expected \in Envelope /\ c.to \in LifecycleState
            /\ c.expected.state # "Exported" /\ c.to # "Exported"
            /\ records[r] # None
            /\ records[r] = c.expected \/ Len(records[r].history) > Len(c.expected.history)
  BY DEF Asked
<1>2. Keeps(r)
  BY <1>1
<1> HIDE DEF r, c
<1>3. c.kind = "transition" =>
         /\ records'[r] # None
         /\ records'[r] = c.expected \/ Len(records'[r].history) > Len(c.expected.history)
  <2> SUFFICES ASSUME c.kind = "transition"
               PROVE  /\ records'[r] # None
                      /\ \/ records'[r] = c.expected
                         \/ Len(records'[r].history) > Len(c.expected.history)
    OBVIOUS
  <2>1. /\ records'[r] # None
        /\ records'[r] = records[r] \/ Len(records'[r].history) > Len(records[r].history)
    BY <1>1, <1>2 DEF Keeps
  <2>2. CASE records'[r] = records[r]
    BY <1>1, <2>1, <2>2
  <2>3. CASE Len(records'[r].history) > Len(records[r].history)
    <3>1. Prefix(records[r].history, records'[r].history)
      BY <1>1, <1>2 DEF Keeps
    <3>2. Len(c.expected.history) \in Nat /\ Len(records[r].history) \in Nat
      BY <1>1, Envelopes DEF Envelope
    <3>3. Len(c.expected.history) <= Len(records[r].history)
      BY <1>1, <3>2
    <3> QED BY <2>1, <2>3, <3>2, <3>3
  <2> QED BY <2>1, <2>2, <2>3
<1>4. writer'[w].rid = r /\ writer'[w].cmd = c
  BY DEF r, c
<1> QED BY <1>1, <1>3, <1>4 DEF Asked

\* A caller that takes no step keeps its command and its answer.
LEMMA WriterKept ==
    ASSUME IInv, TablesTyped', NEW w \in Writers, \A q \in RecordIds : Keeps(q),
           writer'[w] = writer[w]
    PROVE  Kept(w)
<1> DEFINE r == writer[w].rid
           c == writer[w].cmd
<1>1. Asked(w) /\ Answered(w) /\ TablesTyped
  BY DEF IInv, TypeOK, TablesTyped
<1>2. CASE writer[w].pc = "idle"
  BY <1>2 DEF Kept, Asked, Answered
<1>3. CASE writer[w].pc # "idle"
  <2>1. Asked(w)'
    BY <1>1, <1>3, AskedKept
  <2>2. r \in RecordIds /\ c \in Command
    BY <1>1, <1>3 DEF Asked
  <2>3. Keeps(r)
    BY <2>2
  <2>4. ASSUME writer[w].pc = "answered", writer[w].status \in {"Applied", "AlreadyApplied"}
        PROVE  /\ already_applied(r, c)'
               /\ writer[w].seen \in Envelope /\ records'[r] # None
               /\ Prefix(writer[w].seen.history, records'[r].history)
    <3>1. /\ already_applied(r, c)
          /\ writer[w].seen \in Envelope /\ records[r] # None
          /\ Prefix(writer[w].seen.history, records[r].history)
      BY <1>1, <2>4 DEF Answered
    <3>2. /\ already_applied(r, c)' /\ records'[r] # None
          /\ Prefix(records[r].history, records'[r].history)
      BY <2>3, <3>1 DEF Keeps
    <3>3. /\ Len(writer[w].seen.history) \in Nat /\ Len(records[r].history) \in Nat
          /\ Len(records'[r].history) \in Nat
      <4>1. records[r] \in Envelope /\ records'[r] \in Envelope
        BY <1>1, <2>2, <3>1, <3>2 DEF TablesTyped
      <4> QED BY <3>1, <4>1 DEF Envelope
    <3>4. Prefix(writer[w].seen.history, records'[r].history)
      BY <3>1, <3>2, <3>3, PrefixOfPrefix
    <3> QED BY <3>1, <3>2, <3>4
  <2>5. ASSUME writer[w].pc = "answered", writer[w].status \notin {"Applied", "AlreadyApplied"}
        PROVE  Dead(r, c)'
    <3>1. Dead(r, c)
      BY <1>1, <2>5 DEF Answered
    <3> QED BY <2>2, <2>3, <3>1 DEF Keeps
  <2>6. Answered(w)'
    BY <2>4, <2>5 DEF Answered
  <2> QED BY <2>1, <2>6 DEF Kept
<1> QED BY <1>2, <1>3

\* What writer w holds after it acted.
Acts(w) == \/ Transact(w) \/ Retry(w) \/ Crash(w)
           \/ \E r \in RecordIds : SendInsert(w, r) \/ SendTransition(w, r)

\* A transaction that refuses, or finds the command committed before.
LEMMA WriterTold ==
    ASSUME IInv, TablesTyped', NEW w \in Writers, \A q \in RecordIds : Keeps(q),
           RecognizeEarlierCommit(w) \/ InsertConflict(w) \/ TransitionRefused(w)
    PROVE  (\E d : Turns(w, d)) /\ Kept(w)
<1>0. PICK r, c : r = writer[w].rid /\ c = writer[w].cmd
  OBVIOUS
<1>1. /\ Asked(w) /\ TablesTyped /\ writer \in [Writers -> Desk]
      /\ \A q \in RecordIds : Mirrored(q)
  BY DEF IInv, TypeOK, TablesTyped, Desk, Told
<1>2. writer[w].pc = "sent" /\ records' = records /\ mutations' = mutations
  BY DEF RecognizeEarlierCommit, InsertConflict, TransitionRefused
<1>3. /\ r \in RecordIds /\ c \in Command
      /\ c.kind = "transition" =>
            /\ records[r] # None
            /\ records[r] = c.expected \/ Len(records[r].history) > Len(c.expected.history)
  BY <1>0, <1>1, <1>2 DEF Asked
<1>4. ASSUME NEW d, d.rid = r, d.cmd = c, Turns(w, d) PROVE Asked(w)'
  <2>1. writer'[w].rid = writer[w].rid /\ writer'[w].cmd = writer[w].cmd
    BY <1>0, <1>4 DEF Turns
  <2> QED BY <1>1, <1>2, <2>1, AskedKept
<1>5. ASSUME NEW d, d.rid = r, d.cmd = c, Turns(w, d),
             \/ d.pc = "unknown"
             \/ /\ d.pc = "answered" /\ d.status = "AlreadyApplied"
                /\ already_applied(r, c) /\ d.seen = records[r]
             \/ /\ d.pc = "answered" /\ d.status \in {"Conflict", "NotFound", "Exhausted"}
                /\ Dead(r, c)
      PROVE  Kept(w)
  <2>1. writer'[w] = d
    BY <1>5 DEF Turns
  <2>2. CASE d.pc = "unknown"
    <3>1. Answered(w)'
      BY <2>1, <2>2 DEF Answered
    <3> QED BY <1>4, <1>5, <2>1, <2>2, <3>1 DEF Kept
  <2>3. CASE /\ d.pc = "answered" /\ d.status = "AlreadyApplied"
             /\ already_applied(r, c) /\ d.seen = records[r]
    <3>1. records[r] # None
      BY <1>1, <1>3, <2>3 DEF Mirrored, already_applied
    <3>2. records[r] \in Envelope /\ Prefix(records[r].history, records[r].history)
      BY <1>1, <1>3, <3>1, Envelopes DEF Prefix
    <3>3. already_applied(r, c)'
      BY <1>2, <2>3 DEF already_applied
    <3>4. Answered(w)'
      BY <1>2, <1>5, <2>1, <2>3, <3>1, <3>2, <3>3 DEF Answered
    <3> QED BY <1>4, <1>5, <2>1, <2>3, <3>4 DEF Kept
  <2>4. CASE /\ d.pc = "answered" /\ d.status \in {"Conflict", "NotFound", "Exhausted"}
             /\ Dead(r, c)
    <3>1. Dead(r, c)'
      BY <1>3, <2>4 DEF Keeps
    <3>2. Answered(w)'
      BY <1>5, <2>1, <2>4, <3>1 DEF Answered
    <3> QED BY <1>4, <1>5, <2>1, <2>4, <3>2 DEF Kept
  <2> QED BY <1>5, <2>2, <2>3, <2>4
<1>6. CASE RecognizeEarlierCommit(w)
  <2>1. already_applied(r, c) /\ Reply(w, "AlreadyApplied", records[r])
    BY <1>0, <1>6 DEF RecognizeEarlierCommit
  <2>2. "AlreadyApplied" \in Status /\ records[r] \in Envelope \cup {None}
    BY <1>1, <1>3 DEF Status, TablesTyped
  <2>3. PICK d : /\ Turns(w, d) /\ d.rid = r /\ d.cmd = c
                 /\ \/ d.pc = "unknown"
                    \/ d.pc = "answered" /\ d.status = "AlreadyApplied" /\ d.seen = records[r]
    BY <1>0, <1>1, <2>1, <2>2, Replied
  <2> QED BY <1>5, <2>1, <2>3
<1>7. ASSUME NEW status \in {"Conflict", "NotFound", "Exhausted"}, Dead(r, c),
             Answer(w, status, None)
      PROVE  (\E d : Turns(w, d)) /\ Kept(w)
  <2>1. status \in Status /\ Reply(w, status, None)
    BY <1>7 DEF Status, Reply
  <2>2. PICK d : /\ Turns(w, d) /\ d.rid = r /\ d.cmd = c
                 /\ \/ d.pc = "unknown"
                    \/ d.pc = "answered" /\ d.status = status /\ d.seen = None
    BY <1>0, <1>1, <2>1, Replied
  <2> QED BY <1>5, <1>7, <2>2
<1>8. CASE InsertConflict(w)
  <2>1. Dead(r, c) /\ Answer(w, "Conflict", None)
    BY <1>0, <1>8 DEF InsertConflict, Dead
  <2> QED BY <1>7, <2>1
<1>9. CASE TransitionRefused(w)
  <2>1. /\ c.kind = "transition" /\ ~ already_applied(r, c)
        /\ \/ records[r] = None
           \/ /\ records[r] # None /\ records[r] # c.expected
              /\ Answer(w, "Conflict", None)
           \/ /\ records[r] = c.expected /\ ~ CanAppend(c.expected)
              /\ Answer(w, "Exhausted", None)
    BY <1>0, <1>9 DEF TransitionRefused
  <2>2. Dead(r, c)
    BY <1>3, <2>1 DEF Dead
  <2> QED BY <1>3, <1>7, <2>1, <2>2
<1> QED BY <1>6, <1>8, <1>9

\* A transaction that commits.
LEMMA WriterApplied ==
    ASSUME IInv, TablesTyped', NEW w \in Writers, \A q \in RecordIds : Keeps(q),
           InsertApply(w) \/ TransitionApply(w)
    PROVE  (\E d : Turns(w, d)) /\ Kept(w)
<1>0. PICK r, c : r = writer[w].rid /\ c = writer[w].cmd
  OBVIOUS
<1>1. Asked(w) /\ TablesTyped /\ writer \in [Writers -> Desk]
  BY DEF IInv, TypeOK, TablesTyped, Desk
<1>2. writer[w].pc = "sent" /\ ~ already_applied(r, c)
  BY <1>0 DEF InsertApply, TransitionApply
<1>3. r \in RecordIds /\ c \in Command
  BY <1>0, <1>1, <1>2 DEF Asked
<1>4. \E e, n : Store(r, e, n, c) /\ Reply(w, "Applied", e)
  BY <1>0 DEF InsertApply, TransitionApply
<1>5. PICK env, n : Store(r, env, n, c) /\ Reply(w, "Applied", env)
  BY <1>4
<1>6. /\ records'[r] = env
      /\ \E m : mutations'[r] = Append(mutations[r], [cmd |-> c, start |-> n, count |-> m])
  BY <1>1, <1>3, <1>5 DEF Store, TablesTyped
<1>7. PICK m : mutations'[r] = Append(mutations[r], [cmd |-> c, start |-> n, count |-> m])
  BY <1>6
<1>8. already_applied(r, c)'
  <2>1. mutations[r] \in Seq(Mutation) /\ mutations'[r] \in Seq(Mutation)
    BY <1>1, <1>3 DEF TablesTyped
  <2> DEFINE receipt == [cmd |-> c, start |-> n, count |-> m]
  <2>2. mutations'[r] = Append(mutations[r], receipt) /\ receipt.cmd = c
    BY <1>7
  <2> HIDE DEF receipt, Mutation
  <2>3. /\ Len(mutations[r]) + 1 \in DOMAIN mutations'[r]
        /\ mutations'[r][Len(mutations[r]) + 1] = receipt
    BY <2>1, <2>2
  <2> QED BY <2>2, <2>3 DEF already_applied
<1>9. env \in Envelope
  <2>1. \/ UNCHANGED Tables
        \/ \E q \in RecordIds : \E e, d : Commits(q, e, d)
    BY CommitStep DEF Next, Transact
  <2>2. CASE UNCHANGED Tables
    <3>1. already_applied(r, c)
      BY <1>8, <2>2 DEF already_applied, Tables
    <3> QED BY <1>2, <3>1
  <2>3. CASE \E q \in RecordIds : \E e, d : Commits(q, e, d)
    <3>1. PICK q, e, d : q \in RecordIds /\ Commits(q, e, d)
      BY <2>3
    <3>2. /\ e \in Envelope /\ records'[q] = e
          /\ \A p \in RecordIds : p # q => Same(p)
      BY <3>1, Committed
    <3>3. q = r
      <4> SUFFICES ASSUME q # r PROVE FALSE
        OBVIOUS
      <4>1. mutations'[r] = mutations[r]
        BY <1>3, <3>2 DEF Same
      <4> QED BY <1>2, <1>8, <4>1 DEF already_applied
    <3> QED BY <1>6, <3>2, <3>3
  <2> QED BY <2>1, <2>2, <2>3
<1>10. PICK d : /\ Turns(w, d) /\ d.rid = r /\ d.cmd = c
                /\ \/ d.pc = "unknown"
                   \/ d.pc = "answered" /\ d.status = "Applied" /\ d.seen = env
  BY <1>0, <1>1, <1>5, <1>9, Replied DEF Status
<1>11. writer'[w] = d
  BY <1>10 DEF Turns
<1>12. Asked(w)'
  BY <1>0, <1>1, <1>2, <1>10, <1>11, AskedKept
<1>13. Answered(w)'
  <2>1. env # None /\ Prefix(env.history, env.history)
    <3>1. Len(env.history) \in Nat
      BY <1>9 DEF Envelope
    <3> QED BY <1>9, <3>1, NoneAssumption DEF Prefix
  <2> QED BY <1>6, <1>8, <1>9, <1>10, <1>11, <2>1 DEF Answered
<1> QED BY <1>2, <1>10, <1>11, <1>12, <1>13 DEF Kept

\* A caller that reads and sends, sends again, or dies.
LEMMA WriterCalls ==
    ASSUME IInv, TablesTyped', NEW w \in Writers, \A q \in RecordIds : Keeps(q),
           \/ Retry(w) \/ Crash(w)
           \/ \E r \in RecordIds : SendInsert(w, r) \/ SendTransition(w, r)
    PROVE  (\E d : Turns(w, d)) /\ Kept(w)
<1>1. /\ Asked(w) /\ TablesTyped /\ writer \in [Writers -> Desk] /\ writer[w] \in Desk
  BY DEF IInv, TypeOK, TablesTyped, Desk
<1>2. CASE Retry(w)
  <2> DEFINE d == [writer[w] EXCEPT !.pc = "sent"]
  <2>1. writer' = [writer EXCEPT ![w] = d] /\ writer[w].pc = "unknown"
    BY <1>2 DEF Retry
  <2>2. d \in Desk /\ d.rid = writer[w].rid /\ d.cmd = writer[w].cmd /\ d.pc = "sent"
    BY <1>1 DEF Desk
  <2> HIDE DEF d, Desk
  <2>3. Turns(w, d)
    BY <1>1, <2>1, <2>2 DEF Turns
  <2>4. Asked(w)'
    BY <1>1, <2>1, <2>2, AskedKept
  <2>5. Answered(w)'
    BY <1>1, <2>1, <2>2 DEF Answered
  <2>6. writer'[w].pc = "sent"
    BY <1>1, <2>1, <2>2
  <2> QED BY <2>3, <2>4, <2>5, <2>6 DEF Kept
<1>3. CASE Crash(w)
  <2>1. writer' = [writer EXCEPT ![w] = Idle]
    BY <1>3 DEF Crash
  <2>2. Idle \in Desk /\ Idle.pc = "idle"
    BY DEF Idle, Desk
  <2>3. Turns(w, Idle)
    BY <1>1, <2>1, <2>2 DEF Turns
  <2>4. writer'[w].pc = "idle"
    BY <1>1, <2>1, <2>2
  <2>5. Asked(w)' /\ Answered(w)'
    BY <2>4 DEF Asked, Answered
  <2> QED BY <2>3, <2>4, <2>5 DEF Kept
<1>4. ASSUME NEW r \in RecordIds, NEW c \in Command, Issue(w, r, c),
             c.kind # "transition" => c.to \in {None, "Error"},
             c.kind = "transition" => /\ c.expected \in Envelope /\ c.to \in LifecycleState
                                      /\ c.expected.state # "Exported" /\ c.to # "Exported"
                                      /\ records[r] # None /\ records[r] = c.expected
      PROVE  (\E d : Turns(w, d)) /\ Kept(w)
  <2> DEFINE d == [pc |-> "sent", rid |-> r, cmd |-> c, seen |-> records[r], status |-> None]
  <2>1. writer' = [writer EXCEPT ![w] = d] /\ records' = records
    BY <1>4 DEF Issue
  <2>2. d \in Desk
    BY <1>1 DEF Desk, TablesTyped
  <2>3. d.pc = "sent" /\ d.rid = r /\ d.cmd = c
    OBVIOUS
  <2> HIDE DEF d, Desk
  <2>4. Turns(w, d) /\ writer'[w] = d
    BY <1>1, <2>1, <2>2 DEF Turns
  <2>5. Asked(w)'
    BY <1>4, <2>1, <2>3, <2>4 DEF Asked
  <2>6. Answered(w)'
    BY <2>3, <2>4 DEF Answered
  <2> QED BY <2>3, <2>4, <2>5, <2>6 DEF Kept
<1>5. ASSUME NEW r \in RecordIds, SendInsert(w, r)
      PROVE  (\E d : Turns(w, d)) /\ Kept(w)
  <2>1. PICK body \in Bodies :
           \/ Issue(w, r, [kind |-> "insert", expected |-> None,
                           body |-> body, to |-> None])
           \/ Issue(w, r, [kind |-> "insert_transition", expected |-> None,
                           body |-> body, to |-> "Error"])
    BY <1>5 DEF SendInsert
  <2> DEFINE insert == [kind |-> "insert", expected |-> None, body |-> body, to |-> None]
             park == [kind |-> "insert_transition", expected |-> None,
                      body |-> body, to |-> "Error"]
  <2>2. insert \in Command /\ insert.kind # "transition" /\ insert.to = None
    BY DEF Command
  <2>3. park \in Command /\ park.kind # "transition" /\ park.to = "Error"
    BY DEF Command, LifecycleState
  <2>4. Issue(w, r, insert) \/ Issue(w, r, park)
    BY <2>1
  <2> HIDE DEF insert, park
  <2> QED BY <1>4, <2>2, <2>3, <2>4
<1>6. ASSUME NEW r \in RecordIds, SendTransition(w, r)
      PROVE  (\E d : Turns(w, d)) /\ Kept(w)
  <2>1. /\ records[r] # None
        /\ \E body \in Bodies, to \in LifecycleState :
              /\ EngineEdge(records[r].state, to)
              /\ Issue(w, r, [kind |-> "transition", expected |-> records[r],
                              body |-> body, to |-> to])
    BY <1>6 DEF SendTransition
  <2>2. PICK body \in Bodies, to \in LifecycleState :
              /\ EngineEdge(records[r].state, to)
              /\ Issue(w, r, [kind |-> "transition", expected |-> records[r],
                              body |-> body, to |-> to])
    BY <2>1
  <2> DEFINE move == [kind |-> "transition", expected |-> records[r],
                      body |-> body, to |-> to]
  <2>3. records[r] \in Envelope
    BY <1>1, <2>1, Envelopes
  <2>4. records[r].state # "Exported" /\ to # "Exported"
    BY <2>2 DEF EngineEdge
  <2>5. move \in Command
    BY <2>3 DEF Command
  <2>6. PICK c : c = move
    OBVIOUS
  <2>7. /\ c \in Command /\ Issue(w, r, c) /\ c.kind = "transition"
        /\ c.expected = records[r] /\ c.to = to
    BY <2>2, <2>5, <2>6
  <2> QED BY <1>4, <2>1, <2>3, <2>4, <2>7
<1> QED BY <1>2, <1>3, <1>5, <1>6

\* A step changes at most one caller's local state, and every caller's claims hold after it.
LEMMA WriterStep ==
    ASSUME IInv, [Next]_vars
    PROVE  /\ writer' \in [Writers -> Desk]
           /\ \A v \in Writers : Kept(v)
           /\ \/ \A v \in Writers : writer'[v] = writer[v]
              \/ \E w \in Writers : \A v \in Writers : v # w => writer'[v] = writer[v]
<1>1. TablesTyped' /\ \A q \in RecordIds : Keeps(q)
  BY TablesStep
<1>2. writer \in [Writers -> Desk]
  BY DEF IInv, TypeOK, Desk
<1>3. CASE writer' = writer
  BY <1>1, <1>2, <1>3, WriterKept
<1>4. ASSUME NEW w \in Writers, Acts(w)
      PROVE  (\E d : Turns(w, d)) /\ Kept(w)
  BY <1>1, <1>4, WriterTold, WriterApplied, WriterCalls DEF Acts, Transact
<1>5. ASSUME NEW w \in Writers, (\E d : Turns(w, d)) /\ Kept(w)
      PROVE  /\ writer' \in [Writers -> Desk]
             /\ \A v \in Writers : Kept(v)
             /\ \A v \in Writers : v # w => writer'[v] = writer[v]
  <2>1. /\ writer' \in [Writers -> Desk]
        /\ \A v \in Writers : v # w => writer'[v] = writer[v]
    BY <1>5 DEF Turns
  <2>2. ASSUME NEW v \in Writers PROVE Kept(v)
    BY <1>1, <1>5, <2>1, WriterKept
  <2> QED BY <2>1, <2>2
<1>6. writer' = writer \/ \E w \in Writers : Acts(w)
  BY DEF Next, Acts, vars, AcknowledgeExport
<1> QED BY <1>3, <1>4, <1>5, <1>6

------------------------------------------------------------------------------
(* The invariant and the theorems                                          *)

\* A second caller of the same command finds it committed, so only one hears Applied.
LEMMA AppliedOnceStep ==
    ASSUME IInv, [Next]_vars
    PROVE  AppliedOnce'
<1> SUFFICES ASSUME NEW v \in Writers, NEW w \in Writers,
                    writer'[v].pc = "answered", writer'[w].pc = "answered",
                    writer'[v].status = "Applied", writer'[w].status = "Applied",
                    writer'[v].rid = writer'[w].rid, writer'[v].cmd = writer'[w].cmd,
                    v # w
             PROVE  FALSE
  BY DEF AppliedOnce
<1>1. ASSUME NEW x \in Writers, NEW y \in Writers, writer'[x] = writer[x],
             writer'[x].pc = "answered", writer'[y].pc = "answered",
             writer'[x].status = "Applied", writer'[y].status = "Applied",
             writer'[x].rid = writer'[y].rid, writer'[x].cmd = writer'[y].cmd,
             x # y
      PROVE  FALSE
  <2>1. Answered(x) /\ Kept(y)
    BY WriterStep DEF IInv
  <2>2. already_applied(writer'[y].rid, writer'[y].cmd)
    BY <1>1, <2>1 DEF Answered
  <2>3. writer'[y] = writer[y]
    BY <1>1, <2>1, <2>2 DEF Kept
  <2> QED BY <1>1, <2>3 DEF IInv, AppliedOnce
<1>2. writer'[v] = writer[v] \/ writer'[w] = writer[w]
  BY WriterStep
<1> QED BY <1>1, <1>2

\* The empty store satisfies the invariant.
LEMMA Start == Init => IInv
<1> SUFFICES ASSUME Init PROVE IInv
  OBVIOUS
<1>1. /\ \A r \in RecordIds : /\ records[r] = None /\ rows[r] = <<>> /\ mutations[r] = <<>>
                              /\ Story(r) = <<>>
      /\ \A w \in Writers : writer[w] = Idle
  BY DEF Init, Story
<1>2. TypeOK
  <2>1. Idle \in Desk
    BY DEF Idle, Desk
  <2>2. <<>> \in Seq(Row) /\ <<>> \in Seq(Mutation)
    <3> HIDE DEF Row, Mutation
    <3> QED OBVIOUS
  <2> HIDE DEF Idle, Desk
  <2>3. /\ records \in [RecordIds -> Envelope \cup {None}]
        /\ rows \in [RecordIds -> Seq(Row)] /\ mutations \in [RecordIds -> Seq(Mutation)]
        /\ writer \in [Writers -> Desk]
    BY <2>1, <2>2 DEF Init
  <2> QED BY <2>3 DEF TypeOK, Desk
<1>3. ASSUME NEW r \in RecordIds PROVE Told(r)
  BY <1>1 DEF Told, Mirrored, Tiled, Once, Derived, LastWords, Exports
<1>4. ASSUME NEW w \in Writers PROVE Asked(w) /\ Answered(w)
  BY <1>1 DEF Asked, Answered, Idle
<1>5. AppliedOnce
  BY <1>1 DEF AppliedOnce, Idle
<1> QED BY <1>2, <1>3, <1>4, <1>5 DEF IInv

\* The strengthened invariant of the tables and of what each writer holds is inductive.
THEOREM Invariance == Spec => []IInv
<1>1. ASSUME IInv, [Next]_vars PROVE IInv'
  <2>1. TablesTyped' /\ \A q \in RecordIds : Told(q)'
    BY <1>1, TablesStep
  <2>2. writer' \in [Writers -> Desk] /\ \A v \in Writers : Kept(v)
    BY <1>1, WriterStep
  <2>3. TypeOK'
    BY <2>1, <2>2 DEF TypeOK, TablesTyped, Desk
  <2>4. \A v \in Writers : Asked(v)' /\ Answered(v)'
    BY <2>2 DEF Kept
  <2>5. AppliedOnce'
    BY <1>1, AppliedOnceStep
  <2> QED BY <2>1, <2>3, <2>4, <2>5 DEF IInv
<1> QED BY Start, <1>1, PTL DEF Spec

\* The envelope, its history rows and the remembered commands of each record tell one
\* story, and no command commits twice, however often it was retried (record_mutations.rs).
THEOREM TablesTellOneStory == Spec => []OneStory
<1>1. ASSUME IInv PROVE OneStory
  <2>1. TypeOK /\ \A r \in RecordIds : Told(r)
    BY <1>1 DEF IInv
  <2>2. ASSUME NEW r \in RecordIds
        PROVE  /\ IF records[r] = None
                  THEN rows[r] = <<>> /\ mutations[r] = <<>>
                  ELSE /\ Len(rows[r]) = Len(records[r].history)
                       /\ \A i \in 1 .. Len(rows[r]) :
                             /\ rows[r][i].state = records[r].history[i].state
                             /\ rows[r][i].attempt = records[r].history[i].attempt
               /\ records[r] # None =>
                     records[r].state = records[r].history[Len(records[r].history)].state
    <3>1. Mirrored(r) /\ LastWords(r)
      BY <2>1 DEF Told
    <3>2. CASE records[r] = None
      BY <3>1, <3>2 DEF Mirrored
    <3>3. CASE records[r] # None
      BY <3>1, <3>3 DEF Mirrored, LastWords, Story
    <3> QED BY <3>2, <3>3
  <2>3. HistoryMirrored
    BY <2>2 DEF HistoryMirrored
  <2>4. StateIsLastTransition
    BY <2>2 DEF StateIsLastTransition
  <2>5. ASSUME NEW r \in RecordIds, NEW i \in 1 .. Len(mutations[r]),
               NEW k \in mutations[r][i].start + 1 .. mutations[r][i].start + mutations[r][i].count
        PROVE  k \in 1 .. Len(rows[r])
    <3>1. mutations[r] \in Seq(Mutation) /\ rows[r] \in Seq(Row)
      BY <2>1 DEF TypeOK
    <3>2. mutations[r][i] \in Mutation /\ Len(rows[r]) \in Nat
      BY <3>1, ElementOfSeq
    <3>3. mutations[r][i].start \in Nat /\ mutations[r][i].count \in Nat
      BY <3>2 DEF Mutation
    <3>4. mutations[r][i].start + mutations[r][i].count <= Len(rows[r])
      BY <2>1 DEF Told, Tiled
    <3> QED BY <3>2, <3>3, <3>4
  <2>6. CommandsTileHistory
    BY <2>1, <2>5 DEF CommandsTileHistory, Told, Tiled
  <2>7. ExactlyOnce
    BY <2>1 DEF ExactlyOnce, Told, Once
  <2> QED BY <2>1, <2>3, <2>4, <2>6, <2>7 DEF OneStory, TablesAgree
<1> QED BY Invariance, <1>1, PTL

\* A committed transition was computed from the record and the body its predecessors left,
\* and what a caller was told of its command is true and stays true.
THEOREM NothingIsEverLost == Spec => []NothingIsLost
<1>1. ASSUME IInv PROVE NothingIsLost
  <2>1. /\ TypeOK /\ AppliedOnce /\ \A r \in RecordIds : Derived(r)
        /\ \A w \in Writers : Asked(w) /\ Answered(w)
    BY <1>1 DEF IInv, Told
  <2>2. NoLostUpdate
    BY <2>1 DEF NoLostUpdate, Derived, FromBody
  <2>3. ASSUME NEW w \in Writers, writer[w].pc = "answered",
               writer[w].status \in {"Applied", "AlreadyApplied"}
        PROVE  LET r == writer[w].rid  h == writer[w].seen IN
               /\ already_applied(r, writer[w].cmd)
               /\ Len(h.history) <= Len(records[r].history)
               /\ SubSeq(records[r].history, 1, Len(h.history)) = h.history
    <3> DEFINE r == writer[w].rid
               h == writer[w].seen.history
               full == records[r].history
    <3>1. /\ r \in RecordIds /\ already_applied(r, writer[w].cmd)
          /\ writer[w].seen \in Envelope /\ records[r] # None
          /\ Prefix(h, full)
      BY <2>1, <2>3 DEF Asked, Answered
    <3>2. records[r] \in Envelope
      BY <2>1, <3>1 DEF TypeOK
    <3>3. h \in Seq(Transition) /\ full \in Seq(Transition)
      BY <3>1, <3>2 DEF Envelope
    <3> HIDE DEF r, h, full, Transition
    <3>4. Len(h) \in Nat /\ Len(full) \in Nat
      BY <3>3, LenProperties
    <3>5. Len(h) <= Len(full) /\ \A k \in 1 .. Len(h) : full[k] = h[k]
      BY <3>1 DEF Prefix
    <3> DEFINE s == SubSeq(full, 1, Len(h))
    <3>6. s \in Seq(Transition) /\ Len(s) = Len(h) /\ \A k \in 1 .. Len(h) : s[k] = full[k]
      <4>1. \A k \in 1 .. Len(h) : k \in 1 .. Len(full)
        BY <3>4, <3>5
      <4> QED BY <3>3, <3>4, <3>5, <4>1, SubSeqProperties
    <3> HIDE DEF s
    <3>7. s = h
      BY <3>3, <3>5, <3>6, SeqEqual
    <3> QED BY <3>1, <3>5, <3>7 DEF r, h, full, s
  <2>4. ASSUME NEW w \in Writers, writer[w].pc = "answered",
               writer[w].status \notin {"Applied", "AlreadyApplied"}
        PROVE  ~ already_applied(writer[w].rid, writer[w].cmd)
    BY <2>1, <2>4 DEF Answered, Dead
  <2>5. AnswersAreTruthful
    BY <2>1, <2>3, <2>4 DEF AnswersAreTruthful
  <2> QED BY <2>2, <2>5 DEF NothingIsLost
<1> QED BY Invariance, <1>1, PTL

\* No step takes back what committed: a remembered command stays remembered, a refused one
\* can never commit later, and a record only ever grows by a suffix of its history.
THEOREM CommitsAreForever == Spec => [][\A r \in RecordIds : Keeps(r)]_vars
<1>1. ASSUME IInv, [Next]_vars PROVE [\A r \in RecordIds : Keeps(r)]_vars
  BY <1>1, TablesStep
<1> QED BY Invariance, <1>1, PTL DEF Spec

------------------------------------------------------------------------------
(* The pairs made of records (Preference).                                 *)

\* A record holds one of the bodies and of the grades.
PairStored == [body : PairBodies, hashed : PairBodies \cup {None}, grade : PairGrades,
               outcome : Pairs!Outcomes, state : {"judged", "admitted"}]

\* A pair was prepared from what the records hold, by an assessment under one of the policies.
PairMade(p) == /\ p.policy \in PairPolicies /\ p.chosen \in PairRecords
               /\ p.rejected \in PairRecords
               /\ Pairs!preparable(p)

\* The inductive invariant of the pairs.
PairsInv == /\ prefer_records \in [PairRecords -> PairStored]
            /\ prefer_assessed # None => /\ prefer_assessed.policy \in PairPolicies
                                         /\ prefer_assessed.chosen \in PairRecords
                                         /\ prefer_assessed.rejected \in PairRecords
            /\ \A p \in prepared : PairMade(p)

\* The pairs that were prepared are forgotten when a record changes.
LEMMA ChangeKeeps ==
    ASSUME PairsInv, NEW id \in PairRecords, NEW r \in PairStored, Pairs!Change(id, r)
    PROVE  PairsInv'
BY DEF PairsInv, Pairs!Change

\* Every step keeps what is known of the pairs.
LEMMA PairsStep == ASSUME PairsInv, [Pairs!Next]_Pairs!vars PROVE PairsInv'
<1>1. \A id \in PairRecords : prefer_records[id] \in PairStored
  BY DEF PairsInv
<1>2. ASSUME NEW c \in PairRecords, NEW r \in PairRecords, NEW p \in PairPolicies,
             Pairs!Assess(c, r, p)
      PROVE  PairsInv'
  <2>1. prefer_assessed'.policy = p /\ prefer_assessed'.chosen = c /\ prefer_assessed'.rejected = r
    BY <1>2 DEF Pairs!Assess
  <2>2. prefer_records' = prefer_records /\ prepared' = prepared
    BY <1>2 DEF Pairs!Assess
  <2>3. \A q : PairMade(q)' <=> PairMade(q)
    BY <2>2 DEF PairMade, Pairs!preparable
  <2> QED BY <2>1, <2>2, <2>3 DEF PairsInv
<1>3. CASE Pairs!Prepare
  <2>1. prefer_records' = prefer_records /\ prepared' = prepared \cup {prefer_assessed}
          /\ prefer_assessed' = None
    BY <1>3 DEF Pairs!Prepare
  <2>2. PairMade(prefer_assessed)
    BY <1>3 DEF Pairs!Prepare, PairsInv, PairMade
  <2>3. \A q : PairMade(q)' <=> PairMade(q)
    BY <2>1 DEF PairMade, Pairs!preparable
  <2> QED BY <2>1, <2>2, <2>3 DEF PairsInv
<1>4. ASSUME NEW id \in PairRecords, Pairs!Regrade(id) PROVE PairsInv'
  <2>1. PICK g \in PairGrades : Pairs!Change(id, [prefer_records[id] EXCEPT !.grade = g])
    BY <1>4 DEF Pairs!Regrade
  <2>2. [prefer_records[id] EXCEPT !.grade = g] \in PairStored
    BY <1>1 DEF PairStored
  <2> QED BY <2>1, <2>2, ChangeKeeps
<1>5. ASSUME NEW id \in PairRecords, Pairs!Reverify(id) PROVE PairsInv'
  <2>1. PICK o \in Pairs!Outcomes : Pairs!Change(id, [prefer_records[id] EXCEPT !.outcome = o])
    BY <1>5 DEF Pairs!Reverify
  <2>2. [prefer_records[id] EXCEPT !.outcome = o] \in PairStored
    BY <1>1 DEF PairStored
  <2> QED BY <2>1, <2>2, ChangeKeeps
<1>6. ASSUME NEW id \in PairRecords, Pairs!Move(id) PROVE PairsInv'
  <2>1. PICK s \in {"judged", "admitted"} :
            Pairs!Change(id, [prefer_records[id] EXCEPT !.state = s])
    BY <1>6 DEF Pairs!Move
  <2>2. [prefer_records[id] EXCEPT !.state = s] \in PairStored
    BY <1>1 DEF PairStored
  <2> QED BY <2>1, <2>2, ChangeKeeps
<1>7. ASSUME NEW id \in PairRecords, Pairs!Rewrite(id) PROVE PairsInv'
  <2>1. PICK b \in PairBodies, rehash \in BOOLEAN :
            Pairs!Change(id, [prefer_records[id] EXCEPT !.body = b,
                                                        !.hashed = IF rehash THEN b ELSE @])
    BY <1>7 DEF Pairs!Rewrite
  <2>2. [prefer_records[id] EXCEPT !.body = b, !.hashed = IF rehash THEN b ELSE @] \in PairStored
    BY <1>1 DEF PairStored
  <2> QED BY <2>1, <2>2, ChangeKeeps
<1>8. CASE UNCHANGED Pairs!vars
  <2>1. prefer_records' = prefer_records /\ prepared' = prepared
          /\ prefer_assessed' = prefer_assessed
    BY <1>8 DEF Pairs!vars
  <2>2. \A q : PairMade(q)' <=> PairMade(q)
    BY <2>1 DEF PairMade, Pairs!preparable
  <2> QED BY <2>1, <2>2 DEF PairsInv
<1> QED BY <1>2, <1>3, <1>4, <1>5, <1>6, <1>7, <1>8 DEF Pairs!Next

\* The pairs a caller holds are of records as they are.
THEOREM PairsInvariance == ASSUME Pairs!PreferenceConstants PROVE Pairs!Spec => []PairsInv
<1>1. Pairs!Init => PairsInv
  BY DEF Pairs!Init, PairsInv, Pairs!PreferenceConstants, PairStored, Pairs!Outcomes
<1> QED BY <1>1, PairsStep, PTL DEF Pairs!Spec

\* The score of the chosen side is the greater one.
LEMMA ChosenIsAhead ==
    ASSUME Pairs!PreferenceConstants, PairsInv, NEW p \in prepared
    PROVE  prefer_records[p.chosen].grade.score > prefer_records[p.rejected].grade.score
<1>1. PairMade(p)
  BY DEF PairsInv
<1>2. /\ prefer_records[p.chosen].grade.score \in Int
         /\ prefer_records[p.rejected].grade.score \in Int
      /\ p.policy.margin \in Nat
  BY <1>1 DEF PairMade, PairsInv, PairStored, Pairs!PreferenceConstants
<1>3. prefer_records[p.chosen].grade.score - prefer_records[p.rejected].grade.score
          > p.policy.margin
  BY <1>1 DEF PairMade, Pairs!preparable, Pairs!ahead
<1> QED BY <1>2, <1>3

\* Two bodies that project to different messages say different things.
LEMMA ProjectionsDiffer ==
    ASSUME NEW b, NEW c, NEW cot, Pairs!project(b, cot) # Pairs!project(c, cot), cot # "masked"
    PROVE  (IF cot = "stripped" THEN <<b.answer>>
            ELSE IF b.reasoning \in {None, ""} THEN <<b.answer>> ELSE <<b.answer, b.reasoning>>)
           # (IF cot = "stripped" THEN <<c.answer>>
              ELSE IF c.reasoning \in {None, ""} THEN <<c.answer>>
                   ELSE <<c.answer, c.reasoning>>)
<1>1. CASE b.answer # c.answer
  BY <1>1
<1>2. CASE b.answer = c.answer
  <2>1. cot # "stripped"
    BY <1>2 DEF Pairs!project
  <2>2. ~ (b.reasoning \in {None, ""} /\ c.reasoning \in {None, ""})
    BY <1>2, <2>1 DEF Pairs!project
  <2>3. b.reasoning # c.reasoning
    BY <1>2, <2>1 DEF Pairs!project
  <2> QED BY <1>2, <2>1, <2>2, <2>3
<1> QED BY <1>1, <1>2

\* No two pairs prefer each of two answers to the other, a pair says what its records say, and
\* its two sides teach something different.
THEOREM PairsHold ==
    ASSUME Pairs!PreferenceConstants
    PROVE  Pairs!Spec => [](Pairs!NeverBothWays /\ Pairs!PairsAreCurrent /\ Pairs!PairsTeach)
<1>1. PairsInv => Pairs!NeverBothWays
  <2> SUFFICES ASSUME PairsInv, NEW p \in prepared, NEW q \in prepared,
                      p.chosen = q.rejected, p.rejected = q.chosen
               PROVE  FALSE
    BY DEF Pairs!NeverBothWays
  <2>1. /\ prefer_records[p.chosen].grade.score > prefer_records[p.rejected].grade.score
        /\ prefer_records[p.rejected].grade.score > prefer_records[p.chosen].grade.score
    BY ChosenIsAhead
  <2>2. /\ prefer_records[p.chosen].grade.score \in Int
           /\ prefer_records[p.rejected].grade.score \in Int
    BY DEF PairMade, PairsInv, PairStored, Pairs!PreferenceConstants
  <2> QED BY <2>1, <2>2
<1>2. PairsInv => Pairs!PairsAreCurrent
  BY DEF PairsInv, PairMade, Pairs!preparable, Pairs!same, Pairs!capture, Pairs!PairsAreCurrent
<1>3. PairsInv => Pairs!PairsTeach
  <2> SUFFICES ASSUME PairsInv, NEW p \in prepared
               PROVE  LET c == prefer_records[p.chosen].body r == prefer_records[p.rejected].body
                          said(b) == IF p.policy.cot = "stripped" THEN <<b.answer>>
                                     ELSE IF b.reasoning \in {None, ""} THEN <<b.answer>>
                                     ELSE <<b.answer, b.reasoning>>
                      IN  c.prompt = r.prompt /\ said(c) # said(r)
    BY DEF Pairs!PairsTeach
  <2>1. Pairs!project_preference_messages(prefer_records[p.chosen].body,
                                          prefer_records[p.rejected].body, p.policy.cot)
    BY DEF PairsInv, PairMade, Pairs!preparable
  <2> QED BY <2>1, ProjectionsDiffer DEF Pairs!project_preference_messages
<1> QED BY <1>1, <1>2, <1>3, PairsInvariance, PTL

------------------------------------------------------------------------------
(* Induction over a set of naturals, and the sum of a finite set.          *)

\* A set of naturals has a least element.
LEMMA LeastExists == ASSUME NEW C, C \subseteq Nat, C # {} PROVE \E r \in C : \A s \in C : r <= s
<1> DEFINE R == {ss \in Nat \X Nat : ss[1] < ss[2]}
<1>1. IsWellFoundedOn(R, Nat)
  BY NatLessThanWellFounded DEF OpToRel
<1>2. \E x \in C : \A y \in C : ~ (<<y, x>> \in R)
  <2> HIDE DEF R
  <2> QED BY <1>1, WFMin
<1>3. PICK x \in C : \A y \in C : ~ (<<y, x>> \in R)
  BY <1>2
<1>4. ASSUME NEW y \in C PROVE x <= y
  <2>1. x \in Nat /\ y \in Nat /\ ~ (<<y, x>> \in R)
    BY <1>3
  <2>2. ~ (y < x)
    BY <2>1
  <2> QED BY <2>1, <2>2
<1> QED BY <1>4

\* What holds 0, and n + 1 with every n, holds every natural.
LEMMA Inductive ==
    ASSUME NEW T, 0 \in T, \A n \in Nat : n \in T => n + 1 \in T
    PROVE  Nat \subseteq T
<1> SUFFICES ASSUME Nat \ T # {} PROVE FALSE
  OBVIOUS
<1>1. PICK r \in Nat \ T : \A s \in Nat \ T : r <= s
  BY LeastExists
<1>2. r # 0 /\ r - 1 \in Nat /\ ~ r <= r - 1
  BY <1>1
<1>3. r - 1 \in T
  BY <1>1, <1>2
<1>4. (r - 1) + 1 = r
  BY <1>1
<1> QED BY <1>1, <1>2, <1>3, <1>4

\* One step of a sum: the terms f, the partial sums g.
Taken(s) == CHOOSE x \in s : TRUE
Sum(f, g, s) == IF s = {} THEN 0 ELSE f[Taken(s)] + g[s \ {Taken(s)}]
Sums(f, g, S) == g = [s \in SUBSET S |-> Sum(f, g, s)]
\* MapThenSumSet of the library, for the terms f.
SumOf(f, S) == (CHOOSE g : Sums(f, g, S))[S]
Fewer(S, n) == {s \in SUBSET S : Cardinality(s) < n}

\* A subset has fewer members without the one that is taken.
LEMMA TakenIsFewer ==
    ASSUME NEW S, IsFiniteSet(S), NEW s \in SUBSET S, s # {}
    PROVE  /\ Taken(s) \in s /\ Taken(s) \in S /\ s \ {Taken(s)} \in SUBSET S
           /\ Cardinality(s \ {Taken(s)}) = Cardinality(s) - 1
           /\ Cardinality(s) \in Nat /\ Cardinality(s) # 0
<1>1. Taken(s) \in s
  BY DEF Taken
<1>2. IsFiniteSet(s)
  BY FS_Subset
<1> HIDE DEF Taken
<1>3. Cardinality(s) \in Nat /\ Cardinality(s) # 0
  BY <1>2, FS_CardinalityType, FS_EmptySet
<1>4. Cardinality(s \ {Taken(s)}) = Cardinality(s) - 1
  BY <1>1, <1>2, FS_RemoveElement
<1> QED BY <1>1, <1>3, <1>4

\* The partial sums of a finite set exist.
LEMMA SumsExist ==
    ASSUME NEW S, IsFiniteSet(S), NEW f, \A x \in S : f[x] \in Nat
    PROVE  \E g : Sums(f, g, S)
<1> DEFINE T == {n \in Nat : \E g \in [Fewer(S, n) -> Nat] :
                               \A s \in Fewer(S, n) : g[s] = Sum(f, g, s)}
<1>1. 0 \in T
  <2>1. Fewer(S, 0) = {}
    <3> SUFFICES ASSUME NEW s \in Fewer(S, 0) PROVE FALSE
      OBVIOUS
    <3>1. IsFiniteSet(s) /\ Cardinality(s) < 0
      BY FS_Subset DEF Fewer
    <3>2. Cardinality(s) \in Nat
      BY <3>1, FS_CardinalityType
    <3> QED BY <3>1, <3>2
  <2>2. [s \in {} |-> 0] \in [{} -> Nat]
    OBVIOUS
  <2> QED BY <2>1, <2>2
<1>2. ASSUME NEW n \in Nat, n \in T PROVE n + 1 \in T
  <2>1. PICK g \in [Fewer(S, n) -> Nat] : \A s \in Fewer(S, n) : g[s] = Sum(f, g, s)
    BY <1>2
  <2> DEFINE h == [s \in Fewer(S, n + 1) |-> Sum(f, g, s)]
  <2>2. ASSUME NEW s \in Fewer(S, n + 1), s # {}
        PROVE  /\ f[Taken(s)] \in Nat
               /\ s \ {Taken(s)} \in Fewer(S, n) /\ s \ {Taken(s)} \in Fewer(S, n + 1)
    <3>1. s \in SUBSET S /\ Cardinality(s) < n + 1
      BY DEF Fewer
    <3>2. /\ Taken(s) \in S /\ s \ {Taken(s)} \in SUBSET S
          /\ Cardinality(s \ {Taken(s)}) = Cardinality(s) - 1
          /\ Cardinality(s) \in Nat /\ Cardinality(s) # 0
      BY <2>2, <3>1, TakenIsFewer
    <3>3. Cardinality(s \ {Taken(s)}) < n /\ Cardinality(s \ {Taken(s)}) < n + 1
      BY <3>1, <3>2
    <3> QED BY <3>2, <3>3 DEF Fewer
  <2>3. ASSUME NEW s \in Fewer(S, n + 1) PROVE h[s] \in Nat /\ h[s] = Sum(f, h, s)
    <3>1. CASE s = {}
      BY <3>1 DEF Sum
    <3>2. CASE s # {}
      <4>1. /\ f[Taken(s)] \in Nat /\ s \ {Taken(s)} \in Fewer(S, n)
            /\ s \ {Taken(s)} \in Fewer(S, n + 1)
        BY <2>2, <3>2
      <4>2. /\ h[s] = f[Taken(s)] + g[s \ {Taken(s)}] /\ g[s \ {Taken(s)}] \in Nat
            /\ h[s \ {Taken(s)}] = Sum(f, g, s \ {Taken(s)})
        BY <2>1, <3>2, <4>1 DEF Sum
      <4>3. h[s \ {Taken(s)}] = g[s \ {Taken(s)}]
        BY <2>1, <4>1, <4>2
      <4> QED BY <3>2, <4>1, <4>2, <4>3 DEF Sum
    <3> QED BY <3>1, <3>2
  <2>4. h \in [Fewer(S, n + 1) -> Nat] /\ \A s \in Fewer(S, n + 1) : h[s] = Sum(f, h, s)
    BY <2>3
  <2> HIDE DEF h
  <2>5. n + 1 \in Nat
    OBVIOUS
  <2> QED BY <2>4, <2>5
<1>3. Cardinality(S) + 1 \in T
  <2> HIDE DEF T
  <2>1. Nat \subseteq T
    BY <1>1, <1>2, Inductive
  <2>2. Cardinality(S) + 1 \in Nat
    BY FS_CardinalityType
  <2> QED BY <2>1, <2>2
<1>4. Fewer(S, Cardinality(S) + 1) = SUBSET S
  <2>1. ASSUME NEW s \in SUBSET S PROVE Cardinality(s) < Cardinality(S) + 1
    <3>1. IsFiniteSet(s) /\ Cardinality(s) <= Cardinality(S)
      BY FS_Subset
    <3>2. Cardinality(s) \in Nat /\ Cardinality(S) \in Nat
      BY <3>1, FS_CardinalityType
    <3> QED BY <3>1, <3>2
  <2> QED BY <2>1 DEF Fewer
<1>5. PICK g \in [SUBSET S -> Nat] : \A s \in SUBSET S : g[s] = Sum(f, g, s)
  BY <1>3, <1>4
<1>6. g = [s \in SUBSET S |-> Sum(f, g, s)]
  BY <1>5
<1> QED BY <1>6 DEF Sums

\* Whatever members were taken, each partial sum is a natural.
LEMMA SumsAreNatural ==
    ASSUME NEW S, IsFiniteSet(S), NEW f, \A x \in S : f[x] \in Nat, NEW g, Sums(f, g, S)
    PROVE  \A s \in SUBSET S : g[s] \in Nat
<1> DEFINE T == {n \in Nat : \A s \in SUBSET S : Cardinality(s) = n => g[s] \in Nat}
<1>0. \A s \in SUBSET S : g[s] = Sum(f, g, s)
  BY DEF Sums
<1>1. 0 \in T
  <2>1. ASSUME NEW s \in SUBSET S, Cardinality(s) = 0 PROVE g[s] \in Nat
    <3>1. s = {}
      <4>1. IsFiniteSet(s)
        BY FS_Subset
      <4> QED BY <2>1, <4>1, FS_EmptySet
    <3>2. g[s] = Sum(f, g, s)
      BY <1>0
    <3> QED BY <3>1, <3>2 DEF Sum
  <2> QED BY <2>1
<1>2. ASSUME NEW n \in Nat, n \in T PROVE n + 1 \in T
  <2>1. ASSUME NEW s \in SUBSET S, Cardinality(s) = n + 1 PROVE g[s] \in Nat
    <3>0. g[s] = Sum(f, g, s)
      BY <1>0
    <3>1. CASE s = {}
      BY <3>0, <3>1 DEF Sum
    <3>2. CASE s # {}
      <4>1. /\ Taken(s) \in S /\ s \ {Taken(s)} \in SUBSET S
            /\ Cardinality(s \ {Taken(s)}) = (n + 1) - 1
        BY <2>1, <3>2, TakenIsFewer
      <4>2. (n + 1) - 1 = n
        OBVIOUS
      <4>3. g[s \ {Taken(s)}] \in Nat /\ f[Taken(s)] \in Nat
        BY <1>2, <4>1, <4>2
      <4> QED BY <3>0, <3>2, <4>3 DEF Sum
    <3> QED BY <3>1, <3>2
  <2> QED BY <2>1
<1>3. Nat \subseteq T
  <2> HIDE DEF T
  <2> QED BY <1>1, <1>2, Inductive
<1>4. ASSUME NEW s \in SUBSET S PROVE g[s] \in Nat
  <2>1. Cardinality(s) \in Nat
    BY FS_Subset, FS_CardinalityType
  <2> QED BY <1>3, <2>1
<1> QED BY <1>4

\* The sum of naturals over a finite set is a natural.
LEMMA SumIsNatural ==
    ASSUME NEW S, IsFiniteSet(S), NEW f, \A x \in S : f[x] \in Nat
    PROVE  SumOf(f, S) \in Nat
<1>1. PICK h : h = CHOOSE g : Sums(f, g, S)
  OBVIOUS
<1>2. Sums(f, h, S)
  BY <1>1, SumsExist
<1>3. \A s \in SUBSET S : h[s] \in Nat
  BY <1>2, SumsAreNatural
<1> QED BY <1>1, <1>3 DEF SumOf

------------------------------------------------------------------------------
(* The grading of a record.                                                *)

\* The axes of an observed record: one that no policy asks about has no outcome.
AxisType == [policy : {"Absent"}, outcome : {None}]
            \cup [policy : {"Advisory", "Authoritative"}, outcome : Graded!Outcome]

\* What the votes decided, when there were any that counted.
OnVotes(size, total) ==
    Graded!Judged(
        Graded!with_admission_intent(
            IF Graded!TooCorrelated(size) THEN "Escalate" ELSE Graded!band(total, size),
            area.intent),
        size, total)

\* The verifier vetoed or abstained; or no vote counted; or those that did decided.
Decided ==
    IF Graded!is_hard_reject(facts) THEN judging = Graded!Judged("Reject", None, None)
    ELSE IF Graded!blocks_admission(facts) THEN judging = Graded!Judged("Escalate", None, None)
    ELSE \/ judging = Graded!Judged("Reject", 0, None)
         \/ /\ judging.decisive_count \in Nat /\ judging.decisive_count > 0
            /\ judging.aggregate \in Nat
            /\ judging = OnVotes(judging.decisive_count, judging.aggregate)

\* The second derivation, from the record alone.
Rederived ==
    IF Graded!is_hard_reject(facts) THEN "Reject"
    ELSE IF Graded!blocks_admission(facts) THEN "Escalate"
    ELSE Graded!with_admission_intent(Graded!rederive_verdict(judging), area.intent)

\* The inductive invariant of a grading: what is stored is what was decided.
GradeInv ==
    /\ area \in [judges : 1 .. GradeJudges, rho : GradeRhos,
                 intent : {"Automatic", "ReviewOnly"}, cot : BOOLEAN, accept : {8}, reject : {6},
                 min_n_eff : {100, 150}, min_n_eff_ratio : {60}]
    /\ Graded!assess_panel(area.judges)
    /\ contract \in [answer : Graded!Policy, execution : Graded!Policy,
                     required : SUBSET GradeTests]
    /\ state \in {"AssistantGenerated", "Verified", "Judged", "Admitted", "Rejected",
                  "Revising", "NeedsReview"}
    /\ state # "AssistantGenerated" =>
          facts \in [reasoning : AxisType, answer : AxisType, execution : AxisType]
    /\ state \notin {"AssistantGenerated", "Verified"} => Decided /\ decision = judging.verdict
    /\ state \notin {"AssistantGenerated", "Verified", "Judged"} =>
          state = IF Rederived = "Revise" /\ revised THEN "Rejected"
                  ELSE Graded!Lifecycle(Rederived)

\* What a grading decides.
Verdicts == {"Accept", "Reject", "Revise", "Escalate"}

\* A vote is a natural or nothing.
LEMMA VotesAreNatural ==
    ASSUME Graded!GradingConstants PROVE Graded!Vote \subseteq Nat \cup {None}
<1> SUFFICES ASSUME NEW raw \in GradeScores PROVE Graded!normalize_score(raw) \in Nat
  BY DEF Graded!Vote
<1>1. CASE raw = None
  BY <1>1 DEF Graded!normalize_score
<1>2. CASE raw # None
  <2>1. raw \in Int
    BY <1>2 DEF Graded!GradingConstants
  <2>2. raw \div 10 \in Int
    BY <2>1
  <2>3. \A s \in Int : (IF s < 0 THEN 0 ELSE IF s > 10 THEN 10 ELSE s) \in Nat
    OBVIOUS
  <2>4. (IF raw > 10 THEN raw \div 10 ELSE raw) \in Int
    BY <2>1, <2>2
  <2> QED BY <1>2, <2>3, <2>4 DEF Graded!normalize_score
<1> QED BY <1>1, <1>2

\* The planner's sets are everyone's.
LEMMA GradedCardinality == \A S : Graded!Cardinality(S) = Cardinality(S)
BY DEF Graded!Cardinality, Cardinality

\* What a grade decides on, when it is neither vetoed nor undecided.
LEMMA GradeDecides ==
    ASSUME Graded!GradingConstants, NEW f, NEW k \in Nat, NEW votes \in [1 .. k -> Graded!Vote],
           ~ Graded!is_hard_reject(f), ~ Graded!blocks_admission(f)
    PROVE  \/ Graded!grade(f, votes) = Graded!Judged("Reject", 0, None)
           \/ \E size, total \in Nat : size > 0 /\ Graded!grade(f, votes) = OnVotes(size, total)
<1> DEFINE decisive == {n \in DOMAIN votes : votes[n] # None}
           size == Graded!Cardinality(decisive)
           total == Graded!MapThenSumSet(LAMBDA n : votes[n], decisive)
<1>1. IsFiniteSet(decisive)
  <2>1. IsFiniteSet(1 .. k) /\ decisive \in SUBSET (1 .. k)
    BY FS_Interval
  <2> QED BY <2>1, FS_Subset
<1>2. size \in Nat
  BY <1>1, FS_CardinalityType, GradedCardinality
<1>3. total \in Nat
  <2>1. \A x \in decisive : votes[x] \in Nat
    BY VotesAreNatural
  <2>2. total = SumOf(votes, decisive)
    BY DEF Graded!MapThenSumSet, Graded!MapThenFoldSet, SumOf, Sums, Sum, Taken
  <2> HIDE DEF decisive, total
  <2> QED BY <1>1, <2>1, <2>2, SumIsNatural
<1>4. Graded!grade(f, votes) =
        IF size = 0 THEN Graded!Judged("Reject", 0, None)
        ELSE OnVotes(size, total)
  BY DEF Graded!grade, OnVotes
<1> HIDE DEF size, total
<1> QED BY <1>2, <1>3, <1>4

\* A grade that was vetoed or could not be decided is decided by the verifier alone.
LEMMA GradeOfTheVerifier ==
    ASSUME NEW f, NEW votes, Graded!is_hard_reject(f) \/ Graded!blocks_admission(f)
    PROVE  Graded!grade(f, votes) =
               IF Graded!is_hard_reject(f) THEN Graded!Judged("Reject", None, None)
               ELSE Graded!Judged("Escalate", None, None)
BY DEF Graded!grade

\* A verdict's names.
LEMMA VerdictsAreNamed ==
    /\ \A t, n : Graded!band(t, n) \in Verdicts
    /\ \A i : \A d \in Verdicts : Graded!with_admission_intent(d, i) \in Verdicts
BY DEF Graded!band, Graded!with_admission_intent, Verdicts

\* The intent is applied once or twice to the same effect.
LEMMA IntentOnce ==
    \A d, i : Graded!with_admission_intent(Graded!with_admission_intent(d, i), i)
              = Graded!with_admission_intent(d, i)
BY DEF Graded!with_admission_intent

\* The record's second derivation is the code's.
LEMMA RederivedIsTheCodes == Graded!decision_from_judging = Rederived
<1>1. CASE Graded!is_hard_reject(facts) \/ Graded!blocks_admission(facts)
  BY <1>1, GradeOfTheVerifier DEF Graded!decision_from_judging, Rederived, Graded!Judged
<1>2. CASE ~ (Graded!is_hard_reject(facts) \/ Graded!blocks_admission(facts))
  BY <1>2 DEF Graded!decision_from_judging, Rederived
<1> QED BY <1>1, <1>2

\* What a stored grading decides again is what it decided: by the verifier, for want of votes,
\* or on the votes that were stored with it.
LEMMA DecidesAgain ==
    ASSUME Graded!GradingConstants, Decided
    PROVE  /\ Rederived = judging.verdict /\ judging.verdict \in Verdicts
           /\ judging.verdict = "Accept" =>
                 /\ ~ Graded!is_hard_reject(facts) /\ ~ Graded!blocks_admission(facts)
                 /\ area.intent # "ReviewOnly"
                 /\ judging.decisive_count \in Nat /\ judging.decisive_count > 0
                 /\ judging.aggregate >= area.accept * judging.decisive_count
<1>1. CASE Graded!is_hard_reject(facts) \/ Graded!blocks_admission(facts)
  BY <1>1 DEF Decided, Rederived, Graded!Judged, Verdicts
<1>2. CASE ~ (Graded!is_hard_reject(facts) \/ Graded!blocks_admission(facts))
  <2>2. Rederived = Graded!with_admission_intent(Graded!rederive_verdict(judging), area.intent)
    BY <1>2 DEF Rederived
  <2>3. CASE judging = Graded!Judged("Reject", 0, None)
    <3>1. judging.aggregate = None /\ judging.verdict = "Reject"
      BY <2>3 DEF Graded!Judged
    <3> QED BY <2>2, <3>1
            DEF Graded!rederive_verdict, Graded!with_admission_intent, Verdicts
  <2>4. ASSUME NEW size \in Nat, NEW total \in Nat, size > 0, judging = OnVotes(size, total)
        PROVE  /\ Rederived = judging.verdict /\ judging.verdict \in Verdicts
               /\ judging.verdict = "Accept" =>
                     /\ area.intent # "ReviewOnly"
                     /\ judging.decisive_count \in Nat /\ judging.decisive_count > 0
                     /\ judging.aggregate >= area.accept * judging.decisive_count
    <3> DEFINE d == IF Graded!TooCorrelated(size) THEN "Escalate" ELSE Graded!band(total, size)
    <3>1. /\ judging.aggregate = total /\ judging.decisive_count = size
          /\ judging.verdict = Graded!with_admission_intent(d, area.intent)
          /\ judging.admission_intent = area.intent
      BY <2>4 DEF Graded!Judged, OnVotes
    <3>2. total # None
      BY DEF Graded!GradingConstants
    <3>3. d \in Verdicts
      BY VerdictsAreNamed DEF Verdicts
    <3>4. Graded!rederive_verdict(judging) \in {d, Graded!with_admission_intent(d, area.intent)}
      BY <3>1, <3>2 DEF Graded!rederive_verdict
    <3>5. d = "Accept" => Graded!band(total, size) = "Accept"
      OBVIOUS
    <3> HIDE DEF d
    <3>7. Rederived = judging.verdict
      BY <2>2, <3>1, <3>4, IntentOnce
    <3>8. judging.verdict = "Accept" => d = "Accept" /\ area.intent # "ReviewOnly"
      BY <3>1 DEF Graded!with_admission_intent
    <3>9. Graded!band(total, size) = "Accept" => total >= area.accept * size
      BY DEF Graded!band
    <3> QED BY <2>4, <3>1, <3>3, <3>5, <3>7, <3>8, <3>9, VerdictsAreNamed
  <2>5. \/ judging = Graded!Judged("Reject", 0, None)
        \/ \E size, total \in Nat : size > 0 /\ judging = OnVotes(size, total)
    BY <1>2 DEF Decided
  <2> QED BY <1>2, <2>3, <2>4, <2>5
<1> QED BY <1>1, <1>2

\* What is observed of an axis is an outcome; an axis is typed by its policy.
LEMMA AxisIsTyped ==
    ASSUME NEW policy \in Graded!Policy, NEW outcome \in Graded!Outcome
    PROVE  Graded!Axis(policy, outcome) \in AxisType
BY DEF Graded!Axis, AxisType, Graded!Policy

\* Every report and every answer amounts to an outcome.
LEMMA ObservationsAreOutcomes ==
    /\ \A f, d, t : Graded!reasoning_present_check(f, d, t) \in Graded!Outcome
    /\ \A k \in {"NumericMatch", "SchemaShape", "RefusalExpected"},
          o \in {"literal", "answered", "refused"}, t \in {"matches", "differs", "unclear"} :
          Graded!compare_answer(k, o, t) \in Graded!Outcome
    /\ \A required : \A e \in Graded!Report \cup {None} :
          Graded!observe(e, required) \in Graded!Outcome
<1>1. \A f, d, t : Graded!reasoning_present_check(f, d, t) \in Graded!Outcome
  BY DEF Graded!reasoning_present_check, Graded!Outcome
<1>2. ASSUME NEW k \in {"NumericMatch", "SchemaShape", "RefusalExpected"},
             NEW o \in {"literal", "answered", "refused"},
             NEW t \in {"matches", "differs", "unclear"}
      PROVE  Graded!compare_answer(k, o, t) \in Graded!Outcome
  <2>1. Graded!classify_refusal(t) \in Graded!Outcome
    BY DEF Graded!classify_refusal, Graded!Outcome
  <2> QED BY <2>1 DEF Graded!compare_answer, Graded!Outcome, Graded!resolve_expected
<1>3. ASSUME NEW e \in Graded!Report \cup {None}, NEW required
      PROVE  Graded!observe(e, required) \in Graded!Outcome
  BY DEF Graded!observe, Graded!more_conservative, Graded!Outcome
<1> QED BY <1>1, <1>2, <1>3

\* The invariant holds when grading starts.
LEMMA GradeBegins == Graded!Init => GradeInv
BY DEF Graded!Init, GradeInv

\* Every step of a grading keeps the invariant.
LEMMA GradeSteps ==
    ASSUME Graded!GradingConstants, GradeInv, [Graded!Next]_Graded!vars
    PROVE  GradeInv'
<1>1. CASE UNCHANGED Graded!vars
  <2>1. UNCHANGED <<area, contract, revised, state, facts, judging, decision>>
    BY <1>1 DEF Graded!vars
  <2>2. UNCHANGED <<Rederived, Graded!assess_panel(area.judges), Decided>>
    BY <2>1 DEF Rederived, Decided, OnVotes, Graded!rederive_verdict, Graded!TooCorrelated,
                Graded!Below, Graded!Design, Graded!band, Graded!with_admission_intent,
                Graded!Judged, Graded!is_hard_reject, Graded!blocks_admission,
                Graded!Authoritative, Graded!assess_panel
  <2> QED BY <2>1, <2>2 DEF GradeInv
<1>2. CASE Graded!Verify
  <2>1. /\ state = "AssistantGenerated" /\ state' = "Verified"
        /\ UNCHANGED <<area, contract, revised, judging, decision>>
    BY <1>2 DEF Graded!Verify
  <2>2. PICK reasoning \in {Graded!reasoning_present_check(f, d, t) :
                               f, d \in BOOLEAN, t \in {0, 1}},
             answer \in {Graded!compare_answer(k, o, t) :
                          k \in {"NumericMatch", "SchemaShape", "RefusalExpected"},
                          o \in {"literal", "answered", "refused"},
                          t \in {"matches", "differs", "unclear"}},
             execution \in Graded!Observable[contract.required] :
               facts' = Graded!run_verifier(reasoning, answer, execution)
    BY <1>2 DEF Graded!Verify
  <2>3. reasoning \in Graded!Outcome /\ answer \in Graded!Outcome
    BY ObservationsAreOutcomes
  <2>4. execution \in Graded!Outcome
    <3>1. contract.required \in SUBSET GradeTests
      BY DEF GradeInv
    <3>2. \E e \in Graded!Report \cup {None} : execution = Graded!observe(e, contract.required)
      BY <3>1 DEF Graded!Observable
    <3> QED BY <3>2, ObservationsAreOutcomes
  <2>5. contract.answer \in Graded!Policy /\ contract.execution \in Graded!Policy
        /\ (IF area.cot THEN "Authoritative" ELSE "Absent") \in Graded!Policy
    BY DEF GradeInv, Graded!Policy
  <2>6. facts' \in [reasoning : AxisType, answer : AxisType, execution : AxisType]
    BY <2>2, <2>3, <2>4, <2>5, AxisIsTyped DEF Graded!run_verifier
  <2>7. UNCHANGED Graded!assess_panel(area.judges)
    BY <2>1 DEF Graded!assess_panel
  <2> QED BY <2>1, <2>6, <2>7 DEF GradeInv
<1>3. CASE Graded!Judge
  <2>1. /\ state = "Verified" /\ state' = "Judged" /\ decision' = judging'.verdict
        /\ UNCHANGED <<area, contract, revised, facts>>
    BY <1>3 DEF Graded!Judge
  <2>2. PICK votes \in [1 .. area.judges -> Graded!Vote] :
          judging' = Graded!grade(facts,
              IF Graded!is_hard_reject(facts) \/ Graded!blocks_admission(facts)
              THEN <<>> ELSE votes)
    BY <1>3 DEF Graded!Judge
  <2>3. area.judges \in Nat
    BY DEF GradeInv, Graded!GradingConstants
  <2> DEFINE Decides(j) ==
        IF Graded!is_hard_reject(facts) THEN j = Graded!Judged("Reject", None, None)
        ELSE IF Graded!blocks_admission(facts) THEN j = Graded!Judged("Escalate", None, None)
        ELSE \/ j = Graded!Judged("Reject", 0, None)
             \/ /\ j.decisive_count \in Nat /\ j.decisive_count > 0
                /\ j.aggregate \in Nat /\ j = OnVotes(j.decisive_count, j.aggregate)
  <2>4. Decides(judging')
    <3>1. CASE Graded!is_hard_reject(facts) \/ Graded!blocks_admission(facts)
      BY <2>2, <3>1, GradeOfTheVerifier
    <3>2. CASE ~ (Graded!is_hard_reject(facts) \/ Graded!blocks_admission(facts))
      <4>1. judging' = Graded!grade(facts, votes)
        BY <2>2, <3>2
      <4>2. \/ judging' = Graded!Judged("Reject", 0, None)
            \/ \E size, total \in Nat : size > 0 /\ judging' = OnVotes(size, total)
        BY <2>3, <3>2, <4>1, GradeDecides
      <4>3. \A size, total :
              /\ OnVotes(size, total).decisive_count = size
              /\ OnVotes(size, total).aggregate = total
        BY DEF OnVotes, Graded!Judged
      <4> QED BY <3>2, <4>2, <4>3
    <3> QED BY <3>1, <3>2
  <2>5. Decided'
    BY <2>1, <2>4 DEF Decided, OnVotes, Graded!TooCorrelated,
                Graded!Below, Graded!Design, Graded!band, Graded!with_admission_intent,
                Graded!Judged, Graded!is_hard_reject, Graded!blocks_admission,
                Graded!Authoritative
  <2>6. UNCHANGED Graded!assess_panel(area.judges)
    BY <2>1 DEF Graded!assess_panel
  <2> QED BY <2>1, <2>5, <2>6 DEF GradeInv
<1>4. CASE Graded!Reconcile
  <2>1. /\ state = "Judged" /\ UNCHANGED <<area, contract, revised, facts, judging, decision>>
        /\ state' = IF Rederived = "Revise" /\ revised THEN "Rejected"
                    ELSE Graded!Lifecycle(Rederived)
    BY <1>4, RederivedIsTheCodes DEF Graded!Reconcile
  <2>2. UNCHANGED <<Rederived, Graded!assess_panel(area.judges), Decided>>
    BY <2>1 DEF Rederived, Decided, OnVotes, Graded!rederive_verdict, Graded!TooCorrelated,
                Graded!Below, Graded!Design, Graded!band, Graded!with_admission_intent,
                Graded!Judged, Graded!is_hard_reject, Graded!blocks_admission,
                Graded!Authoritative, Graded!assess_panel
  <2>3. Rederived \in Verdicts
    BY <2>1, DecidesAgain DEF GradeInv
  <2>4. \A d \in Verdicts :
          Graded!Lifecycle(d) \in {"Admitted", "Rejected", "Revising", "NeedsReview"}
    BY DEF Verdicts, Graded!Lifecycle
  <2>5. state' \in {"Admitted", "Rejected", "Revising", "NeedsReview"}
    BY <2>1, <2>3, <2>4
  <2>6. state' = IF Rederived' = "Revise" /\ revised' THEN "Rejected"
                 ELSE Graded!Lifecycle(Rederived')
    BY <2>1, <2>2
  <2> QED BY <2>1, <2>2, <2>5, <2>6 DEF GradeInv
<1> QED BY <1>1, <1>2, <1>3, <1>4 DEF Graded!Next

\* The inductive invariant of a grading holds: a stored verdict is what the verifier's
\* facts and the decisive votes amount to, and what is derived from it again.
THEOREM GradeInvariance ==
    ASSUME Graded!GradingConstants PROVE Graded!Spec => []GradeInv
<1>1. GradeInv /\ [Graded!Next]_Graded!vars => GradeInv'
  BY GradeSteps
<1> QED BY <1>1, GradeBegins, PTL DEF Graded!Spec

\* Nothing but a clean run that covers the contract passes, and all of those do.
LEMMA ReportsAreExact ==
    ASSUME Graded!GradingConstants,
           NEW e \in Graded!Report \cup {None}, NEW required \in SUBSET GradeTests
    PROVE  /\ Graded!observe(e, required) = "Pass"
                <=> Graded!Corroborated(e, required) /\ required # {}
           /\ Graded!observe(e, required) = "Fail" =>
               \/ e.binding = "foreign" \/ e.errors \/ e.exit = 1 \/ e.outcome = "Fail"
               \/ Graded!Having("Failed", e.cases) # {}
               \/ ~ required \subseteq Graded!Having("Passed", e.cases)
<1>1. CASE e = None
  BY <1>1 DEF Graded!observe, Graded!Corroborated
<1>2. CASE e # None
  <2> DEFINE d == Graded!derive_from_detail(e, required)
             twice == \E n, k \in DOMAIN e.cases : n # k /\ e.cases[n].node = e.cases[k].node
             failed == Graded!Having("Failed", e.cases)
             passed == Graded!Having("Passed", e.cases)
  <2>1. /\ e.binding \in {"same", "stale", "foreign"} /\ e.outcome \in Graded!Outcome
        /\ e.exit \in {0, 1, None} /\ e.errors \in BOOLEAN
    BY <1>2 DEF Graded!Report
  <2>2. ASSUME NEW n \in DOMAIN e.cases
        PROVE  e.cases[n] = [node |-> e.cases[n].node, status |-> e.cases[n].status]
    <3>1. PICK m \in 0 .. 2 : e.cases \in [1 .. m -> Graded!Case]
      BY <1>2 DEF Graded!Report
    <3>2. e.cases[n] \in Graded!Case
      BY <3>1
    <3> QED BY <3>2 DEF Graded!Case
  <2>3. /\ failed = {} <=> \A n \in DOMAIN e.cases : e.cases[n].status # "Failed"
        /\ required \subseteq passed <=> \A t \in required : \E n \in DOMAIN e.cases :
              e.cases[n] = [node |-> t, status |-> "Passed"]
    <3>1. failed = {} <=> \A n \in DOMAIN e.cases : e.cases[n].status # "Failed"
      BY DEF Graded!Having
    <3>2. \A t : t \in passed <=> \E n \in DOMAIN e.cases :
                    e.cases[n].node = t /\ e.cases[n].status = "Passed"
      BY DEF Graded!Having
    <3>3. \A t, n : n \in DOMAIN e.cases =>
            (e.cases[n].node = t /\ e.cases[n].status = "Passed"
             <=> e.cases[n] = [node |-> t, status |-> "Passed"])
      BY <2>2
    <3>4. required \subseteq passed <=> \A t \in required : t \in passed
      OBVIOUS
    <3> HIDE DEF passed, failed
    <3>5. \A t : t \in passed <=> \E n \in DOMAIN e.cases :
                    e.cases[n] = [node |-> t, status |-> "Passed"]
      BY <3>2, <3>3
    <3> QED BY <3>1, <3>4, <3>5
  <2>4. /\ d = "Pass" <=> /\ required # {} /\ e.exit # None /\ ~ e.errors
                          /\ e.cases # <<>> /\ ~ twice /\ e.exit = 0 /\ failed = {}
                          /\ required \subseteq passed
        /\ d = "Fail" => e.errors \/ e.exit = 1 \/ failed # {} \/ ~ required \subseteq passed
    BY <2>1 DEF Graded!derive_from_detail
  <2>5. required # {} /\ required \subseteq passed => e.cases # <<>>
    BY DEF Graded!Having
  <2>6. /\ Graded!observe(e, required) = "Pass" <=>
              e.binding = "same" /\ e.outcome = "Pass" /\ d = "Pass"
        /\ Graded!observe(e, required) = "Fail" =>
              e.binding = "foreign" \/ e.outcome = "Fail" \/ d = "Fail"
    <3> HIDE DEF d
    <3>1. Graded!observe(e, required) =
            IF e.binding = "foreign" THEN "Fail" ELSE IF e.binding = "stale" THEN "Unknown"
            ELSE Graded!more_conservative(e.outcome, d)
      BY <1>2 DEF Graded!observe, d
    <3>2. d \in Graded!Outcome
      BY DEF d, Graded!derive_from_detail, Graded!Outcome
    <3>3. /\ Graded!more_conservative(e.outcome, d) = "Pass" <=> e.outcome = "Pass" /\ d = "Pass"
          /\ Graded!more_conservative(e.outcome, d) = "Fail" => e.outcome = "Fail" \/ d = "Fail"
      BY <2>1, <3>2 DEF Graded!more_conservative, Graded!Outcome
    <3> QED BY <2>1, <3>1, <3>3
  <2>7. Graded!Corroborated(e, required) <=>
          /\ e.binding = "same" /\ e.outcome = "Pass" /\ e.exit = 0 /\ ~ e.errors
          /\ required \subseteq passed /\ failed = {} /\ ~ twice
    <3> HIDE DEF passed, failed
    <3>1. ~ twice <=> \A n \in DOMAIN e.cases : \A k \in DOMAIN e.cases :
                          e.cases[k].node = e.cases[n].node => k = n
      OBVIOUS
    <3> HIDE DEF twice
    <3> QED BY <1>2, <2>3, <3>1 DEF Graded!Corroborated
  <2>8. e.exit = 0 => e.exit # None
    BY DEF Graded!GradingConstants
  <2> HIDE DEF d, passed, failed, twice
  <2> QED BY <2>1, <2>4, <2>5, <2>6, <2>7, <2>8 DEF passed, failed
<1> QED BY <1>1, <1>2

\* Evidence of an undecided record is exact, whatever its contract requires.
LEMMA EvidenceStaysExact ==
    ASSUME Graded!GradingConstants, GradeInv PROVE Graded!EvidenceIsExact
<1>1. contract.required \in SUBSET GradeTests
  BY DEF GradeInv
<1>2. PICK required \in SUBSET GradeTests : required = contract.required
  BY <1>1
<1>3. \A e \in Graded!Report \cup {None} :
        /\ Graded!observe(e, required) = "Pass"
                <=> Graded!Corroborated(e, required) /\ required # {}
        /\ Graded!observe(e, required) = "Fail" =>
             \/ e.binding = "foreign" \/ e.errors \/ e.exit = 1 \/ e.outcome = "Fail"
             \/ Graded!Having("Failed", e.cases) # {}
             \/ ~ required \subseteq Graded!Having("Passed", e.cases)
  BY ReportsAreExact
<1>4. Graded!ExactFor[required]
  BY <1>3 DEF Graded!ExactFor
<1> QED BY <1>2, <1>4 DEF Graded!EvidenceIsExact

\* An axis that neither failed nor is unknown passed.
LEMMA AxisPassed ==
    ASSUME GradeInv, state # "AssistantGenerated",
           ~ Graded!is_hard_reject(facts), ~ Graded!blocks_admission(facts)
    PROVE  \A axis \in Graded!Axes :
              facts[axis].policy = "Authoritative" => facts[axis].outcome = "Pass"
<1> SUFFICES ASSUME NEW axis \in Graded!Axes, facts[axis].policy = "Authoritative"
             PROVE  facts[axis].outcome = "Pass"
  OBVIOUS
<1>1. facts[axis] \in AxisType
  BY DEF GradeInv, Graded!Axes
<1>2. facts[axis].outcome \in Graded!Outcome
  BY <1>1 DEF AxisType
<1>3. facts[axis].outcome # "Fail" /\ facts[axis].outcome # "Unknown"
  BY DEF Graded!is_hard_reject, Graded!blocks_admission, Graded!Authoritative
<1> QED BY <1>2, <1>3 DEF Graded!Outcome

\* What the preflight finds attainable is not too correlated, and can be accepted.
LEMMA AttainableIsUncorrelated ==
    ASSUME Graded!GradingConstants, GradeInv PROVE Graded!PreflightIsSound
<1> SUFFICES ASSUME area.intent = "Automatic"
             PROVE  \E d \in 1 .. area.judges :
                        ~ Graded!TooCorrelated(d) /\ Graded!band(10 * d, d) = "Accept"
  BY DEF Graded!PreflightIsSound
<1>1. PICK d \in 1 .. area.judges :
        /\ 10000 * d >= area.min_n_eff * (100 + (d - 1) * area.rho)
        /\ 10000 >= area.min_n_eff_ratio * (100 + (d - 1) * area.rho)
  BY DEF GradeInv, Graded!assess_panel
<1>2. /\ d \in Nat /\ d >= 1 /\ area.rho \in Nat /\ area.min_n_eff \in Nat
      /\ area.min_n_eff_ratio \in Nat /\ area.accept = 8
  <2>1. /\ area.judges \in 1 .. GradeJudges /\ area.rho \in GradeRhos
        /\ area.min_n_eff \in {100, 150} /\ area.min_n_eff_ratio \in {60} /\ area.accept \in {8}
    BY DEF GradeInv
  <2>2. GradeJudges \in Nat /\ area.rho \in 0 .. 100
    BY <2>1 DEF Graded!GradingConstants
  <2> QED BY <2>1, <2>2
<1>3. PICK rho \in Nat : rho = area.rho
  BY <1>2
<1>4. PICK x \in Nat : x = 100 + (d - 1) * rho
  <2>1. d - 1 \in Nat
    BY <1>2
  <2>2. (d - 1) * rho \in Nat
    BY <2>1
  <2> QED BY <2>2
<1>5. Graded!Design(d) = d * x
  <2>1. d * x = d * 100 + d * ((d - 1) * rho)
    BY <1>2, <1>4
  <2>2. d * ((d - 1) * rho) = d * (d - 1) * rho
    BY <1>2
  <2> QED BY <1>3, <2>1, <2>2 DEF Graded!Design
<1>6. ASSUME NEW a \in Nat, NEW b \in Nat, NEW c \in Nat, a >= b PROVE a * c >= b * c
  <2>1. PICK k \in Nat : a = b + k
    <3>1. a - b \in Nat /\ a = b + (a - b)
      BY <1>6
    <3> QED BY <3>1
  <2>2. a * c = b * c + k * c /\ k * c \in Nat /\ b * c \in Nat
    BY <2>1
  <2> QED BY <2>2
<1>7. ~ Graded!Below(d, area.min_n_eff)
  <2>1. PICK m \in Nat : m = area.min_n_eff
    BY <1>2
  <2>2. 10000 * d >= m * x
    BY <1>1, <1>3, <1>4, <2>1
  <2>3. (10000 * d) * d >= (m * x) * d
    BY <1>2, <1>6, <2>2
  <2>4. (m * x) * d = m * (d * x)
    BY <1>2
  <2>5. m * (d * x) \in Nat /\ (10000 * d) * d \in Nat
    BY <1>2
  <2> QED BY <1>5, <2>1, <2>3, <2>4, <2>5 DEF Graded!Below
<1>8. ~ Graded!Below(d, area.min_n_eff_ratio * d)
  <2>1. PICK m \in Nat : m = area.min_n_eff_ratio
    BY <1>2
  <2>2. 10000 >= m * x
    BY <1>1, <1>3, <1>4, <2>1
  <2>3. PICK dd \in Nat : dd = d * d
    BY <1>2
  <2>4. 10000 * dd >= (m * x) * dd
    BY <1>6, <2>2
  <2>5. (m * x) * dd = (m * d) * (d * x)
    BY <1>2, <2>3
  <2>6. 10000 * dd = 10000 * d * d
    BY <1>2, <2>3
  <2>7. (m * d) * (d * x) \in Nat /\ 10000 * dd \in Nat
    BY <1>2
  <2> QED BY <1>5, <2>1, <2>4, <2>5, <2>6, <2>7 DEF Graded!Below
<1>9. Graded!band(10 * d, d) = "Accept"
  BY <1>2 DEF Graded!band
<1> QED BY <1>7, <1>8, <1>9 DEF Graded!TooCorrelated

\* Whatever was graded is earned: the four properties follow from the invariant.
LEMMA GradeIsEarned ==
    ASSUME Graded!GradingConstants, GradeInv
    PROVE  /\ Graded!EvidenceIsExact /\ Graded!VerifierHasTheLastWord
           /\ Graded!ReconcileAgrees /\ Graded!PreflightIsSound
<1>1. Graded!ReconcileAgrees
  <2> SUFFICES ASSUME state = "Judged" PROVE Graded!decision_from_judging = decision
    BY DEF Graded!ReconcileAgrees
  <2>1. Decided /\ decision = judging.verdict
    BY DEF GradeInv
  <2> QED BY <2>1, DecidesAgain, RederivedIsTheCodes
<1>2. Graded!VerifierHasTheLastWord
  <2> SUFFICES ASSUME state = "Admitted"
               PROVE  /\ \A axis \in Graded!Axes :
                            facts[axis].policy = "Authoritative" => facts[axis].outcome = "Pass"
                      /\ area.intent = "Automatic"
                      /\ judging.decisive_count > 0
                      /\ judging.aggregate >= area.accept * judging.decisive_count
    BY DEF Graded!VerifierHasTheLastWord
  <2>1. /\ Decided /\ area.intent \in {"Automatic", "ReviewOnly"}
        /\ state = IF Rederived = "Revise" /\ revised THEN "Rejected"
                   ELSE Graded!Lifecycle(Rederived)
    BY DEF GradeInv
  <2>2. Rederived = judging.verdict /\ Rederived \in Verdicts
    BY <2>1, DecidesAgain
  <2>3. Rederived = "Accept"
    BY <2>1, <2>2 DEF Verdicts, Graded!Lifecycle
  <2>4. /\ ~ Graded!is_hard_reject(facts) /\ ~ Graded!blocks_admission(facts)
        /\ area.intent # "ReviewOnly" /\ judging.decisive_count > 0
        /\ judging.aggregate >= area.accept * judging.decisive_count
    BY <2>1, <2>2, <2>3, DecidesAgain
  <2> QED BY <2>1, <2>4, AxisPassed
<1> QED BY <1>1, <1>2, EvidenceStaysExact, AttainableIsUncorrelated

------------------------------------------------------------------------------
(* What the judges were asked.                                             *)

\* What position i asks for, and its last attempt.
Asks(i) == Votes!build_judge_request(judges[i], prompt)
Latest == attempts[Len(attempts)]

\* The ledger is a sequence of attempts.
Ledgered ==
    /\ attempts \in Seq(Votes!Range(attempts))
    /\ \A n \in 1 .. Len(attempts) :
          attempts[n] = [request |-> attempts[n].request, version |-> attempts[n].version,
                         interpretation |-> attempts[n].interpretation]

\* A cached row is of an accepted attempt, and its key says what that attempt asked.
RowIsOf(k, row, a) ==
    /\ a.interpretation = "Accepted"
    /\ k = <<a.request.model, <<a.request, k[2][2], a.version>>>>
    /\ row.judge_model = a.request.model /\ row.temperature = a.request.temperature
    /\ row.version = a.version
Cached == \A k \in DOMAIN cache : /\ cache[k].attempt \in 1 .. Len(attempts)
                                  /\ RowIsOf(k, cache[k], attempts[cache[k].attempt])

\* A position's grade answers what it asks, as this program reads answers.
Grades(i, g) ==
    /\ g.attempt \in 1 .. Len(attempts)
    /\ attempts[g.attempt].request = Asks(i) /\ attempts[g.attempt].version = version
    /\ g.effective_contract = Votes!Contract(i) /\ Votes!matches_grade(Votes!Contract(i), g)
Collected == \A i \in DOMAIN panel : panel[i] # None => Grades(i, panel[i])

\* The request under way is the latest attempt, for the position that has no grade.
Requested ==
    stage \in {"stream", "interpret", "put"} =>
        /\ Len(attempts) # 0 /\ Latest.request = Asks(Votes!Position) /\ Latest.version = version
        /\ Latest.interpretation = IF stage = "put" THEN "Accepted" ELSE None

\* The inductive invariant of a panel.
VoteInv ==
    /\ Ledgered /\ Cached /\ Collected /\ Requested
    /\ DOMAIN panel = DOMAIN judges
    /\ stage \notin {"start", "refused"} => Votes!Valid
    /\ assessed => Votes!validate_judge_panel
    /\ stage \in {"decided", "unfit"} =>
          ~ Votes!Missing /\ (stage = "decided" <=> Votes!validate_grade_evidence)

\* Two positions with one key make one request.
LEMMA KeysTell ==
    ASSUME NEW i, NEW k, Votes!Key(judges[i]) = Votes!Key(judges[k])
    PROVE  Asks(i) = Asks(k) /\ Votes!Contract(i) = Votes!Contract(k)
<1>1. Asks(i) = Asks(k)
  BY DEF Votes!Key, Votes!request_fingerprint, Asks
<1> QED BY <1>1 DEF Votes!Contract, Asks

\* What a contract says of its request.
LEMMA ContractSays ==
    ASSUME NEW i, Votes!Contract(i) # None
    PROVE  /\ Votes!Contract(i).model = Asks(i).model
           /\ Votes!Contract(i).temperature = Asks(i).temperature
           /\ Votes!Contract(i).cached_temperature
                = Votes!cache_float_projection(Asks(i).temperature)
           /\ Votes!Contract(i).fingerprint =
                <<[Asks(i) EXCEPT !.temperature = Votes!normalize_zero(@)], version>>
<1>1. PICK r : r = Asks(i)
  OBVIOUS
<1>2. Votes!Contract(i) = Votes!json_score(r) /\ Votes!json_score(r) # None
  BY <1>1 DEF Votes!Contract, Asks
<1>3. Votes!json_score(r) =
        [fingerprint |-> <<[r EXCEPT !.temperature = Votes!normalize_zero(@)], version>>,
         model |-> r.model, temperature |-> r.temperature,
         cached_temperature |-> Votes!cache_float_projection(r.temperature)]
  BY <1>2 DEF Votes!json_score
<1> QED BY <1>1, <1>2, <1>3

\* A fresh grade is of every position with its key.
LEMMA FreshGrades ==
    ASSUME NEW i, NEW k, Votes!Key(judges[i]) = Votes!Key(judges[k]), Votes!Contract(i) # None,
           Ledgered, Len(attempts) # 0, Latest.request = Asks(k), Latest.version = version
    PROVE  Grades(i, Votes!parse_grade(judges[k]))
<1> DEFINE g == Votes!parse_grade(judges[k])
<1>1. /\ g.judge_model = judges[k].slug /\ g.temperature = judges[k].temperature
      /\ g.version = version /\ g.attempt = Len(attempts)
      /\ g.effective_contract = Votes!Contract(k)
  BY DEF Votes!parse_grade, Votes!Contract
<1>2. Asks(k).model = judges[k].slug /\ Asks(k).temperature = judges[k].temperature
  BY DEF Asks, Votes!build_judge_request
<1>3. Asks(i) = Asks(k) /\ Votes!Contract(i) = Votes!Contract(k)
  BY KeysTell
<1>4. Len(attempts) \in 1 .. Len(attempts)
  BY DEF Ledgered
<1>5. Votes!matches_grade(Votes!Contract(i), g)
  <2> HIDE DEF g
  <2> QED BY <1>1, <1>2, <1>3, ContractSays DEF Votes!matches_grade
<1> HIDE DEF g
<1> QED BY <1>1, <1>3, <1>4, <1>5 DEF Grades, Latest, g

\* So is a restored one, as far as the cache's numbers tell.
LEMMA RestoredGrades ==
    ASSUME NEW i, NEW k, Votes!Key(judges[i]) = Votes!Key(judges[k]), Votes!Contract(i) # None,
           NEW row, row.attempt \in 1 .. Len(attempts),
           RowIsOf(Votes!Key(judges[k]), row, attempts[row.attempt])
    PROVE  Grades(i, Votes!grade_from_cache_value(row, Votes!Contract(k)))
<1> DEFINE g == Votes!grade_from_cache_value(row, Votes!Contract(k))
<1>1. /\ g.judge_model = row.judge_model /\ g.version = row.version /\ g.attempt = row.attempt
      /\ g.temperature = Votes!cache_float_projection(row.temperature)
      /\ g.effective_contract = Votes!Contract(k)
  BY DEF Votes!grade_from_cache_value
<1>2. /\ attempts[row.attempt].request = Asks(k) /\ attempts[row.attempt].version = version
      /\ row.judge_model = Asks(k).model /\ row.temperature = Asks(k).temperature
      /\ row.version = version
  <2>1. PICK a : a = attempts[row.attempt]
    OBVIOUS
  <2>2. PICK r : r = Asks(k)
    OBVIOUS
  <2>3. Votes!Key(judges[k]) = <<judges[k].slug, <<r, judges[k].rubric_id, version>>>>
    BY <2>2 DEF Votes!Key, Votes!request_fingerprint, Asks
  <2>4. RowIsOf(<<judges[k].slug, <<r, judges[k].rubric_id, version>>>>, row, a)
    BY <2>1, <2>3
  <2>5. a.request = r /\ a.version = version
    BY <2>4 DEF RowIsOf
  <2> QED BY <2>1, <2>2, <2>4, <2>5 DEF RowIsOf
<1>3. Asks(i) = Asks(k) /\ Votes!Contract(i) = Votes!Contract(k)
  BY KeysTell
<1>4. Votes!matches_grade(Votes!Contract(i), g)
  <2> HIDE DEF g
  <2> QED BY <1>1, <1>2, <1>3, ContractSays DEF Votes!matches_grade
<1> HIDE DEF g
<1> QED BY <1>1, <1>2, <1>3, <1>4 DEF Grades, g

\* Every action keeps the invariant while the panel's request stays the same: what is
\* left to show of an action is what it does to the ledger, the cache and the grades.
SameRequest == UNCHANGED <<judges, prompt, version, launches>>

\* The judges' contracts depend on what is kept only.
LEMMA ContractsAreKept ==
    ASSUME SameRequest
    PROVE  /\ \A i : /\ Asks(i)' = Asks(i) /\ Votes!Contract(i)' = Votes!Contract(i)
                     /\ Votes!Key(judges[i])' = Votes!Key(judges[i])
           /\ Votes!Valid' = Votes!Valid /\ Votes!validate_judge_panel' = Votes!validate_judge_panel
           /\ \A c, g : Votes!matches_grade(c, g)' = Votes!matches_grade(c, g)
<1>1. UNCHANGED <<judges, prompt, version>>
  BY DEF SameRequest
<1>2. \A i : Asks(i)' = Asks(i)
  BY <1>1 DEF Asks, Votes!build_judge_request, Votes!effective_max_tokens
<1>3. \A i : Votes!Contract(i)' = Votes!Contract(i)
  BY <1>1 DEF Votes!Contract, Votes!json_score
<1>4. \A i : Votes!Key(judges[i])' = Votes!Key(judges[i])
  BY <1>1 DEF Votes!Key, Votes!request_fingerprint
<1>5. Votes!Valid' = Votes!Valid
  BY <1>1, <1>3 DEF Votes!Valid
<1>6. [i \in DOMAIN judges |-> Votes!Contract(i)]' = [i \in DOMAIN judges |-> Votes!Contract(i)]
  BY <1>1, <1>3
<1>7. Votes!validate_judge_panel' = Votes!validate_judge_panel
  BY <1>5, <1>6 DEF Votes!validate_judge_panel, Votes!validate_unique
<1>8. \A c, g : Votes!matches_grade(c, g)' = Votes!matches_grade(c, g)
  BY <1>1 DEF Votes!matches_grade
<1> QED BY <1>2, <1>3, <1>4, <1>5, <1>7, <1>8

\* What a longer or rewritten ledger still says of an older attempt.
LEMMA RowsAreKept ==
    ASSUME VoteInv, SameRequest, Len(attempts') \in Nat, Len(attempts) <= Len(attempts'),
           \A n \in 1 .. Len(attempts) :
              \/ attempts'[n] = attempts[n]
              \/ /\ attempts[n].interpretation # "Accepted"
                 /\ attempts'[n].request = attempts[n].request
                 /\ attempts'[n].version = attempts[n].version
    PROVE  /\ \A k \in DOMAIN cache : /\ cache[k].attempt \in 1 .. Len(attempts')
                                      /\ RowIsOf(k, cache[k], attempts'[cache[k].attempt])
           /\ \A i, g : Grades(i, g) => Grades(i, g)'
<1>1. Len(attempts) \in Nat
  BY DEF VoteInv, Ledgered
<1>2. ASSUME NEW k \in DOMAIN cache
      PROVE  /\ cache[k].attempt \in 1 .. Len(attempts')
             /\ RowIsOf(k, cache[k], attempts'[cache[k].attempt])
  <2>1. /\ cache[k].attempt \in 1 .. Len(attempts)
        /\ RowIsOf(k, cache[k], attempts[cache[k].attempt])
    BY DEF VoteInv, Cached
  <2>2. attempts[cache[k].attempt].interpretation = "Accepted"
    BY <2>1 DEF RowIsOf
  <2> QED BY <1>1, <2>1, <2>2
<1>3. ASSUME NEW i, NEW g, Grades(i, g) PROVE Grades(i, g)'
  <2>1. /\ g.attempt \in 1 .. Len(attempts)
        /\ attempts[g.attempt].request = Asks(i) /\ attempts[g.attempt].version = version
        /\ g.effective_contract = Votes!Contract(i) /\ Votes!matches_grade(Votes!Contract(i), g)
    BY <1>3 DEF Grades
  <2>2. /\ g.attempt \in 1 .. Len(attempts')
        /\ attempts'[g.attempt].request = Asks(i) /\ attempts'[g.attempt].version = version'
    BY <1>1, <2>1 DEF SameRequest
  <2>3. /\ Asks(i)' = Asks(i) /\ Votes!Contract(i)' = Votes!Contract(i)
        /\ Votes!matches_grade(Votes!Contract(i), g)' = Votes!matches_grade(Votes!Contract(i), g)
    BY ContractsAreKept
  <2> QED BY <2>1, <2>2, <2>3 DEF Grades
<1> QED BY <1>2, <1>3

\* A step that leaves the ledger, the cache and the grades alone.
LEMMA NothingNew ==
    ASSUME VoteInv, SameRequest, UNCHANGED <<cache, attempts, panel>>
    PROVE  /\ (Ledgered /\ Cached /\ Collected)' /\ DOMAIN panel' = DOMAIN judges'
           /\ Votes!Valid' = Votes!Valid
           /\ Votes!validate_judge_panel' = Votes!validate_judge_panel
           /\ Votes!Missing' = Votes!Missing
           /\ Votes!validate_grade_evidence' = Votes!validate_grade_evidence
           /\ Latest' = Latest /\ Asks(Votes!Position)' = Asks(Votes!Position)
<1>1. Ledgered'
  BY DEF VoteInv, Ledgered, Votes!Range
<1>2. Len(attempts') \in Nat /\ Len(attempts) \in Nat /\ attempts' = attempts
  BY DEF VoteInv, Ledgered
<1>3. Cached'
  BY <1>2, RowsAreKept DEF Cached
<1>4. Collected'
  BY <1>2, RowsAreKept DEF Collected, VoteInv
<1>5. /\ Votes!Valid' = Votes!Valid /\ Votes!validate_judge_panel' = Votes!validate_judge_panel
      /\ \A c, g : Votes!matches_grade(c, g)' = Votes!matches_grade(c, g)
      /\ \A i : Asks(i)' = Asks(i)
  BY ContractsAreKept
<1>6. Votes!Missing' = Votes!Missing
  BY DEF Votes!Missing
<1>7. Votes!validate_grade_evidence' = Votes!validate_grade_evidence
  BY <1>5 DEF Votes!validate_grade_evidence, Votes!validate_unique
<1>8. Latest' = Latest
  BY DEF Latest
<1>9. Votes!Position' = Votes!Position
  BY DEF Votes!Position
<1>10. Asks(Votes!Position)' = Asks(Votes!Position)
  BY <1>9 DEF SameRequest, Asks, Votes!build_judge_request, Votes!effective_max_tokens
<1>11. DOMAIN panel' = DOMAIN judges'
  BY DEF VoteInv, SameRequest
<1> QED BY <1>1, <1>3, <1>4, <1>5, <1>6, <1>7, <1>8, <1>10, <1>11

\* Assessing, preparing, streaming, ending, breaking and deciding.
LEMMA QuietSteps ==
    ASSUME VoteInv, \/ Votes!Assess \/ Votes!Prepare \/ Votes!End \/ Votes!Consensus
                    \/ (\E d \in VoteDeltas : Votes!Delta(d))
                    \/ (\E error \in {"accounting", "decode", "transport"} : Votes!Break(error))
    PROVE  VoteInv'
<1>1. SameRequest /\ UNCHANGED <<cache, attempts, panel>>
  BY DEF Votes!Assess, Votes!Prepare, Votes!End, Votes!Consensus, Votes!Delta, Votes!Break,
         Votes!Lasting, SameRequest
<1>2. /\ (Ledgered /\ Cached /\ Collected)' /\ DOMAIN panel' = DOMAIN judges'
      /\ Votes!Valid' = Votes!Valid /\ Votes!validate_judge_panel' = Votes!validate_judge_panel
      /\ Votes!Missing' = Votes!Missing
      /\ Votes!validate_grade_evidence' = Votes!validate_grade_evidence
      /\ Latest' = Latest /\ Asks(Votes!Position)' = Asks(Votes!Position)
  BY <1>1, NothingNew
<1>3. /\ Requested
      /\ stage \notin {"start", "refused"} => Votes!Valid
      /\ assessed => Votes!validate_judge_panel
  BY DEF VoteInv
<1>4. CASE Votes!Assess
  <2>1. /\ assessed' = Votes!validate_judge_panel
        /\ stage' = IF assessed' THEN "collect" ELSE "refused"
    BY <1>4 DEF Votes!Assess, Votes!Goto
  <2>2. Votes!validate_judge_panel => Votes!Valid
    BY DEF Votes!validate_judge_panel
  <2> QED BY <1>2, <2>1, <2>2 DEF VoteInv, Requested
<1>5. CASE Votes!Prepare
  <2>1. assessed' = assessed /\ stage' = IF Votes!Valid THEN "collect" ELSE "refused"
    BY <1>5 DEF Votes!Prepare, Votes!Goto
  <2> QED BY <1>2, <1>3, <2>1 DEF VoteInv, Requested
<1>6. CASE Votes!Consensus
  <2>1. /\ assessed' = assessed /\ ~ Votes!Missing /\ stage = "collect"
        /\ stage' = IF Votes!validate_grade_evidence THEN "decided" ELSE "unfit"
    BY <1>6 DEF Votes!Consensus, Votes!Goto
  <2> QED BY <1>2, <1>3, <2>1 DEF VoteInv, Requested
<1>7. CASE \/ Votes!End \/ (\E d \in VoteDeltas : Votes!Delta(d))
           \/ (\E error \in {"accounting", "decode", "transport"} : Votes!Break(error))
  <2>1. assessed' = assessed /\ stage = "stream" /\ stage' \in {"stream", "interpret", "failed"}
    BY <1>7 DEF Votes!End, Votes!Delta, Votes!Break, Votes!Goto
  <2>2. /\ Len(attempts) # 0 /\ Latest.request = Asks(Votes!Position)
        /\ Latest.version = version /\ Latest.interpretation = None
    BY <1>3, <2>1 DEF Requested
  <2>3. PICK a : a = Asks(Votes!Position)
    OBVIOUS
  <2>4. Asks(Votes!Position)' = a
    BY <1>2, <2>3
  <2>5. Len(attempts') # 0 /\ Latest' = Latest /\ version' = version
    BY <1>1, <1>2, <2>2 DEF SameRequest
  <2>6. /\ (Len(attempts) # 0)' /\ (Latest.request = Asks(Votes!Position))'
        /\ (Latest.version = version)' /\ (Latest.interpretation = None)'
    BY <2>2, <2>3, <2>4, <2>5
  <2>7. Requested'
    BY <2>1, <2>6 DEF Requested
  <2> QED BY <1>2, <1>3, <2>1, <2>7 DEF VoteInv
<1> QED BY <1>4, <1>5, <1>6, <1>7

\* A hit: the cached row is of what the position asks.
LEMMA HitStep == ASSUME VoteInv, Votes!Hit PROVE VoteInv'
<1> DEFINE key == Votes!Key(judges[Votes!Position])
           g == Votes!grade_from_cache_value(cache[key], Votes!Contract(Votes!Position))
<1>1. /\ SameRequest /\ UNCHANGED <<cache, attempts, assessed, stage>> /\ stage = "collect"
      /\ key \in DOMAIN cache /\ panel' = Votes!Filled(g)
  BY DEF Votes!Hit, Votes!Lasting, SameRequest
<1>2. /\ \A i : /\ Asks(i)' = Asks(i) /\ Votes!Contract(i)' = Votes!Contract(i)
                /\ Votes!Key(judges[i])' = Votes!Key(judges[i])
      /\ Votes!Valid' = Votes!Valid /\ Votes!validate_judge_panel' = Votes!validate_judge_panel
  BY <1>1, ContractsAreKept
<1>3. Len(attempts') \in Nat /\ Len(attempts) \in Nat /\ attempts' = attempts
  BY <1>1 DEF VoteInv, Ledgered
<1>4. Cached' /\ \A i, h : Grades(i, h) => Grades(i, h)'
  BY <1>1, <1>3, RowsAreKept DEF Cached
<1>5. Ledgered'
  BY <1>1 DEF VoteInv, Ledgered, Votes!Range
<1>6. /\ DOMAIN panel' = DOMAIN panel /\ DOMAIN panel = DOMAIN judges
      /\ \A i \in DOMAIN panel : Votes!Contract(i) # None
  BY <1>1 DEF VoteInv, Votes!Filled, Votes!Valid
<1>7. /\ cache[key].attempt \in 1 .. Len(attempts)
      /\ RowIsOf(key, cache[key], attempts[cache[key].attempt])
  BY <1>1 DEF VoteInv, Cached
<1>8. ASSUME NEW i \in DOMAIN panel', panel'[i] # None PROVE Grades(i, panel[i])'
  <2>1. panel'[i] = IF Votes!Key(judges[i]) = key THEN g ELSE panel[i]
    BY <1>1, <1>6 DEF Votes!Filled
  <2>2. CASE Votes!Key(judges[i]) = key
    <3>1. PICK k : k = Votes!Position
      OBVIOUS
    <3>2. PICK row : row = cache[key]
      OBVIOUS
    <3>3. Grades(i, Votes!grade_from_cache_value(row, Votes!Contract(k)))
      BY <1>6, <1>7, <2>2, <3>1, <3>2, RestoredGrades
    <3>4. panel'[i] = Votes!grade_from_cache_value(row, Votes!Contract(k))
      BY <2>1, <2>2, <3>1, <3>2
    <3>5. PICK h : h = panel'[i]
      OBVIOUS
    <3> QED BY <1>4, <3>3, <3>4, <3>5
  <2>3. CASE Votes!Key(judges[i]) # key
    <3>1. PICK h : h = panel'[i]
      OBVIOUS
    <3>2. Grades(i, h)
      BY <1>6, <1>8, <2>1, <2>3, <3>1 DEF VoteInv, Collected
    <3> QED BY <1>4, <3>1, <3>2
  <2> QED BY <2>2, <2>3
<1>9. Collected'
  BY <1>8 DEF Collected
<1>10. Requested'
  BY <1>1 DEF Requested
<1> QED BY <1>1, <1>2, <1>4, <1>5, <1>6, <1>9, <1>10 DEF VoteInv, SameRequest

\* An attempt under way is not yet accepted, so no cached row is of it.
LEMMA LedgerSteps ==
    ASSUME VoteInv, Votes!RequestConstants, SameRequest, UNCHANGED cache,
           \/ \E a : attempts' = Append(attempts,
                  [request |-> a, version |-> version, interpretation |-> None])
           \/ /\ stage = "interpret"
              /\ \E v : attempts' = [attempts EXCEPT ![Len(attempts)].interpretation = v]
           \/ UNCHANGED attempts
    PROVE  /\ Ledgered' /\ Cached' /\ \A i, g : Grades(i, g) => Grades(i, g)'
           /\ Len(attempts) \in Nat /\ Len(attempts') \in Nat
<1>1. /\ attempts \in Seq(Votes!Range(attempts)) /\ Len(attempts) \in Nat
      /\ \A n \in 1 .. Len(attempts) :
            attempts[n] = [request |-> attempts[n].request, version |-> attempts[n].version,
                           interpretation |-> attempts[n].interpretation]
  BY DEF VoteInv, Ledgered
<1> DEFINE Shaped(a) == a = [request |-> a.request, version |-> a.version,
                             interpretation |-> a.interpretation]
           Follows(n) == \/ attempts'[n] = attempts[n]
                         \/ /\ attempts[n].interpretation # "Accepted"
                            /\ attempts'[n].request = attempts[n].request
                            /\ attempts'[n].version = attempts[n].version
           Lengthened ==
              /\ \E S : attempts' \in Seq(S)
              /\ Len(attempts) <= Len(attempts')
              /\ \A n \in 1 .. Len(attempts') : Shaped(attempts'[n])
              /\ \A n \in 1 .. Len(attempts) : Follows(n)
<1>2. PICK T : T = Votes!Range(attempts)
  OBVIOUS
<1>3. attempts \in Seq(T) /\ attempts \in [1 .. Len(attempts) -> T]
  BY <1>1, <1>2
<1>4. Lengthened
  <2>1. ASSUME NEW a, attempts' = Append(attempts,
                  [request |-> a, version |-> version, interpretation |-> None])
        PROVE  Lengthened
    <3>1. PICK x : x = [request |-> a, version |-> version, interpretation |-> None]
      OBVIOUS
    <3>2. attempts' = Append(attempts, x) /\ Shaped(x)
      BY <2>1, <3>1
    <3>3. PICK S : S = T \cup {x}
      OBVIOUS
    <3>4. attempts \in Seq(S) /\ x \in S
      BY <1>3, <3>3
    <3>5. /\ attempts' \in Seq(S) /\ Len(attempts') = Len(attempts) + 1
          /\ attempts'[Len(attempts) + 1] = x
          /\ \A n \in 1 .. Len(attempts) : attempts'[n] = attempts[n]
      BY <3>2, <3>4, AppendProperties
    <3>6. \A n \in 1 .. Len(attempts') : n \in 1 .. Len(attempts) \/ n = Len(attempts) + 1
      BY <1>1, <3>5
    <3>7. Len(attempts) <= Len(attempts')
      BY <1>1, <3>5
    <3>8. \A n \in 1 .. Len(attempts') : Shaped(attempts'[n])
      BY <1>1, <3>2, <3>5, <3>6
    <3> QED BY <3>5, <3>7, <3>8
  <2>2. ASSUME stage = "interpret",
               NEW v, attempts' = [attempts EXCEPT ![Len(attempts)].interpretation = v]
        PROVE  Lengthened
    <3>1. Len(attempts) # 0 /\ attempts[Len(attempts)].interpretation = None
      BY <2>2 DEF VoteInv, Requested, Latest
    <3>2. Len(attempts) \in 1 .. Len(attempts)
      BY <1>1, <3>1
    <3>3. PICK x : x = [attempts[Len(attempts)] EXCEPT !.interpretation = v]
      OBVIOUS
    <3>4. /\ Shaped(x) /\ x.request = attempts[Len(attempts)].request
          /\ x.version = attempts[Len(attempts)].version
      <4>1. PICK a : a = attempts[Len(attempts)]
        OBVIOUS
      <4>2. a = [request |-> a.request, version |-> a.version,
                 interpretation |-> a.interpretation]
        BY <1>1, <3>2, <4>1
      <4>3. x = [request |-> a.request, version |-> a.version, interpretation |-> v]
        BY <3>3, <4>1, <4>2
      <4> QED BY <4>1, <4>3
    <3>5. PICK S : S = T \cup {x}
      OBVIOUS
    <3>6. attempts \in Seq(S) /\ x \in S /\ attempts' = [attempts EXCEPT ![Len(attempts)] = x]
      <4>1. attempts \in Seq(S) /\ x \in S
        BY <1>3, <3>5
      <4> QED BY <2>2, <3>3, <4>1
    <3>7. /\ attempts' \in Seq(S) /\ Len(attempts') = Len(attempts)
          /\ \A n \in 1 .. Len(attempts) :
                attempts'[n] = IF n = Len(attempts) THEN x ELSE attempts[n]
      BY <3>2, <3>6, ExceptSeq
    <3>8. attempts[Len(attempts)].interpretation # "Accepted"
      BY <3>1 DEF Votes!RequestConstants
    <3>9. \A n \in 1 .. Len(attempts) : Follows(n) /\ Shaped(attempts'[n])
      BY <1>1, <3>4, <3>7, <3>8
    <3>10. Len(attempts) <= Len(attempts')
      BY <1>1, <3>7
    <3> QED BY <3>7, <3>9, <3>10
  <2>3. ASSUME UNCHANGED attempts PROVE Lengthened
    BY <1>1, <1>3, <2>3
  <2> QED BY <2>1, <2>2, <2>3
<1>5. Len(attempts') \in Nat /\ attempts' \in Seq(Votes!Range(attempts'))
  <2>1. PICK S : attempts' \in Seq(S)
    BY <1>4
  <2>2. Len(attempts') \in Nat /\ attempts' \in [1 .. Len(attempts') -> S]
    BY <2>1
  <2>3. attempts' \in [1 .. Len(attempts') -> Votes!Range(attempts')]
    BY <2>2 DEF Votes!Range
  <2>4. PICK R : R = Votes!Range(attempts')
    OBVIOUS
  <2>5. \E n \in Nat : attempts' \in [1 .. n -> R]
    BY <2>2, <2>3, <2>4
  <2>6. \A n \in Nat : \A s \in [1 .. n -> R] : s \in Seq(R)
    OBVIOUS
  <2> QED BY <2>2, <2>4, <2>5, <2>6
<1>6. Ledgered'
  BY <1>4, <1>5 DEF Ledgered
<1>7. Cached' /\ \A i, g : Grades(i, g) => Grades(i, g)'
  BY <1>4, <1>5, RowsAreKept DEF Cached
<1> QED BY <1>1, <1>5, <1>6, <1>7

\* Sending, and recording what an answer amounts to.
LEMMA LedgerActions ==
    ASSUME VoteInv, Votes!RequestConstants,
           Votes!Dispatch \/ Votes!Interpret \/ Votes!InterpretFails
    PROVE  VoteInv'
<1>1. SameRequest /\ UNCHANGED <<cache, panel, assessed>>
  BY DEF Votes!Dispatch, Votes!Interpret, Votes!InterpretFails, Votes!Lasting, SameRequest
<1>2. /\ \/ \E a : attempts' = Append(attempts,
                [request |-> a, version |-> version, interpretation |-> None])
         \/ /\ stage = "interpret"
            /\ \E v : attempts' = [attempts EXCEPT ![Len(attempts)].interpretation = v]
         \/ UNCHANGED attempts
      /\ stage \in {"collect", "interpret"} /\ stage' \in {"stream", "put", "failed"}
  BY DEF Votes!Dispatch, Votes!Interpret, Votes!InterpretFails, Votes!Goto
<1>3. /\ Ledgered' /\ Cached' /\ \A i, g : Grades(i, g) => Grades(i, g)'
      /\ Len(attempts) \in Nat /\ Len(attempts') \in Nat
  BY <1>1, <1>2, LedgerSteps
<1>4. Collected'
  <2>1. \A i \in DOMAIN panel : panel[i] # None => Grades(i, panel[i])
    BY DEF VoteInv, Collected
  <2>2. \A i \in DOMAIN panel : panel[i] # None => Grades(i, panel[i])'
    <3> SUFFICES ASSUME NEW i \in DOMAIN panel, panel[i] # None PROVE Grades(i, panel[i])'
      OBVIOUS
    <3>1. PICK h : h = panel[i]
      OBVIOUS
    <3>2. h = panel'[i] /\ Grades(i, h)
      BY <1>1, <2>1, <3>1
    <3> QED BY <1>3, <3>2
  <2> QED BY <1>1, <2>2 DEF Collected
<1>5. /\ Votes!Valid' = Votes!Valid /\ Votes!validate_judge_panel' = Votes!validate_judge_panel
      /\ \A i : Asks(i)' = Asks(i)
  BY <1>1, ContractsAreKept
<1>6. Votes!Position' = Votes!Position
  BY <1>1 DEF Votes!Position
<1>7. PICK k, r : k = Votes!Position /\ r = Asks(k)
  OBVIOUS
<1>8. Asks(Votes!Position)' = r /\ Asks(Votes!Position) = r
  <2>1. Asks(k)' = Asks(k)
    BY <1>5
  <2> QED BY <1>6, <1>7, <2>1
<1> DEFINE Sent ==
        /\ Len(attempts') # 0 /\ attempts'[Len(attempts')].request = r
        /\ attempts'[Len(attempts')].version = version
        /\ attempts'[Len(attempts')].interpretation
             = IF stage' = "put" THEN "Accepted" ELSE None
<1>9. stage' \in {"stream", "put"} => Sent
  <2>1. CASE Votes!Dispatch
    <3> SUFFICES ASSUME stage' \in {"stream", "put"} PROVE Sent
      OBVIOUS
    <3>1. /\ stage' = "stream"
          /\ attempts' = Append(attempts, [request |-> Asks(Votes!Position),
                                           version |-> version, interpretation |-> None])
      BY <2>1 DEF Votes!Dispatch, Votes!Goto, Asks
    <3>2. PICK x : x = [request |-> r, version |-> version, interpretation |-> None]
      OBVIOUS
    <3>3. attempts' = Append(attempts, x)
      BY <1>8, <3>1, <3>2
    <3>4. PICK S : S = Votes!Range(attempts) \cup {x}
      OBVIOUS
    <3>5. attempts \in Seq(S) /\ x \in S
      BY <3>4 DEF VoteInv, Ledgered
    <3>6. Len(attempts') = Len(attempts) + 1 /\ attempts'[Len(attempts) + 1] = x
      BY <3>3, <3>5, AppendProperties
    <3>7. Len(attempts') # 0
      BY <1>3, <3>6
    <3> QED BY <3>1, <3>2, <3>6, <3>7
  <2>2. CASE Votes!Interpret \/ Votes!InterpretFails
    <3> SUFFICES ASSUME stage' \in {"stream", "put"} PROVE Sent
      OBVIOUS
    <3>1. /\ stage = "interpret" /\ stage' = "put"
          /\ attempts' = [attempts EXCEPT ![Len(attempts)].interpretation = "Accepted"]
      BY <2>2 DEF Votes!Interpret, Votes!InterpretFails, Votes!Goto
    <3>2. /\ Len(attempts) # 0 /\ attempts[Len(attempts)].request = r
          /\ attempts[Len(attempts)].version = version
      BY <1>8, <3>1 DEF VoteInv, Requested, Latest
    <3>3. Len(attempts) \in 1 .. Len(attempts)
      BY <1>3, <3>2
    <3>4. PICK a : a = attempts[Len(attempts)]
      OBVIOUS
    <3>5. a = [request |-> a.request, version |-> a.version, interpretation |-> a.interpretation]
      BY <3>3, <3>4 DEF VoteInv, Ledgered
    <3>6. PICK x : x = [request |-> a.request, version |-> a.version,
                        interpretation |-> "Accepted"]
      OBVIOUS
    <3>7. x = [a EXCEPT !.interpretation = "Accepted"]
      BY <3>5, <3>6
    <3>8. attempts' = [attempts EXCEPT ![Len(attempts)] = x]
      BY <3>1, <3>4, <3>7
    <3>9. PICK S : S = Votes!Range(attempts) \cup {x}
      OBVIOUS
    <3>10. attempts \in Seq(S) /\ x \in S
      BY <3>9 DEF VoteInv, Ledgered
    <3>11. Len(attempts') = Len(attempts) /\ attempts'[Len(attempts)] = x
      BY <3>3, <3>8, <3>10, ExceptSeq
    <3> QED BY <3>1, <3>2, <3>4, <3>6, <3>11
  <2> QED BY <2>1, <2>2
<1>10. Requested'
  <2>1. stage' \in {"stream", "interpret", "put"} => stage' \in {"stream", "put"}
    BY <1>2
  <2>2. (Latest.request = Asks(Votes!Position))' <=> attempts'[Len(attempts')].request = r
    BY <1>8 DEF Latest
  <2> QED BY <1>1, <1>9, <2>1, <2>2 DEF Requested, Latest, SameRequest
<1> QED BY <1>1, <1>2, <1>3, <1>4, <1>5, <1>10 DEF VoteInv, SameRequest

\* The row that is put is of the accepted attempt under way.
LEMMA PutRows ==
    ASSUME VoteInv, stage = "put", SameRequest, UNCHANGED attempts,
           cache' \in {cache, Votes!CachePut}
    PROVE  Ledgered' /\ Cached'
<1>1. Len(attempts) \in Nat /\ attempts' = attempts
  BY DEF VoteInv, Ledgered
<1>2. Ledgered'
  BY <1>1 DEF VoteInv, Ledgered, Votes!Range
<1>3. PICK k, j : k = Votes!Position /\ j = judges[k]
  OBVIOUS
<1>4. /\ Len(attempts) \in 1 .. Len(attempts)
      /\ Latest.request = Votes!build_judge_request(j, prompt)
      /\ Latest.version = version /\ Latest.interpretation = "Accepted"
  BY <1>1, <1>3 DEF VoteInv, Requested, Asks
<1>5. PICK row, key : row = Votes!grade_to_cache_value(Votes!parse_grade(j)) /\ key = Votes!Key(j)
  OBVIOUS
<1>6. /\ row.judge_model = j.slug /\ row.temperature = j.temperature
      /\ row.version = version /\ row.attempt = Len(attempts)
  BY <1>5 DEF Votes!grade_to_cache_value, Votes!parse_grade
<1>7. RowIsOf(key, row, Latest)
  <2>1. PICK r : r = Votes!build_judge_request(j, prompt)
    OBVIOUS
  <2>2. r.model = j.slug /\ r.temperature = j.temperature
    BY <2>1 DEF Votes!build_judge_request
  <2>3. key = <<j.slug, <<r, j.rubric_id, version>>>>
    BY <1>5, <2>1 DEF Votes!Key, Votes!request_fingerprint
  <2>4. Latest.request = r
    BY <1>4, <2>1
  <2> QED BY <1>4, <1>6, <2>2, <2>3, <2>4 DEF RowIsOf
<1>8. ASSUME NEW c \in DOMAIN cache'
      PROVE  /\ cache'[c].attempt \in 1 .. Len(attempts)
             /\ RowIsOf(c, cache'[c], attempts[cache'[c].attempt])
  <2>1. \/ cache' = cache
        \/ cache' = [x \in DOMAIN cache \cup {key} |-> IF x = key THEN row ELSE cache[x]]
    BY <1>3, <1>5 DEF Votes!CachePut
  <2>2. CASE c = key /\ cache'[c] = row
    BY <1>4, <1>6, <1>7, <2>2 DEF Latest
  <2>3. CASE c \in DOMAIN cache /\ cache'[c] = cache[c]
    BY <2>3 DEF VoteInv, Cached
  <2> QED BY <2>1, <2>2, <2>3
<1>9. Cached'
  BY <1>1, <1>8 DEF Cached
<1> QED BY <1>2, <1>9

\* What the grades say is unchanged by what is cached.
LEMMA GradesAreKept ==
    ASSUME VoteInv, SameRequest, UNCHANGED attempts PROVE \A i, g : Grades(i, g) => Grades(i, g)'
<1>1. Len(attempts') \in Nat /\ Len(attempts) \in Nat /\ attempts' = attempts
  BY DEF VoteInv, Ledgered
<1> QED BY <1>1, RowsAreKept

\* Putting a grade: its row is cached, and every position of its key has it.
LEMMA PutSteps == ASSUME VoteInv, Votes!Put \/ Votes!PutFails PROVE VoteInv'
<1>1. /\ SameRequest /\ UNCHANGED <<attempts, assessed>> /\ stage = "put"
      /\ cache' \in {cache, Votes!CachePut} /\ stage' \in {"collect", "failed"}
      /\ panel' \in {panel, Votes!Filled(Votes!parse_grade(judges[Votes!Position]))}
  BY DEF Votes!Put, Votes!PutFails, Votes!Lasting, SameRequest, Votes!Goto
<1>2. Ledgered' /\ Cached'
  BY <1>1, PutRows
<1>3. /\ \A i, g : Grades(i, g) => Grades(i, g)'
      /\ Votes!Valid' = Votes!Valid /\ Votes!validate_judge_panel' = Votes!validate_judge_panel
  BY <1>1, GradesAreKept, ContractsAreKept
<1>4. PICK k, g : k = Votes!Position /\ g = Votes!parse_grade(judges[k])
  OBVIOUS
<1>5. /\ DOMAIN panel' = DOMAIN panel /\ DOMAIN panel = DOMAIN judges
      /\ \A i \in DOMAIN panel : Votes!Contract(i) # None
  BY <1>1 DEF VoteInv, Votes!Filled, Votes!Valid
<1>6. ASSUME NEW i \in DOMAIN panel, NEW h, h = panel'[i], h # None PROVE Grades(i, h)
  <2>1. \/ h = panel[i] \/ (Votes!Key(judges[i]) = Votes!Key(judges[k]) /\ h = g)
    BY <1>1, <1>4, <1>6 DEF Votes!Filled
  <2>2. CASE h = panel[i]
    BY <1>6, <2>2 DEF VoteInv, Collected
  <2>3. CASE Votes!Key(judges[i]) = Votes!Key(judges[k]) /\ h = g
    <3>1. /\ Len(attempts) # 0 /\ Latest.request = Asks(k) /\ Latest.version = version
      BY <1>1, <1>4 DEF VoteInv, Requested
    <3>2. Ledgered /\ Votes!Contract(i) # None
      BY <1>5 DEF VoteInv
    <3>3. Grades(i, Votes!parse_grade(judges[k]))
      BY <2>3, <3>1, <3>2, FreshGrades
    <3> QED BY <1>4, <2>3, <3>3
  <2> QED BY <2>1, <2>2, <2>3
<1>7. Collected'
  <2>1. ASSUME NEW i \in DOMAIN panel, panel'[i] # None PROVE Grades(i, panel[i])'
    <3>1. PICK h : h = panel'[i]
      OBVIOUS
    <3>2. Grades(i, h)
      BY <1>6, <2>1, <3>1
    <3> QED BY <1>3, <3>1, <3>2
  <2> QED BY <1>5, <2>1 DEF Collected
<1>8. Requested'
  BY <1>1 DEF Requested
<1> QED BY <1>1, <1>2, <1>3, <1>5, <1>7, <1>8 DEF VoteInv, SameRequest

\* A new launch starts without grades; the rows and the ledger stay.
LEMMA RelaunchStep == ASSUME VoteInv, Votes!Relaunch PROVE VoteInv'
<1>1. /\ UNCHANGED <<cache, attempts>> /\ panel' = [i \in DOMAIN judges' |-> None]
      /\ assessed' = FALSE /\ stage' = "start"
  BY DEF Votes!Relaunch, Votes!Goto
<1>2. Ledgered'
  BY <1>1 DEF VoteInv, Ledgered, Votes!Range
<1>3. Cached'
  BY <1>1 DEF VoteInv, Cached
<1>4. Collected' /\ Requested'
  BY <1>1 DEF Collected, Requested
<1> QED BY <1>1, <1>2, <1>3, <1>4 DEF VoteInv

\* The invariant holds at the first launch.
LEMMA VotingBegins == Votes!Init => VoteInv
<1> SUFFICES ASSUME Votes!Init PROVE VoteInv
  OBVIOUS
<1>1. /\ attempts = <<>> /\ cache = <<>> /\ panel = [i \in DOMAIN judges |-> None]
      /\ assessed = FALSE /\ stage = "start"
  BY DEF Votes!Init
<1>2. Ledgered
  BY <1>1 DEF Ledgered
<1>3. Cached
  BY <1>1 DEF Cached
<1> QED BY <1>1, <1>2, <1>3 DEF VoteInv, Collected, Requested

\* Every step of a panel keeps the invariant.
LEMMA VoteSteps ==
    ASSUME Votes!RequestConstants, VoteInv, [Votes!Next]_Votes!vars PROVE VoteInv'
<1>1. CASE UNCHANGED Votes!vars
  <2>1. SameRequest /\ UNCHANGED <<cache, attempts, panel, assessed, stage>>
    BY <1>1 DEF Votes!vars, SameRequest
  <2>2. Requested'
    <3>1. PICK a, b : a = Asks(Votes!Position) /\ b = Latest
      OBVIOUS
    <3>2. Asks(Votes!Position)' = a /\ Latest' = b
      BY <2>1, <3>1, NothingNew
    <3>3. /\ stage \in {"stream", "interpret", "put"} =>
                /\ Len(attempts) # 0 /\ b.request = a /\ b.version = version
                /\ b.interpretation = IF stage = "put" THEN "Accepted" ELSE None
      BY <3>1 DEF VoteInv, Requested
    <3> QED BY <2>1, <3>2, <3>3 DEF Requested, SameRequest
  <2> QED BY <2>1, <2>2, NothingNew DEF VoteInv
<1>2. CASE Votes!Next
  <2>1. \/ Votes!Assess \/ Votes!Prepare \/ Votes!End \/ Votes!Consensus
        \/ (\E d \in VoteDeltas : Votes!Delta(d))
        \/ (\E error \in {"accounting", "decode", "transport"} : Votes!Break(error))
        \/ Votes!Hit \/ Votes!Dispatch \/ Votes!Interpret \/ Votes!InterpretFails
        \/ Votes!Put \/ Votes!PutFails \/ Votes!Relaunch
    BY <1>2 DEF Votes!Next
  <2> QED BY <2>1, QuietSteps, HitStep, LedgerActions, PutSteps, RelaunchStep
<1> QED BY <1>1, <1>2

\* The inductive invariant of a panel: a cached row and a grade are of the ledger's accepted
\* attempts and of what their keys and positions ask; every action keeps this.
THEOREM VoteInvariance ==
    ASSUME Votes!RequestConstants PROVE Votes!Spec => []VoteInv
<1>1. VoteInv /\ [Votes!Next]_Votes!vars => VoteInv'
  BY VoteSteps
<1> QED BY <1>1, VotingBegins, PTL DEF Votes!Spec

\* What an accepted panel decides on was asked by this panel, of this candidate, once each.
LEMMA VotesAreEarned ==
    ASSUME Votes!RequestConstants, VoteInv
    PROVE  Votes!VotesAreThisPanels /\ Votes!RowsAreAccepted /\ Votes!AssessedIsUsable
<1>1. Votes!RowsAreAccepted
  BY DEF VoteInv, Cached, RowIsOf, Votes!RowsAreAccepted
<1>2. ASSUME stage \in {"decided", "unfit"}
      PROVE  /\ \A i \in DOMAIN panel : Grades(i, panel[i]) /\ Votes!Contract(i) # None
             /\ [i \in DOMAIN panel |-> panel[i].effective_contract]
                  = [i \in DOMAIN judges |-> Votes!Contract(i)]
  <2>1. \A i \in DOMAIN panel : panel[i] # None
    BY <1>2 DEF VoteInv, Votes!Missing
  <2>2. /\ \A i \in DOMAIN panel : Grades(i, panel[i])
        /\ DOMAIN panel = DOMAIN judges /\ Votes!Valid
    BY <1>2, <2>1 DEF VoteInv, Collected
  <2>3. \A i \in DOMAIN panel : panel[i].effective_contract = Votes!Contract(i)
    BY <2>2 DEF Grades
  <2> QED BY <2>2, <2>3 DEF Votes!Valid
<1>3. Votes!VotesAreThisPanels
  <2> SUFFICES ASSUME stage = "decided"
      PROVE /\ \A i \in DOMAIN panel :
                 /\ attempts[panel[i].attempt].request =
                        Votes!build_judge_request(judges[i], prompt)
                 /\ attempts[panel[i].attempt].version = version
            /\ Votes!IsInjective([i \in DOMAIN panel |->
                 [attempts[panel[i].attempt].request EXCEPT
                    !.temperature = Votes!normalize_zero(@)]])
    BY DEF Votes!VotesAreThisPanels
  <2>1. \A i \in DOMAIN panel : /\ attempts[panel[i].attempt].request = Asks(i)
                                /\ attempts[panel[i].attempt].version = version
    BY <1>2 DEF Grades
  <2>2. Votes!validate_unique([i \in DOMAIN judges |-> Votes!Contract(i)])
    BY <1>2 DEF VoteInv, Votes!validate_grade_evidence
  <2>3. DOMAIN panel = DOMAIN judges
    BY DEF VoteInv
  <2>4. ASSUME NEW i \in DOMAIN panel, NEW k \in DOMAIN panel,
               [attempts[panel[i].attempt].request EXCEPT !.temperature = Votes!normalize_zero(@)]
             = [attempts[panel[k].attempt].request EXCEPT !.temperature = Votes!normalize_zero(@)]
        PROVE  i = k
    <3>1. \A n \in DOMAIN panel : Votes!Contract(n).fingerprint =
            <<[Asks(n) EXCEPT !.temperature = Votes!normalize_zero(@)], version>>
      BY <1>2, ContractSays
    <3>2. Votes!Contract(i).fingerprint = Votes!Contract(k).fingerprint
      BY <2>1, <2>4, <3>1
    <3> QED BY <2>2, <2>3, <3>2 DEF Votes!validate_unique, Votes!IsInjective
  <2>5. Votes!IsInjective([i \in DOMAIN panel |->
            [attempts[panel[i].attempt].request EXCEPT !.temperature = Votes!normalize_zero(@)]])
    BY <2>4 DEF Votes!IsInjective
  <2> QED BY <2>1, <2>5 DEF Asks
<1>4. Votes!AssessedIsUsable
  <2> SUFFICES ASSUME stage = "unfit", assessed PROVE FALSE
    BY DEF Votes!AssessedIsUsable
  <2>1. ~ Votes!validate_grade_evidence /\ Votes!validate_judge_panel
    BY DEF VoteInv
  <2>2. \A i \in DOMAIN panel : Votes!matches_grade(panel[i].effective_contract, panel[i])
    BY <1>2 DEF Grades
  <2>3. Votes!validate_unique([i \in DOMAIN panel |-> panel[i].effective_contract])
    BY <1>2, <2>1 DEF Votes!validate_judge_panel
  <2> QED BY <2>1, <2>2, <2>3 DEF Votes!validate_grade_evidence
<1> QED BY <1>1, <1>3, <1>4

------------------------------------------------------------------------------
(* The components in the system that composes them.                        *)

\* A behaviour is about one component, and each of its steps is one of that component.
LEMMA ComponentTurns ==
    MCNext \/ UNCHANGED MCvars =>
        /\ scenario' = scenario
        /\ scenario = "prefer" => [Pairs!Next]_Pairs!vars
        /\ scenario = "grade" => [Graded!Next]_Graded!vars
        /\ scenario = "vote" => [Votes!Next]_Votes!vars
<1>1. ASSUME MCNext PROVE /\ scenario' = scenario
                          /\ scenario = "prefer" => Pairs!Next
                          /\ scenario = "grade" => Graded!Next
                          /\ scenario = "vote" => Votes!Next
  BY <1>1 DEF MCNext, record_step, grade_step, vote_step, evaluate_step, prefer_step, Turn
<1>2. ASSUME UNCHANGED MCvars PROVE /\ UNCHANGED scenario /\ UNCHANGED Pairs!vars
                                   /\ UNCHANGED Graded!vars /\ UNCHANGED Votes!vars
  BY <1>2 DEF MCvars, prefer_vars, Pairs!vars, grade_vars, Graded!vars, vote_vars, Votes!vars
<1> QED BY <1>1, <1>2

\* No pair prefers both ways, none outlives the records it was made of, and what it
\* teaches differs in the answer (preference.rs of the engine and of the format), for any
\* records, bodies, grades and policies.
THEOREM PairsStaySound == MCSpec => []PairsAreSound
<1>1. MCInit => (scenario = "prefer" => Pairs!Init)
  BY DEF MCInit
<1>2. [MCNext]_MCvars => /\ scenario' = scenario
                         /\ scenario = "prefer" => [Pairs!Next]_Pairs!vars
  BY ComponentTurns
<1>3. Pairs!Spec => [](Pairs!NeverBothWays /\ Pairs!PairsAreCurrent /\ Pairs!PairsTeach)
  BY PairsHold, PairsAssumption
<1>4. PairsAreSound <=>
        (scenario = "prefer" =>
            Pairs!NeverBothWays /\ Pairs!PairsAreCurrent /\ Pairs!PairsTeach)
  BY DEF PairsAreSound
<1>5. (scenario = "prefer") /\ scenario' = scenario => (scenario = "prefer")'
  OBVIOUS
<1>6. ~ (scenario = "prefer") /\ scenario' = scenario => ~ (scenario = "prefer")'
  OBVIOUS
<1> QED BY <1>1, <1>2, <1>3, <1>4, <1>5, <1>6, PTL DEF MCSpec, Pairs!Spec

\* A grade rests on what was observed: evidence is exactly what the contract asks for, a
\* failed verifier overrules every judge, a stored grading decides again what it decided, and
\* a panel the preflight accepts can decide; the votes answer what this panel asks of this
\* candidate, once each, and the ledger holds them as accepted.  For any tests, panels, scores
\* and correlations, any requests and answers, and any number of attempts and launches.
THEOREM GradesStayEarned == MCSpec => []GradesAreEarned
<1> DEFINE Graded1 == scenario = "grade" => GradeInv
           Voted == scenario = "vote" => VoteInv
<1>1. MCInit => Graded1 /\ Voted
  BY GradeBegins, VotingBegins DEF MCInit
<1>2. (Graded1 /\ Voted) /\ [MCNext]_MCvars => (Graded1 /\ Voted)'
  <2> SUFFICES ASSUME Graded1, Voted, [MCNext]_MCvars PROVE Graded1' /\ Voted'
    OBVIOUS
  <2>1. /\ scenario' = scenario
        /\ scenario = "grade" => [Graded!Next]_Graded!vars
        /\ scenario = "vote" => [Votes!Next]_Votes!vars
    BY ComponentTurns
  <2>2. scenario = "grade" => GradeInv'
    BY <2>1, GradeSteps, GradesAssumption
  <2>3. scenario = "vote" => VoteInv'
    BY <2>1, VoteSteps, VotesAssumption
  <2> QED BY <2>1, <2>2, <2>3
<1>3. Graded1 /\ Voted => GradesAreEarned
  <2> SUFFICES ASSUME Graded1, Voted PROVE GradesAreEarned
    OBVIOUS
  <2>1. scenario = "grade" =>
          /\ Graded!EvidenceIsExact /\ Graded!VerifierHasTheLastWord
          /\ Graded!ReconcileAgrees /\ Graded!PreflightIsSound
    BY GradeIsEarned, GradesAssumption
  <2>2. scenario = "vote" =>
          Votes!VotesAreThisPanels /\ Votes!RowsAreAccepted /\ Votes!AssessedIsUsable
    BY VotesAreEarned, VotesAssumption
  <2> QED BY <2>1, <2>2 DEF GradesAreEarned
<1> HIDE DEF Graded1, Voted
<1> QED BY <1>1, <1>2, <1>3, PTL DEF MCSpec
==============================================================================

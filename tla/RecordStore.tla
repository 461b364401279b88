---------------------------- MODULE RecordStore ----------------------------
(***************************************************************************)
(* The guarded record commands of gw-storage (record_mutations.rs,         *)
(* record_data.rs and the record half of receipts.rs).                     *)
(*                                                                         *)
(* A record is one row of `records` (its whole envelope), the rows of      *)
(* `lifecycle_history` that mirror the envelope's history, and the rows of *)
(* `record_mutations` that remember which commands committed.  Every       *)
(* command runs in one BEGIN IMMEDIATE transaction, so it is one step      *)
(* here; what is not atomic is a WRITER: it reads a record, computes, sends*)
(* a command built from the snapshot it read, and may never learn that the *)
(* command committed ("a failed acknowledgment does not imply rollback").  *)
(***************************************************************************)
EXTENDS Naturals, Sequences

CONSTANTS RecordIds,     \* record identities
          Writers,       \* concurrent callers of the store
          Bodies,        \* every non-lifecycle field of an envelope
          AdmitBodies,   \* the bodies whose judging verdict is Admit
          Artifacts,     \* identities of published export artifacts
          MaxAttempts,   \* the lifecycle attempt counter's maximum (u32)
          None           \* "no record", "no command", "no answer"

ASSUME ConstantsAssumption ==
    /\ MaxAttempts \in Nat \ {0}
    /\ AdmitBodies \subseteq Bodies
    /\ None \notin Bodies

VARIABLES records,      \* the `records` table: envelope or None
          rows,         \* `lifecycle_history`, per record in ordinal order
          mutations,    \* `record_mutations`, per record in commit order
          writer        \* what each caller holds: snapshot, command, answer

vars == <<records, rows, mutations, writer>>

-----------------------------------------------------------------------------
(* Types                                                                   *)

LifecycleState ==
    {"Seeded", "UserSynthesized", "AssistantGenerated", "Verified", "Judged",
     "Revising", "NeedsReview", "Admitted", "Rejected", "Formatted",
     "Exported", "Error"}

Attempts == 0 .. MaxAttempts

Transition == [state : LifecycleState, attempt : Attempts]

Envelope == [body : Bodies, state : LifecycleState, attempts : Attempts,
             history : Seq(Transition)]

ASSUME NoneAssumption == None \notin Envelope

\* A command is what command_id hashes: the kind, the complete expected
\* envelope, the complete new body, and the target state.  BLAKE3 is taken to
\* be injective, so the command itself stands for its mutation id.
Command == [kind : {"insert", "insert_transition", "transition"},
            expected : Envelope \cup {None}, body : Bodies,
            to : LifecycleState \cup {None}]

Publication == [kind : {"publication"}, artifact : Artifacts]

Mutation == [cmd : Command \cup Publication, start : Nat, count : Nat]

\* A lifecycle_history row; its ordinal is its position.  A row names the
\* mutation that wrote it.
Row == [state : LifecycleState, attempt : Attempts, by : Command \cup Publication]

Status == {"Applied", "AlreadyApplied", "Conflict", "NotFound", "Exhausted"}

-----------------------------------------------------------------------------
(* The pieces a transaction is made of                                     *)

\* The envelopes callers insert: a generated record carries its generation
\* facts at attempt 0; an error stub is parked before anything was generated.
GeneratedEnvelope(body) ==
    [body |-> body, state |-> "AssistantGenerated", attempts |-> 0,
     history |-> << [state |-> "UserSynthesized", attempt |-> 0],
                    [state |-> "AssistantGenerated", attempt |-> 0] >>]

error_stub(body) ==
    [body |-> body, state |-> "Seeded", attempts |-> 0, history |-> <<>>]

\* The moves the engine asks for: the forward rail, and parking whatever is
\* not decided.  (Legality belongs to the engine; Exported is only reached by
\* a publication.)
EngineEdge(from, to) ==
    \/ from = "AssistantGenerated" /\ to = "Verified"
    \/ from = "Verified" /\ to = "Judged"
    \/ from = "Judged" /\ to \in {"Admitted", "Rejected", "NeedsReview", "Revising"}
    \/ from = "Admitted" /\ to = "Formatted"
    \/ from \in {"AssistantGenerated", "Verified", "Judged", "Error"} /\ to = "Error"

\* append: one more attempt, the new state, one more history entry.
append(env, to) ==
    [env EXCEPT !.attempts = env.attempts + 1,
                !.state = to,
                !.history = Append(env.history,
                              [state |-> to, attempt |-> env.attempts + 1])]

\* checked_add: the append fails and the transaction rolls back.
CanAppend(env) == env.attempts < MaxAttempts

\* The history rows a mutation writes: the envelope's entries from `start`.
history(env, start, cmd) ==
    [i \in 1 .. Len(env.history) - start |->
        [state |-> env.history[start + i].state,
         attempt |-> env.history[start + i].attempt, by |-> cmd]]

already_applied(r, cmd) ==
    \E i \in DOMAIN mutations[r] : mutations[r][i].cmd = cmd

\* data::write, remember and data::history: the three writes of a commit.
Store(r, env, start, cmd) ==
    /\ records' = [records EXCEPT ![r] = env]
    /\ mutations' = [mutations EXCEPT ![r] =
            Append(@, [cmd |-> cmd, start |-> start,
                       count |-> Len(env.history) - start])]
    /\ rows' = [rows EXCEPT ![r] = @ \o history(env, start, cmd)]

is_selected_admitted(env) ==
    /\ env.body \in AdmitBodies
    /\ env.state \in {"Admitted", "Formatted", "Exported"}

-----------------------------------------------------------------------------
(* The answers a transaction gives.  Each operator is one early return of   *)
(* insert_command or transition_record, in the order the code tests them.   *)

Idle == [pc |-> "idle", rid |-> None, cmd |-> None, seen |-> None,
         status |-> None]

\* The writer learns the answer, or the acknowledgment is lost.
Answer(w, status, env) ==
    writer' = [writer EXCEPT ![w] = [@ EXCEPT !.pc = "answered",
                                       !.status = status, !.seen = env]]

LoseAnswer(w) == writer' = [writer EXCEPT ![w].pc = "unknown"]

Reply(w, status, env) == Answer(w, status, env) \/ LoseAnswer(w)

RecognizeEarlierCommit(w) ==
    LET r == writer[w].rid IN
    /\ writer[w].pc = "sent"
    /\ already_applied(r, writer[w].cmd)
    /\ Reply(w, "AlreadyApplied", records[r])
    /\ UNCHANGED <<records, rows, mutations>>

InsertConflict(w) ==
    LET r == writer[w].rid  c == writer[w].cmd IN
    /\ writer[w].pc = "sent" /\ c.kind # "transition"
    /\ ~ already_applied(r, c)
    /\ records[r] # None
    /\ Answer(w, "Conflict", None)
    /\ UNCHANGED <<records, rows, mutations>>

\* insert_record and insert_record_and_transition.
InsertApply(w) ==
    LET r == writer[w].rid  c == writer[w].cmd
        env == IF c.to = None THEN GeneratedEnvelope(c.body)
                              ELSE append(error_stub(c.body), c.to)
    IN /\ writer[w].pc = "sent" /\ c.kind # "transition"
       /\ ~ already_applied(r, c)
       /\ records[r] = None
       /\ Store(r, env, 0, c)
       /\ Reply(w, "Applied", env)

TransitionRefused(w) ==
    LET r == writer[w].rid  c == writer[w].cmd IN
    /\ writer[w].pc = "sent" /\ c.kind = "transition"
    /\ ~ already_applied(r, c)
    /\ \/ /\ records[r] = None
          /\ Answer(w, "NotFound", None)
       \/ /\ records[r] # None /\ records[r] # c.expected
          /\ Answer(w, "Conflict", None)
       \/ /\ records[r] = c.expected /\ ~ CanAppend(c.expected)
          /\ Answer(w, "Exhausted", None)
    /\ UNCHANGED <<records, rows, mutations>>

\* Mutated: the stored record is not compared with the expected one.
TransitionBlindly(w) ==
    LET r == writer[w].rid  c == writer[w].cmd
        env == append([c.expected EXCEPT !.body = c.body], c.to)
    IN /\ writer[w].pc = "sent" /\ c.kind = "transition"
       /\ ~ already_applied(r, c)
       /\ records[r] # None /\ CanAppend(c.expected)
       /\ Store(r, env, Len(c.expected.history), c)
       /\ Reply(w, "Applied", env)

\* transition_record and advance_lifecycle: the body is replaced, the
\* lifecycle is the stored one plus exactly one transition.
TransitionApply(w) ==
    LET r == writer[w].rid  c == writer[w].cmd
        env == append([c.expected EXCEPT !.body = c.body], c.to)
    IN /\ writer[w].pc = "sent" /\ c.kind = "transition"
       /\ ~ already_applied(r, c)
       /\ records[r] = c.expected
       /\ CanAppend(c.expected)
       /\ Store(r, env, Len(c.expected.history), c)
       /\ Reply(w, "Applied", env)

-----------------------------------------------------------------------------
(* The callers                                                             *)

\* get, then build a command from the snapshot.  A missing record is inserted
\* as generated or as a parked stub; an existing one is moved along an edge.
Issue(w, r, cmd) ==
    /\ writer[w].pc = "idle"
    /\ writer' = [writer EXCEPT ![w] =
            [pc |-> "sent", rid |-> r, cmd |-> cmd, seen |-> records[r],
             status |-> None]]
    /\ UNCHANGED <<records, rows, mutations>>

SendInsert(w, r) ==
    /\ records[r] = None
    /\ \E body \in Bodies :
          \/ Issue(w, r, [kind |-> "insert", expected |-> None,
                          body |-> body, to |-> None])
          \/ Issue(w, r, [kind |-> "insert_transition", expected |-> None,
                          body |-> body, to |-> "Error"])

SendTransition(w, r) ==
    /\ records[r] # None
    /\ \E body \in Bodies, to \in LifecycleState :
          /\ EngineEdge(records[r].state, to)
          /\ Issue(w, r, [kind |-> "transition", expected |-> records[r],
                          body |-> body, to |-> to])

\* A caller whose acknowledgment was lost sends the same command again.
Retry(w) ==
    /\ writer[w].pc = "unknown"
    /\ writer' = [writer EXCEPT ![w].pc = "sent"]
    /\ UNCHANGED <<records, rows, mutations>>

\* A process dies: whatever it held is gone, the store keeps what committed.
Crash(w) ==
    /\ writer[w].pc # "idle"
    /\ writer' = [writer EXCEPT ![w] = Idle]
    /\ UNCHANGED <<records, rows, mutations>>

\* Mutated: an artifact acknowledged before is acknowledged again.
AcknowledgeAgain(r, a) ==
    LET cmd == [kind |-> "publication", artifact |-> a]
        env == records[r]
    IN /\ env # None /\ is_selected_admitted(env) /\ CanAppend(env)
       /\ Store(r, append(env, "Exported"), Len(env.history), cmd)
       /\ UNCHANGED writer

\* acknowledge_export, for one selected record of an engine publication.  An
\* artifact already acknowledged for the record appends nothing; either way the
\* record ends Exported.
AcknowledgeExport(r, a) ==
    LET cmd == [kind |-> "publication", artifact |-> a]
        env == records[r]
        already == \E i \in DOMAIN rows[r] :
                      rows[r][i].state = "Exported" /\ rows[r][i].by = cmd
    IN /\ env # None
       /\ is_selected_admitted(env)
       /\ \/ /\ ~ already
             /\ CanAppend(env)
             /\ Store(r, append(env, "Exported"), Len(env.history), cmd)
          \/ /\ already
             /\ records' = [records EXCEPT ![r].state = "Exported"]
             /\ UNCHANGED <<rows, mutations>>
       /\ UNCHANGED writer

-----------------------------------------------------------------------------
Init ==
    /\ records = [r \in RecordIds |-> None]
    /\ rows = [r \in RecordIds |-> <<>>]
    /\ mutations = [r \in RecordIds |-> <<>>]
    /\ writer = [w \in Writers |-> Idle]

Transact(w) == \/ RecognizeEarlierCommit(w)
               \/ InsertConflict(w)
               \/ InsertApply(w)
               \/ TransitionRefused(w)
               \/ TransitionApply(w)

Next == \/ \E w \in Writers : \/ Transact(w)
                              \/ Retry(w)
                              \/ Crash(w)
                              \/ \E r \in RecordIds : SendInsert(w, r) \/ SendTransition(w, r)
        \/ \E r \in RecordIds, a \in Artifacts : AcknowledgeExport(r, a)

Spec == Init /\ [][Next]_vars

-----------------------------------------------------------------------------
(* Properties                                                              *)

\* Every table and every writer's local state has its declared shape; no
\* attempt counter passes its maximum.
TypeOK ==
    /\ records \in [RecordIds -> Envelope \cup {None}]
    /\ rows \in [RecordIds -> Seq(Row)]
    /\ mutations \in [RecordIds -> Seq(Mutation)]
    /\ writer \in [Writers ->
            [pc : {"idle", "sent", "unknown", "answered"},
             rid : RecordIds \cup {None}, cmd : Command \cup {None},
             seen : Envelope \cup {None}, status : Status \cup {None}]]

\* The relational history always agrees with the envelope, so check_history
\* (record_data.rs) can never fail on a record only guarded commands touched.
HistoryMirrored ==
    \A r \in RecordIds :
        IF records[r] = None
        THEN rows[r] = <<>> /\ mutations[r] = <<>>
        ELSE /\ Len(rows[r]) = Len(records[r].history)
             /\ \A i \in 1 .. Len(rows[r]) :
                   /\ rows[r][i].state = records[r].history[i].state
                   /\ rows[r][i].attempt = records[r].history[i].attempt

\* The committed commands tile the history: they follow one another without gap
\* or overlap, and each history row was written by exactly the command whose
\* range it lies in.  A command applied twice, or half applied, breaks this.
CommandsTileHistory ==
    \A r \in RecordIds :
        LET m == mutations[r] IN
        /\ m # <<>> => /\ m[1].start = 0
                       /\ m[Len(m)].start + m[Len(m)].count = Len(rows[r])
        /\ \A i \in 1 .. Len(m) :
              /\ m[i].count > 0
              /\ i > 1 => m[i].start = m[i - 1].start + m[i - 1].count
              /\ \A k \in m[i].start + 1 .. m[i].start + m[i].count :
                    k \in 1 .. Len(rows[r]) /\ rows[r][k].by = m[i].cmd

\* No command commits twice, however often its acknowledgment was lost and the
\* command retried, and whatever happened to the record in between.
ExactlyOnce ==
    \A r \in RecordIds : \A i, j \in 1 .. Len(mutations[r]) :
        mutations[r][i].cmd = mutations[r][j].cmd => i = j

\* No lost update: a transition that committed was computed from exactly the
\* record that the commands before it had produced.
NoLostUpdate ==
    \A r \in RecordIds : \A i \in 1 .. Len(mutations[r]) :
        LET m == mutations[r][i] IN
        m.cmd.kind = "transition" =>
            /\ Len(m.cmd.expected.history) = m.start
            /\ \A k \in 1 .. m.start :
                  /\ rows[r][k].state = m.cmd.expected.history[k].state
                  /\ rows[r][k].attempt = m.cmd.expected.history[k].attempt
            /\ \E j \in 1 .. i - 1 :       \* and from the body last written
                  /\ mutations[r][j].cmd.kind # "publication"
                  /\ mutations[r][j].cmd.body = m.cmd.expected.body
                  /\ \A k \in j + 1 .. i - 1 :
                        mutations[r][k].cmd.kind = "publication"

\* Two callers that sent the same command are not both told that they applied
\* it; the engine emits one StateAdvanced event per transition on that answer.
AppliedOnce ==
    \A v, w \in Writers :
        /\ writer[v].pc = "answered" /\ writer[w].pc = "answered"
        /\ writer[v].status = "Applied" /\ writer[w].status = "Applied"
        /\ writer[v].rid = writer[w].rid /\ writer[v].cmd = writer[w].cmd
        => v = w

\* What a caller was told is true and stays true: an acknowledged command is in
\* the ledger and its history is never taken back, and a caller told Conflict
\* or NotFound is one whose command did not, and never will, take effect.
AnswersAreTruthful ==
    /\ AppliedOnce
    /\ \A w \in Writers : writer[w].pc = "answered" =>
        LET r == writer[w].rid  h == writer[w].seen IN
        IF writer[w].status \in {"Applied", "AlreadyApplied"}
        THEN /\ already_applied(r, writer[w].cmd)
             /\ Len(h.history) <= Len(records[r].history)
             /\ SubSeq(records[r].history, 1, Len(h.history)) = h.history
        ELSE ~ already_applied(r, writer[w].cmd)

\* The envelope's state is the one its history ends in, publication
\* acknowledgments included (receipts.rs assigns the state without appending
\* when the artifact was acknowledged before).
StateIsLastTransition ==
    \A r \in RecordIds :
        records[r] # None =>
            records[r].state = records[r].history[Len(records[r].history)].state

\* The three tables agree: whatever retries and races wrote them, they are
\* well-typed and tell the same story of each record.
TablesAgree ==
    TypeOK /\ HistoryMirrored /\ CommandsTileHistory /\ StateIsLastTransition

\* The three tables tell one story of each record, and no command commits twice,
\* however often its acknowledgment was lost and it was retried.
OneStory == TablesAgree /\ ExactlyOnce

\* A transition that committed was computed from the record its predecessors left, and
\* what a caller was told is true and stays true.
NothingIsLost == NoLostUpdate /\ AnswersAreTruthful
=============================================================================

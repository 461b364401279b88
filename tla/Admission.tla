----------------------------- MODULE Admission -----------------------------
(***************************************************************************)
(* Physical-request admission of one run: gw-storage/src/admission.rs,     *)
(* attempts.rs and accounting.rs (the durable ledger) under                *)
(* gw-engine/src/admission.rs (StoreObserver, one per launch) and          *)
(* ActiveAttempt of gw-providers/src/observation.rs.                       *)
(*                                                                         *)
(* Every ledger operation is one BEGIN IMMEDIATE transaction.  A launch is *)
(* a coordinator process: its callers share an async gate around their own *)
(* transactions, a set of attempts they own in memory, and a cancellation  *)
(* token.  Coordinators share nothing but the ledger, and any of them may  *)
(* die, leaving attempts that nobody will ever settle.                     *)
(***************************************************************************)
EXTENDS Naturals, Sequences, FiniteSets, SequencesExt

CONSTANTS Coordinators,  \* launches of the run
          Callers,       \* concurrent callers inside one launch
          Limits,        \* limits of the finite_usd policies, in cost units
          Costs,         \* costs a provider reports
          MaxEpoch,      \* the largest policy epoch (u64)
          MaxAttempts,   \* bound: attempts of the run
          ObservationOnly,
          None

ASSUME AdmissionAssumption ==
    /\ Limits \subseteq Nat /\ Costs \subseteq Nat
    /\ MaxEpoch \in Nat \ {0} /\ MaxAttempts \in Nat
    /\ ObservationOnly \notin Nat
    /\ None \notin Nat /\ None # ObservationOnly /\ None \notin Callers

Policy == Limits \cup {ObservationOnly}

VARIABLES exists,     \* the run has a row in `runs`
          policy,     \* run_accounting.policy_json: the effective PolicyState
          complete,   \* run_accounting.history_complete
          launch,     \* model_launches: the coverage of each launch
          attempts,   \* model_attempts: receipts in creation order
          up,         \* the coordinators whose process is alive
          cancelled,  \* the coordinators whose token is cancelled
          sealed,     \* history: coordinators that saw an accounting failure
          live,       \* StoreObserver.live: attempts owned in memory
          gate,       \* StoreObserver.begin_gate: its holder or None
          caller      \* where each caller is, its attempt, its live snapshot

ledger == <<exists, policy, complete, launch, attempts>>
memory == <<up, cancelled, sealed, live, gate, caller>>
vars == <<ledger, memory>>

PolicyState == [epoch : 1 .. MaxEpoch, policy : Policy]

\* Whether any of the three injected clients has unknown coverage.
Coverage == [policy : PolicyState, unknown : BOOLEAN]

\* `cost` is None while none was reported.  `flawed`: the cost is invalid or
\* some cumulative value contradicted an earlier one; both are sticky.
Receipt == [by : Coordinators, epoch : 1 .. MaxEpoch,
            cost : Costs \cup {None}, flawed : BOOLEAN, settled : BOOLEAN]

ASSUME NoneAssumption == None \notin Coverage \cup PolicyState

Finite(p) == p # ObservationOnly

-----------------------------------------------------------------------------
(* The ledger's summary (accounting::snapshot) and the decisions on it     *)

Unresolved == {i \in DOMAIN attempts : ~ attempts[i].settled}

UnknownLanes == \E c \in Coordinators : launch[c] # None /\ launch[c].unknown

\* known_usd: the sum of the known costs.
KnownUsd(as) == FoldLeft(LAMBDA total, a : IF a.cost = None \/ a.flawed THEN total
                                           ELSE total + a.cost, 0, as)

evidence_denial ==
    \/ Unresolved # {}
    \/ \E i \in DOMAIN attempts : attempts[i].flawed \/ attempts[i].cost = None

\* Mutated: spending the limit exactly does not exhaust it.
AdmissionPastLimit(c, owned) ==
    IF policy # launch[c].policy THEN "Denied"
    ELSE IF ~ Finite(policy.policy) THEN "Admitted"
    ELSE IF ~ complete \/ UnknownLanes THEN "Denied"
    ELSE IF Unresolved # {}
         THEN IF Unresolved \subseteq owned THEN "Wait" ELSE "Denied"
    ELSE IF evidence_denial \/ KnownUsd(attempts) > policy.policy THEN "Denied"
    ELSE "Admitted"

\* What admit_model_attempt answers coordinator c, whose caller sampled `owned`
\* from its in-memory set before the transaction began.
Admission(c, owned) ==
    IF policy # launch[c].policy THEN "Denied"
    ELSE IF ~ Finite(policy.policy) THEN "Admitted"
    ELSE IF ~ complete \/ UnknownLanes THEN "Denied"
    ELSE IF Unresolved # {}
         THEN IF Unresolved \subseteq owned THEN "Wait" ELSE "Denied"
    ELSE IF evidence_denial \/ KnownUsd(attempts) >= policy.policy THEN "Denied"
    ELSE "Admitted"

-----------------------------------------------------------------------------
(* Launches                                                                *)

Outside == [pc |-> "outside", id |-> None, owned |-> {}]

\* register_accounting_launch: refused without a trace, or committed with the
\* epoch the policy change calls for.
MayRegister(p, unknown, whole) ==
    Finite(p) => /\ ~ unknown /\ whole /\ ~ UnknownLanes
                 /\ (policy = None \/ policy.policy # p) => ~ evidence_denial

NextEpoch(p) == IF policy = None THEN 1
                ELSE IF policy.policy = p THEN policy.epoch
                ELSE policy.epoch + 1

Register(c, p, unknown) ==
    LET whole == ~ exists \/ (policy # None /\ complete)
        state == [epoch |-> NextEpoch(p), policy |-> p]
    IN /\ launch[c] = None
       /\ MayRegister(p, unknown, whole)
       /\ NextEpoch(p) <= MaxEpoch
       /\ exists' = TRUE /\ policy' = state /\ complete' = whole
       /\ launch' = [launch EXCEPT ![c] = [policy |-> state, unknown |-> unknown]]
       /\ up' = up \cup {c}
       /\ UNCHANGED <<attempts, cancelled, sealed, live, gate, caller>>

\* begin_model_launch, the interface without a policy: whatever it goes on to
\* send is not in the ledger, so the run's history stops being complete.
BeginModelLaunch ==
    /\ exists /\ complete
    /\ complete' = FALSE
    /\ UNCHANGED <<exists, policy, launch, attempts, memory>>

\* The process dies; receipts it did not settle are orphans.
Crash(c) ==
    /\ c \in up
    /\ up' = up \ {c}
    /\ live' = [live EXCEPT ![c] = {}]
    /\ gate' = [gate EXCEPT ![c] = None]
    /\ caller' = [caller EXCEPT ![c] = [t \in Callers |-> Outside]]
    /\ cancelled' = cancelled \ {c} /\ sealed' = sealed \ {c}
    /\ UNCHANGED ledger

Cancel(c) ==
    /\ c \in up /\ c \notin cancelled
    /\ cancelled' = cancelled \cup {c}
    /\ UNCHANGED <<ledger, up, sealed, live, gate, caller>>

-----------------------------------------------------------------------------
(* StoreObserver::begin                                                    *)

Beginning == {"queued", "checking", "admitted", "waiting"}

At(c, t, label) == c \in up /\ caller[c][t].pc = label

Goto(c, t, label) == caller' = [caller EXCEPT ![c][t].pc = label]

Leave(c, t) == caller' = [caller EXCEPT ![c][t] = Outside]

Unlock(c) == gate' = [gate EXCEPT ![c] = None]

\* persist: an accounting failure cancels the launch before the gate opens.
Seal(c) == cancelled' = cancelled \cup {c} /\ sealed' = sealed \cup {c}

InBegin == {ct \in Coordinators \X Callers : caller[ct[1]][ct[2]].pc \in Beginning}

Begin(c, t) ==
    /\ At(c, t, "outside")
    /\ Len(attempts) + Cardinality(InBegin) < MaxAttempts
    /\ Goto(c, t, "queued")
    /\ UNCHANGED <<ledger, up, cancelled, sealed, live, gate>>

\* Mutated: the token is not read again under the gate.
LockGateUnchecked(c, t) ==
    /\ At(c, t, "queued") /\ gate[c] = None
    /\ gate' = [gate EXCEPT ![c] = t]
    /\ caller' = [caller EXCEPT ![c][t] =
                     [pc |-> "checking", id |-> None, owned |-> live[c]]]
    /\ UNCHANGED <<ledger, up, cancelled, sealed, live>>

\* Take the gate, look at the token, sample the live set.
LockGate(c, t) ==
    /\ At(c, t, "queued") /\ gate[c] = None
    /\ \/ c \in cancelled /\ Leave(c, t) /\ UNCHANGED gate
       \/ /\ c \notin cancelled
          /\ gate' = [gate EXCEPT ![c] = t]
          /\ caller' = [caller EXCEPT ![c][t] =
                           [pc |-> "checking", id |-> None, owned |-> live[c]]]
    /\ UNCHANGED <<ledger, up, cancelled, sealed, live>>

Intent(c) == [by |-> c, epoch |-> launch[c].policy.epoch, cost |-> None,
              flawed |-> FALSE, settled |-> FALSE]

Insert(c) == /\ attempts' = Append(attempts, Intent(c))
             /\ UNCHANGED <<exists, policy, complete, launch>>

AdmitModelAttempt(c, t) ==
    /\ At(c, t, "checking")
    /\ Admission(c, caller[c][t].owned) = "Admitted"
    /\ Insert(c)
    /\ caller' = [caller EXCEPT ![c][t] = [pc |-> "admitted", owned |-> {},
                                           id |-> Len(attempts) + 1]]
    /\ UNCHANGED <<up, cancelled, sealed, live, gate>>

\* Mutated: a waiting caller keeps the gate.
AdmitWaitLocked(c, t) ==
    /\ At(c, t, "checking")
    /\ Admission(c, caller[c][t].owned) = "Wait"
    /\ Goto(c, t, "waiting")
    /\ UNCHANGED <<ledger, up, cancelled, sealed, live, gate>>

AdmitWait(c, t) ==
    /\ At(c, t, "checking")
    /\ Admission(c, caller[c][t].owned) = "Wait"
    /\ Goto(c, t, "waiting") /\ Unlock(c)
    /\ UNCHANGED <<ledger, up, cancelled, sealed, live>>

AdmitDenied(c, t) ==
    /\ At(c, t, "checking")
    /\ Admission(c, caller[c][t].owned) = "Denied"
    /\ cancelled' = cancelled \cup {c}
    /\ Leave(c, t) /\ Unlock(c)
    /\ UNCHANGED <<ledger, up, sealed, live>>

\* The transaction fails, or commits and its acknowledgment is lost.
AdmitFails(c, t) ==
    /\ At(c, t, "checking")
    /\ \/ UNCHANGED ledger
       \/ Admission(c, caller[c][t].owned) = "Admitted" /\ Insert(c)
    /\ Seal(c) /\ Leave(c, t) /\ Unlock(c)
    /\ UNCHANGED <<up, live>>

\* The caller owns the attempt before the next one can look.
TakeOwnership(c, t) ==
    /\ At(c, t, "admitted")
    /\ live' = [live EXCEPT ![c] = @ \cup {caller[c][t].id}]
    /\ Goto(c, t, "publishing") /\ Unlock(c)
    /\ UNCHANGED <<ledger, up, cancelled, sealed>>

\* The advisory snapshot went out; ownership passes to the ActiveAttempt.
Published(c, t) ==
    /\ At(c, t, "publishing")
    /\ Goto(c, t, "active")
    /\ UNCHANGED <<ledger, up, cancelled, sealed, live, gate>>

\* The select: cancelled, or notified / 100 ms passed.
Wake(c, t) ==
    /\ At(c, t, "waiting")
    /\ IF c \in cancelled THEN Leave(c, t) ELSE Goto(c, t, "queued")
    /\ UNCHANGED <<ledger, up, cancelled, sealed, live, gate>>

-----------------------------------------------------------------------------
(* The request itself: metadata, settlement, release                       *)

\* merge_metadata for one patch; None stands for an invalid cost.  A smaller
\* cumulative cost conflicts and an invalid one stays invalid; both are stored.
merge_metadata(a, cost) ==
    IF cost = None THEN [a EXCEPT !.cost = None, !.flawed = TRUE]
    ELSE [a EXCEPT !.cost = cost,
                   !.flawed = @ \/ (a.cost # None /\ cost < a.cost)]

Conflicting(a, cost) == cost # None /\ a.cost # None /\ cost < a.cost

Write(id, receipt) ==
    /\ attempts' = [attempts EXCEPT ![id] = receipt]
    /\ UNCHANGED <<exists, policy, complete, launch>>

\* observe_model_attempt.  The acknowledgment is known before the gate opens; it
\* fails when the cost or another reported field (`other`) contradicts an
\* earlier one, and may fail for any other reason.
Metadata(c, t) ==
    LET id == caller[c][t].id IN
    /\ At(c, t, "active") /\ gate[c] = None
    /\ \E cost \in Costs \cup {None}, other \in BOOLEAN :
          LET merged == [merge_metadata(attempts[id], cost) EXCEPT !.flawed = @ \/ other]
          IN \/ /\ ~ other /\ ~ Conflicting(attempts[id], cost)
                /\ Write(id, merged)
                /\ UNCHANGED <<cancelled, sealed, caller>>
             \/ /\ Write(id, merged) \/ UNCHANGED ledger
                /\ Seal(c) /\ Goto(c, t, "dropping")
    /\ UNCHANGED <<up, live, gate>>

\* The endpoint has answered in full or the connection has failed.  Nothing makes
\* it: the HTTP client is built without a timeout.
Ends(c, t) ==
    /\ At(c, t, "active")
    /\ Goto(c, t, "ending")
    /\ UNCHANGED <<ledger, up, cancelled, sealed, live, gate>>

\* settle_model_attempt commits while the gate is held.
Settle(c, t) ==
    /\ At(c, t, "ending") /\ gate[c] = None
    /\ \/ Write(caller[c][t].id, [attempts[caller[c][t].id] EXCEPT !.settled = TRUE])
       \/ UNCHANGED ledger     \* it will be reported as a failure
    /\ gate' = [gate EXCEPT ![c] = t]
    /\ Goto(c, t, "settling")
    /\ UNCHANGED <<up, cancelled, sealed, live>>

\* A lost acknowledgment of a committed settlement is a failure too.
SettleReturns(c, t) ==
    /\ At(c, t, "settling")
    /\ \/ attempts[caller[c][t].id].settled /\ UNCHANGED <<cancelled, sealed>>
       \/ Seal(c)
    /\ Goto(c, t, "dropping") /\ Unlock(c)
    /\ UNCHANGED <<ledger, up, live>>

\* The gate a dropped future held opens.
Drop(c, t) == /\ gate' = [gate EXCEPT ![c] = IF @ = t THEN None ELSE @]
              /\ Leave(c, t)
              /\ UNCHANGED <<ledger, up, cancelled, sealed>>

Owning == {"publishing", "active", "ending", "settling", "dropping"}

\* Drop of ActiveAttempt, or of PendingOwnership, or of the whole call: memory
\* ownership ends, nothing is persisted.
Released(c, t) ==
    /\ c \in up /\ caller[c][t].pc \in Owning
    /\ live' = [live EXCEPT ![c] = @ \ {caller[c][t].id}]
    /\ Drop(c, t)

\* A caller dropped inside begin: queued, in its transaction (which rolls back),
\* with its intent committed and not yet owned, or waiting.
DropBegin(c, t) ==
    /\ c \in up /\ caller[c][t].pc \in Beginning
    /\ Drop(c, t) /\ UNCHANGED live

-----------------------------------------------------------------------------
Init ==
    /\ exists \in BOOLEAN
    /\ policy = None /\ complete = FALSE
    /\ launch = [c \in Coordinators |-> None]
    /\ attempts = <<>>
    /\ up = {} /\ cancelled = {} /\ sealed = {}
    /\ live = [c \in Coordinators |-> {}]
    /\ gate = [c \in Coordinators |-> None]
    /\ caller = [c \in Coordinators |-> [t \in Callers |-> Outside]]

Admit(c, t) == \/ LockGate(c, t) \/ AdmitModelAttempt(c, t) \/ AdmitWait(c, t)
               \/ AdmitDenied(c, t) \/ AdmitFails(c, t) \/ TakeOwnership(c, t)
               \/ Published(c, t) \/ Wake(c, t)

Request(c, t) == Ends(c, t) \/ Settle(c, t) \/ SettleReturns(c, t)

Next == \/ \E c \in Coordinators :
              \/ \E p \in Policy, unknown \in BOOLEAN : Register(c, p, unknown)
              \/ Crash(c) \/ Cancel(c)
              \/ \E t \in Callers : \/ Begin(c, t) \/ Admit(c, t)
                                    \/ Metadata(c, t) \/ Request(c, t)
                                    \/ Released(c, t) \/ DropBegin(c, t)
        \/ BeginModelLaunch

Spec == Init /\ [][Next]_vars

\* The runtime polls every caller that can go on, and tokio's mutex is FIFO.  The
\* endpoint owes nothing: a request in flight may never end, and nobody need drop it.
FairSpec ==
    /\ Spec
    /\ \A c \in Coordinators, t \in Callers :
          /\ SF_vars(LockGate(c, t)) /\ SF_vars(Settle(c, t))
          /\ WF_vars(Admit(c, t)) /\ WF_vars(SettleReturns(c, t))
          /\ WF_vars(At(c, t, "dropping") /\ Released(c, t))

-----------------------------------------------------------------------------
(* Properties                                                              *)

CallerState == {"outside"} \cup Owning \cup Beginning

\* Every variable has its declared shape.
TypeOK ==
    /\ exists \in BOOLEAN /\ complete \in BOOLEAN
    /\ policy \in PolicyState \cup {None}
    /\ launch \in [Coordinators -> Coverage \cup {None}]
    /\ attempts \in Seq(Receipt)
    /\ up \subseteq Coordinators /\ cancelled \subseteq Coordinators
    /\ sealed \subseteq Coordinators
    /\ live \in [Coordinators -> SUBSET DOMAIN attempts]
    /\ gate \in [Coordinators -> Callers \cup {None}]
    /\ caller \in [Coordinators -> [Callers ->
            [pc : CallerState, id : DOMAIN attempts \cup {None},
             owned : SUBSET DOMAIN attempts]]]

\* README: under finite_usd "at most one request is unresolved per run", across
\* every coordinator, every orphan and every change of policy before it.
OneUnresolved ==
    policy # None /\ Finite(policy.policy) =>
        \A i, j \in Unresolved : i = j

\* The limit is a dispatch threshold: whatever costs were reported since, each
\* attempt admitted under a finite policy was sent with the settled spend of all
\* earlier attempts below that policy's limit, so at most one response crosses it.
DispatchThreshold ==
    \A i \in DOMAIN attempts :
        LET p == launch[attempts[i].by].policy.policy IN
        Finite(p) => /\ \A j \in 1 .. i - 1 : attempts[j].settled /\ attempts[j].cost # None
                     /\ ~ (KnownUsd(SubSeq(attempts, 1, i - 1)) >= p)

\* A superseded coordinator never sends again: receipts are in epoch order, and
\* one epoch is one policy.
EpochOrder ==
    /\ \A i, j \in DOMAIN attempts : i < j => attempts[i].epoch <= attempts[j].epoch
    /\ \A c, d \in Coordinators :
          launch[c] # None /\ launch[d] # None
             /\ launch[c].policy.epoch = launch[d].policy.epoch
          => launch[c].policy = launch[d].policy

\* Callers hold disjoint attempts, all of them in the live set of their own
\* coordinator, so Wait is only ever answered on behalf of a request in flight.
LiveIsOwned == TypeOK /\
    \A c \in Coordinators :
        /\ live[c] = {caller[c][t].id : t \in {u \in Callers :
                         caller[c][u].pc \in Owning}}
        /\ \A i \in live[c] : attempts[i].by = c
        /\ \A s, t \in Callers : caller[c][s].id # None
              /\ caller[c][s].id = caller[c][t].id => s = t

\* All of it at once: under a finite policy one request at most is unresolved and each
\* was sent with the settled spend below the limit; receipts are in epoch order; and
\* callers hold disjoint attempts, all of them live in their own launch.
RequestsAreAdmitted == OneUnresolved /\ DispatchThreshold /\ EpochOrder /\ LiveIsOwned

\* A coordinator whose accounting failed admits nothing more, not even through
\* a caller that was already queued on the gate when the failure happened.
SealedStep == Len(attempts') > Len(attempts) =>
                  attempts'[Len(attempts')].by \notin sealed
SealedNeverAdmits == [][SealedStep]_vars

\* Every caller of begin gets an answer, unless the endpoint never answers a request
\* of its own launch (no timeout bounds one); and once the launch is cancelled it gets
\* one even then: no wait outlives the attempts waited for, nor the launch.
BeginReturns ==
    \A c \in Coordinators, t \in Callers :
        /\ \/ caller[c][t].pc = "queued" ~> caller[c][t].pc \notin Beginning
           \/ <>[](\E u \in Callers : At(c, u, "active"))
        /\ caller[c][t].pc \in Beginning /\ c \in cancelled
              ~> caller[c][t].pc \notin Beginning
=============================================================================

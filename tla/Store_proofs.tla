---------------------------- MODULE Store_proofs -----------------------------
(***************************************************************************)
(* Proofs about the ledgers that change under those who rely on them:      *)
(* Admission, for any number of launches and callers, any limits and       *)
(* costs, and any number of attempts and policies, and Screening, for any  *)
(* records, prompts and relations and any number of edits, in the system   *)
(* that composes them (MCStore).                                           *)
(*                                                                         *)
(* That one request at most is unresolved rests on the transaction alone;  *)
(* the threshold also needs that a settled attempt is never written again, *)
(* that is, that a caller's attempt is its own and unsettled while it may  *)
(* write; and a failed launch admits nothing because the gate keeps the    *)
(* failure and the admission apart.  IInv says who holds what.             *)
(*                                                                         *)
(* ReleaseInv says that the groups of a plan are the components of some    *)
(* records as they once were, whatever plans it extends.                   *)
(***************************************************************************)
EXTENDS MCStore, SequenceTheorems, FiniteSetTheorems, WellFoundedInduction, TLAPS

\* Who holds what.  A caller has an attempt from its admission until it is released,
\* one of its own launch that no other caller has; it is unsettled while the request
\* is out.  The gate is held exactly in the stretches of code that hold it; a caller
\* decides on an admission only while its launch has seen no accounting failure, for
\* whoever seals a launch holds the gate or finds it open.
HoldsAttempt == Owning \cup {"admitted"}
HoldsGate == {"checking", "admitted", "settling"}
Out == {"admitted", "publishing", "active", "ending"}

Held(c, t) ==
    LET x == caller[c][t] IN
    /\ x.id # None <=> x.pc \in HoldsAttempt
    /\ x.id # None => attempts[x.id].by = c
    /\ x.pc \in Out => ~ attempts[x.id].settled
    /\ gate[c] = t <=> x.pc \in HoldsGate
    /\ x.pc = "checking" => c \notin sealed
    /\ \A u \in Callers : x.id # None /\ caller[c][u].id = x.id => u = t

Custody == \A c \in Coordinators, t \in Callers : Held(c, t)

\* What a launch registered is the effective policy or an older one, and what it sent
\* it sent in its epoch.
Registered ==
    /\ \A c \in Coordinators : launch[c] # None =>
          /\ policy # None
          /\ launch[c].policy.epoch <= policy.epoch
          /\ launch[c].policy.epoch = policy.epoch => launch[c].policy = policy
    /\ \A i \in DOMAIN attempts :
          /\ launch[attempts[i].by] # None
          /\ attempts[i].epoch = launch[attempts[i].by].policy.epoch
    /\ \A c \in up : launch[c] # None

IInv == /\ TypeOK /\ Custody /\ Registered /\ sealed \subseteq cancelled
        /\ RequestsAreAdmitted

------------------------------------------------------------------------------
(* What a step does to the ledger                                          *)

\* The four ways a step can leave the ledger: as far as attempts and policies go
\* untouched, with a launch registered, with an intent appended after an admission,
\* or with an unsettled receipt rewritten by the caller that holds it.
Untouched == UNCHANGED <<policy, launch, attempts>>

Registers(c) ==
    /\ \E p \in Policy, unknown \in BOOLEAN :
          /\ launch[c] = None
          /\ MayRegister(p, unknown, ~ exists \/ (policy # None /\ complete))
          /\ NextEpoch(p) <= MaxEpoch
          /\ policy' = [epoch |-> NextEpoch(p), policy |-> p]
          /\ launch' = [launch EXCEPT ![c] = [policy |-> policy', unknown |-> unknown]]
    /\ UNCHANGED attempts

Admits(c) ==
    /\ c \in up /\ c \notin sealed
    /\ \E owned : Admission(c, owned) = "Admitted"
    /\ attempts' = Append(attempts, Intent(c))
    /\ UNCHANGED <<policy, launch>>

Rewrites(n) ==
    /\ n \in DOMAIN attempts /\ ~ attempts[n].settled
    /\ \E r \in Receipt : /\ r.by = attempts[n].by /\ r.epoch = attempts[n].epoch
                          /\ attempts' = [attempts EXCEPT ![n] = r]
    /\ UNCHANGED <<policy, launch>>

LEMMA LedgerStep ==
    ASSUME IInv, [Next]_vars
    PROVE  \/ Untouched
           \/ \E c \in Coordinators : Registers(c) \/ Admits(c)
           \/ \E n \in DOMAIN attempts : Rewrites(n)
<1> USE AdmissionAssumption
<1>1. ASSUME NEW c \in Coordinators, NEW p \in Policy, NEW unknown \in BOOLEAN,
             Register(c, p, unknown)
      PROVE  Registers(c)
  BY <1>1 DEF Register, Registers
<1>2. ASSUME NEW c \in Coordinators, NEW t \in Callers, Insert(c),
             c \in up, caller[c][t].pc = "checking",
             Admission(c, caller[c][t].owned) = "Admitted"
      PROVE  Admits(c)
  BY <1>2 DEF IInv, Custody, Held, Insert, Admits
<1>3. ASSUME NEW c \in Coordinators, NEW t \in Callers,
             caller[c][t].pc \in {"active", "ending"}
      PROVE  /\ caller[c][t].id \in DOMAIN attempts
             /\ ~ attempts[caller[c][t].id].settled
  BY <1>3 DEF IInv, Custody, Held, Out, HoldsAttempt, Owning, TypeOK
<1>4. ASSUME NEW c \in Coordinators, NEW t \in Callers,
             caller[c][t].pc \in {"active", "ending"}, NEW r \in Receipt, r.by = attempts[caller[c][t].id].by,
             r.epoch = attempts[caller[c][t].id].epoch, Write(caller[c][t].id, r)
      PROVE  \E n \in DOMAIN attempts : Rewrites(n)
  BY <1>3, <1>4 DEF Rewrites, Write
<1>5. ASSUME NEW c \in Coordinators, NEW t \in Callers, Metadata(c, t)
      PROVE  Untouched \/ \E n \in DOMAIN attempts : Rewrites(n)
  <2> DEFINE id == caller[c][t].id
  <2>1. PICK cost \in Costs \cup {None}, other \in BOOLEAN :
          LET merged == [merge_metadata(attempts[id], cost) EXCEPT !.flawed = @ \/ other]
          IN Write(id, merged) \/ UNCHANGED ledger
    BY <1>5 DEF Metadata
  <2> DEFINE merged == [merge_metadata(attempts[id], cost) EXCEPT !.flawed = @ \/ other]
  <2>2. caller[c][t].pc = "active"
    BY <1>5 DEF Metadata, At
  <2>3. attempts[id] \in Receipt
    BY <1>3, <2>2, ElementOfSeq DEF IInv, TypeOK
  <2>4. /\ merged \in Receipt
        /\ merged.by = attempts[id].by /\ merged.epoch = attempts[id].epoch
    BY <2>3 DEF merge_metadata, Receipt
  <2>5. CASE Write(id, merged)
    BY <1>4, <2>2, <2>4, <2>5
  <2>6. CASE UNCHANGED ledger
    BY <2>6 DEF ledger, Untouched
  <2> QED BY <2>1, <2>5, <2>6
<1>6. ASSUME NEW c \in Coordinators, NEW t \in Callers, Settle(c, t)
      PROVE  Untouched \/ \E n \in DOMAIN attempts : Rewrites(n)
  <2> DEFINE id == caller[c][t].id
             settled == [attempts[id] EXCEPT !.settled = TRUE]
  <2>1. caller[c][t].pc = "ending" /\ (Write(id, settled) \/ UNCHANGED ledger)
    BY <1>6 DEF Settle, At
  <2>2. attempts[id] \in Receipt
    BY <1>3, <2>1, ElementOfSeq DEF IInv, TypeOK
  <2>3. /\ settled \in Receipt
        /\ settled.by = attempts[id].by /\ settled.epoch = attempts[id].epoch
    BY <2>2 DEF Receipt
  <2>4. CASE Write(id, settled)
    BY <1>4, <2>1, <2>3, <2>4
  <2>5. CASE UNCHANGED ledger
    BY <2>5 DEF ledger, Untouched
  <2> QED BY <2>1, <2>4, <2>5
<1>7. ASSUME NEW c \in Coordinators, NEW t \in Callers,
             AdmitModelAttempt(c, t) \/ AdmitFails(c, t)
      PROVE  Untouched \/ Admits(c)
  BY <1>2, <1>7 DEF AdmitModelAttempt, AdmitFails, At, Untouched, ledger
<1>8. ASSUME NEW c \in Coordinators, NEW t \in Callers,
             \/ Begin(c, t) \/ LockGate(c, t) \/ AdmitWait(c, t) \/ AdmitDenied(c, t)
             \/ TakeOwnership(c, t) \/ Published(c, t) \/ Wake(c, t)
             \/ Ends(c, t) \/ SettleReturns(c, t) \/ Released(c, t) \/ DropBegin(c, t)
      PROVE  Untouched
  BY <1>8 DEF Begin, LockGate, AdmitWait, AdmitDenied, TakeOwnership, Published, Wake,
              Ends, SettleReturns, Released, DropBegin, Drop, Untouched, ledger
<1>9. ASSUME NEW c \in Coordinators, Crash(c) \/ Cancel(c)
      PROVE  Untouched
  BY <1>9 DEF Crash, Cancel, Untouched, ledger
<1>10. BeginModelLaunch \/ UNCHANGED vars => Untouched
  BY DEF BeginModelLaunch, Untouched, vars, ledger
<1> QED BY <1>1, <1>5, <1>6, <1>7, <1>8, <1>9, <1>10 DEF Next, Admit, Request

------------------------------------------------------------------------------
(* Types                                                                   *)

\* What a well-typed policy and launch are worth.
LEMMA PolicyFacts ==
    ASSUME TypeOK
    PROVE  /\ policy # None => policy.epoch \in 1 .. MaxEpoch /\ policy.policy \in Policy
           /\ \A c \in Coordinators : launch[c] # None =>
                 /\ launch[c] \in Coverage
                 /\ launch[c].policy.epoch \in 1 .. MaxEpoch
                 /\ launch[c].policy.policy \in Policy
BY DEF TypeOK, Coverage, PolicyState

LEMMA RegisteredPolicy ==
    ASSUME TypeOK, NEW p \in Policy, NextEpoch(p) <= MaxEpoch
    PROVE  /\ NextEpoch(p) \in 1 .. MaxEpoch
           /\ [epoch |-> NextEpoch(p), policy |-> p] \in PolicyState
<1>1. NextEpoch(p) \in Nat \ {0}
  BY AdmissionAssumption, PolicyFacts DEF NextEpoch
<1> QED BY <1>1, AdmissionAssumption DEF PolicyState

LEMMA IntentType ==
    ASSUME TypeOK, NEW c \in Coordinators, launch[c] # None
    PROVE  Intent(c) \in Receipt
BY PolicyFacts DEF Intent, Receipt

\* The ledger's part of the type.
LedgerTypeOK ==
    /\ policy \in PolicyState \cup {None}
    /\ launch \in [Coordinators -> Coverage \cup {None}]
    /\ attempts \in Seq(Receipt)

LEMMA LedgerTypeStep ==
    ASSUME IInv, [Next]_vars
    PROVE  LedgerTypeOK' /\ DOMAIN attempts \subseteq DOMAIN attempts'
<1> USE DEF LedgerTypeOK
<1>0. LedgerTypeOK
  BY DEF IInv, TypeOK
<1>1. CASE Untouched
  BY <1>0, <1>1 DEF Untouched
<1>2. ASSUME NEW c \in Coordinators, Registers(c)
      PROVE  LedgerTypeOK' /\ attempts' = attempts
  <2>1. PICK p \in Policy, unknown \in BOOLEAN :
          /\ NextEpoch(p) <= MaxEpoch
          /\ policy' = [epoch |-> NextEpoch(p), policy |-> p]
          /\ launch' = [launch EXCEPT ![c] = [policy |-> policy', unknown |-> unknown]]
    BY <1>2 DEF Registers
  <2>2. policy' \in PolicyState
    BY <2>1, RegisteredPolicy DEF IInv
  <2>3. [policy |-> policy', unknown |-> unknown] \in Coverage
    BY <2>2 DEF Coverage
  <2> QED BY <1>0, <1>2, <2>1, <2>2, <2>3 DEF Registers
<1>3. ASSUME NEW c \in Coordinators, Admits(c)
      PROVE  LedgerTypeOK' /\ DOMAIN attempts \subseteq DOMAIN attempts'
  <2>1. Intent(c) \in Receipt
    BY <1>3, IntentType DEF Admits, IInv, Registered
  <2> QED BY <1>0, <1>3, <2>1 DEF Admits
<1>4. ASSUME NEW n \in DOMAIN attempts, Rewrites(n)
      PROVE  LedgerTypeOK' /\ DOMAIN attempts \subseteq DOMAIN attempts'
  BY <1>0, <1>4 DEF Rewrites
<1> QED BY <1>1, <1>2, <1>3, <1>4, LedgerStep

\* The part that says who is alive and what failed.
LEMMA ProcessTypeStep ==
    ASSUME TypeOK, [Next]_vars
    PROVE  /\ exists' \in BOOLEAN /\ complete' \in BOOLEAN
           /\ up' \subseteq Coordinators /\ cancelled' \subseteq Coordinators
           /\ sealed' \subseteq Coordinators
<1> USE DEF TypeOK, ledger, vars, memory
<1>1. ASSUME NEW c \in Coordinators, NEW t \in Callers,
             Admit(c, t) \/ Request(c, t) \/ Metadata(c, t) \/ Begin(c, t)
             \/ Released(c, t) \/ DropBegin(c, t)
      PROVE  /\ exists' \in BOOLEAN /\ complete' \in BOOLEAN
             /\ up' \subseteq Coordinators /\ cancelled' \subseteq Coordinators
             /\ sealed' \subseteq Coordinators
  BY <1>1 DEF Admit, Request, Metadata, Begin, Released, DropBegin, Drop, LockGate,
              AdmitModelAttempt, AdmitWait, AdmitDenied, AdmitFails, TakeOwnership,
              Published, Wake, Ends, Settle, SettleReturns, Insert, Write, Seal
<1>2. ASSUME NEW c \in Coordinators, NEW p \in Policy, NEW unknown \in BOOLEAN,
             Register(c, p, unknown)
      PROVE  /\ exists' \in BOOLEAN /\ complete' \in BOOLEAN
             /\ up' \subseteq Coordinators /\ cancelled' \subseteq Coordinators
             /\ sealed' \subseteq Coordinators
  BY <1>2 DEF Register
<1>3. ASSUME NEW c \in Coordinators, Crash(c) \/ Cancel(c)
      PROVE  /\ exists' \in BOOLEAN /\ complete' \in BOOLEAN
             /\ up' \subseteq Coordinators /\ cancelled' \subseteq Coordinators
             /\ sealed' \subseteq Coordinators
  BY <1>3 DEF Crash, Cancel
<1>4. CASE BeginModelLaunch
  BY <1>4 DEF BeginModelLaunch
<1>5. CASE UNCHANGED vars
  BY <1>5
<1> QED BY <1>1, <1>2, <1>3, <1>4, <1>5 DEF Next

\* The part that is in the memory of launches and callers.
MemoryTypeOK ==
    /\ live \in [Coordinators -> SUBSET DOMAIN attempts]
    /\ gate \in [Coordinators -> Callers \cup {None}]
    /\ caller \in [Coordinators -> [Callers ->
            [pc : CallerState, id : DOMAIN attempts \cup {None},
             owned : SUBSET DOMAIN attempts]]]

LEMMA MemoryTypeStep ==
    ASSUME IInv, [Next]_vars
    PROVE  MemoryTypeOK'
<1> DEFINE Place == [pc : CallerState, id : DOMAIN attempts \cup {None},
                     owned : SUBSET DOMAIN attempts]
           Place1 == [pc : CallerState, id : DOMAIN attempts' \cup {None},
                      owned : SUBSET DOMAIN attempts']
<1>a. /\ live \in [Coordinators -> SUBSET DOMAIN attempts]
      /\ gate \in [Coordinators -> Callers \cup {None}]
      /\ caller \in [Coordinators -> [Callers -> Place]]
  BY DEF IInv, TypeOK
<1>b. DOMAIN attempts \subseteq DOMAIN attempts' /\ Place \subseteq Place1
  BY LedgerTypeStep
<1>c. /\ live \in [Coordinators -> SUBSET DOMAIN attempts']
      /\ caller \in [Coordinators -> [Callers -> Place1]]
  BY <1>a, <1>b
<1>d. Outside \in Place1
  BY DEF Outside, CallerState
<1> HIDE DEF Place
<1>1. ASSUME NEW c \in Coordinators, NEW t \in Callers, NEW label \in CallerState,
             Goto(c, t, label)
      PROVE  caller' \in [Coordinators -> [Callers -> Place1]]
  <2> DEFINE x == [caller[c][t] EXCEPT !.pc = label]
  <2>1. caller[c][t] \in Place1
    <3> HIDE DEF Place1
    <3> QED BY <1>c
  <2>2. x \in Place1
    BY <2>1
  <2>3. caller' = [caller EXCEPT ![c][t] = x]
    BY <1>1 DEF Goto
  <2> HIDE DEF x, Place1
  <2> QED BY <1>c, <2>2, <2>3
<1>2. ASSUME NEW c \in Coordinators, NEW t \in Callers, Leave(c, t)
      PROVE  caller' \in [Coordinators -> [Callers -> Place1]]
  <2> HIDE DEF Place1
  <2> QED BY <1>c, <1>d, <1>2 DEF Leave
<1>3. ASSUME NEW c \in Coordinators, NEW t \in Callers, NEW x \in Place1,
             caller' = [caller EXCEPT ![c][t] = x]
      PROVE  caller' \in [Coordinators -> [Callers -> Place1]]
  <2> HIDE DEF Place1
  <2> QED BY <1>c, <1>3
<1> DEFINE Goal == /\ live' \in [Coordinators -> SUBSET DOMAIN attempts']
                   /\ gate' \in [Coordinators -> Callers \cup {None}]
                   /\ caller' \in [Coordinators -> [Callers -> Place1]]
<1>4. ASSUME NEW c \in Coordinators, NEW t \in Callers, LockGate(c, t) PROVE Goal
  <2>1. CASE Leave(c, t)
    BY <1>a, <1>c, <1>2, <1>4, <2>1 DEF LockGate
  <2>2. CASE caller' = [caller EXCEPT ![c][t] =
                           [pc |-> "checking", id |-> None, owned |-> live[c]]]
    <3>1. [pc |-> "checking", id |-> None, owned |-> live[c]] \in Place1
      BY <1>c DEF CallerState, Beginning
    <3>2. caller' \in [Coordinators -> [Callers -> Place1]]
      BY <1>3, <2>2, <3>1
    <3>3. UNCHANGED live /\ (UNCHANGED gate \/ gate' = [gate EXCEPT ![c] = t])
      BY <1>4 DEF LockGate
    <3>4. gate' \in [Coordinators -> Callers \cup {None}]
      BY <1>a, <3>3
    <3> QED BY <1>c, <3>2, <3>3, <3>4
  <2> QED BY <1>4, <2>1, <2>2 DEF LockGate
<1>5. ASSUME NEW c \in Coordinators, NEW t \in Callers, AdmitModelAttempt(c, t) PROVE Goal
  <2>1. [pc |-> "admitted", owned |-> {}, id |-> Len(attempts) + 1] \in Place1
    BY <1>5 DEF AdmitModelAttempt, Insert, CallerState, Beginning, IInv, TypeOK
  <2>2. caller' \in [Coordinators -> [Callers -> Place1]]
    BY <1>3, <1>5, <2>1 DEF AdmitModelAttempt
  <2> QED BY <1>a, <1>c, <1>5, <2>2 DEF AdmitModelAttempt
<1>6. ASSUME NEW c \in Coordinators, NEW t \in Callers,
             AdmitWait(c, t) \/ AdmitDenied(c, t) \/ AdmitFails(c, t)
             \/ Begin(c, t) \/ Published(c, t) \/ Wake(c, t)
      PROVE  Goal
  <2>1. caller' \in [Coordinators -> [Callers -> Place1]]
    BY <1>1, <1>2, <1>6 DEF AdmitWait, AdmitDenied, AdmitFails, Begin, Published, Wake,
                            CallerState, Beginning, Owning
  <2> QED BY <1>a, <1>c, <1>6, <2>1 DEF AdmitWait, AdmitDenied, AdmitFails, Begin,
                                       Published, Wake, Unlock
<1>7. ASSUME NEW c \in Coordinators, NEW t \in Callers, TakeOwnership(c, t) PROVE Goal
  <2>1. caller[c][t].id \in DOMAIN attempts
    BY <1>7 DEF TakeOwnership, At, IInv, TypeOK, Custody, Held, HoldsAttempt
  <2>2. live' \in [Coordinators -> SUBSET DOMAIN attempts']
    BY <1>b, <1>c, <1>7, <2>1 DEF TakeOwnership
  <2>3. caller' \in [Coordinators -> [Callers -> Place1]]
    BY <1>1, <1>7 DEF TakeOwnership, CallerState, Owning
  <2> QED BY <1>a, <1>7, <2>2, <2>3 DEF TakeOwnership, Unlock
<1>8. ASSUME NEW c \in Coordinators, NEW t \in Callers,
             Metadata(c, t) \/ Ends(c, t) \/ Settle(c, t) \/ SettleReturns(c, t)
      PROVE  Goal
  <2>1. caller' \in [Coordinators -> [Callers -> Place1]]
    BY <1>1, <1>c, <1>8 DEF Metadata, Ends, Settle, SettleReturns, CallerState, Owning
  <2> QED BY <1>a, <1>c, <1>8, <2>1 DEF Metadata, Ends, Settle, SettleReturns, Unlock
<1>9. ASSUME NEW c \in Coordinators, NEW t \in Callers,
             Released(c, t) \/ DropBegin(c, t)
      PROVE  Goal
  <2>1. caller' \in [Coordinators -> [Callers -> Place1]]
    BY <1>2, <1>9 DEF Released, DropBegin, Drop
  <2>2. gate' \in [Coordinators -> Callers \cup {None}]
    BY <1>a, <1>9 DEF Released, DropBegin, Drop
  <2>3. live' \in [Coordinators -> SUBSET DOMAIN attempts']
    BY <1>c, <1>9 DEF Released, DropBegin
  <2> QED BY <2>1, <2>2, <2>3
<1>10. ASSUME NEW c \in Coordinators, Crash(c) PROVE Goal
  <2> HIDE DEF Place1
  <2> QED BY <1>a, <1>c, <1>d, <1>10 DEF Crash
<1>11. ASSUME NEW c \in Coordinators, NEW p \in Policy, NEW unknown \in BOOLEAN,
              Register(c, p, unknown)
       PROVE  Goal
  BY <1>a, <1>c, <1>11 DEF Register
<1>12. ASSUME NEW c \in Coordinators, Cancel(c) PROVE Goal
  BY <1>a, <1>c, <1>12 DEF Cancel
<1>13. BeginModelLaunch \/ UNCHANGED vars => Goal
  BY <1>a, <1>c DEF BeginModelLaunch, vars, memory
<1>14. Goal
  BY <1>4, <1>5, <1>6, <1>7, <1>8, <1>9, <1>10, <1>11, <1>12, <1>13 DEF Next, Admit, Request
<1> QED BY <1>14 DEF MemoryTypeOK

LEMMA TypeStep ==
    ASSUME IInv, [Next]_vars
    PROVE  TypeOK'
<1>1. TypeOK
  BY DEF IInv
<1> QED BY <1>1, LedgerTypeStep, ProcessTypeStep, MemoryTypeStep
        DEF TypeOK, LedgerTypeOK, MemoryTypeOK

------------------------------------------------------------------------------
(* Who holds what, step by step                                            *)

\* The attempts the callers of a launch own in memory.
OwnedBy(c) == {caller[c][t].id : t \in {u \in Callers : caller[c][u].pc \in Owning}}

\* A step of caller t of launch c is nobody else's: it moves no other caller, takes
\* no gate another caller holds, seals no launch whose gate another caller holds, and
\* writes no attempt but its own.
Alone(c, t) ==
    /\ \A d \in Coordinators, u \in Callers :
          d # c \/ u # t => caller'[d][u] = caller[d][u]
    /\ \A d \in Coordinators : d # c =>
          gate'[d] = gate[d] /\ (d \in sealed' => d \in sealed)
    /\ \A u \in Callers : u # t => (gate'[c] = u <=> gate[c] = u)
    /\ c \in sealed' => c \in sealed \/ \A u \in Callers : u # t => gate[c] # u
    /\ \A i \in DOMAIN attempts :
          /\ i \in DOMAIN attempts' /\ attempts'[i].by = attempts[i].by
          /\ attempts'[i].settled = attempts[i].settled \/ i = caller[c][t].id

LEMMA CustodyFrame ==
    ASSUME IInv, NEW c \in Coordinators, NEW t \in Callers, Alone(c, t), Held(c, t)'
    PROVE  Custody'
<1> SUFFICES ASSUME NEW d \in Coordinators, NEW u \in Callers, d # c \/ u # t
             PROVE  Held(d, u)'
  BY DEF Custody
<1>1. Held(d, u) /\ Held(c, t)
  BY DEF IInv, Custody
<1>2. caller'[d][u] = caller[d][u] /\ (gate'[d] = u <=> gate[d] = u)
  BY DEF Alone
<1>3. caller[d][u].id # None => caller[d][u].id \in DOMAIN attempts
  BY DEF IInv, TypeOK
<1>4. caller[d][u].id # None => caller[d][u].id # caller[c][t].id
  BY <1>1, <1>3 DEF Held
<1>5. caller[d][u].id # None =>
         /\ attempts'[caller[d][u].id].by = attempts[caller[d][u].id].by
         /\ attempts'[caller[d][u].id].settled = attempts[caller[d][u].id].settled
  BY <1>3, <1>4 DEF Alone
<1>6. caller[d][u].pc \in Out => caller[d][u].id # None
  BY <1>1 DEF Held, Out, HoldsAttempt, Owning
<1>7. caller[d][u].pc = "checking" => d \notin sealed'
  BY <1>1 DEF Held, HoldsGate, Alone
<1>8. \A v \in Callers : caller[d][u].id # None /\ caller'[d][v].id = caller[d][u].id
                            => v = u
  <2> SUFFICES ASSUME NEW v \in Callers, caller[d][u].id # None,
                      caller'[d][v].id = caller[d][u].id
               PROVE  v = u
    OBVIOUS
  <2>1. CASE d = c /\ v = t
    BY <1>2, <2>1 DEF Held
  <2>2. CASE ~ (d = c /\ v = t)
    BY <1>1, <2>2 DEF Held, Alone
  <2> QED BY <2>1, <2>2
<1> QED BY <1>1, <1>2, <1>5, <1>6, <1>7, <1>8 DEF Held

\* What a caller owns is in the live set of its launch.
Live == \A c \in Coordinators : live[c] = OwnedBy(c)

LEMMA LiveFrame ==
    ASSUME IInv, Live, NEW c \in Coordinators, NEW t \in Callers, Alone(c, t),
           \A d \in Coordinators : d # c => live'[d] = live[d],
           live'[c] = (live[c] \ (IF caller[c][t].pc \in Owning THEN {caller[c][t].id} ELSE {}))
                        \cup (IF caller'[c][t].pc \in Owning THEN {caller'[c][t].id} ELSE {})
    PROVE  Live'
<1> SUFFICES ASSUME NEW d \in Coordinators PROVE live'[d] = OwnedBy(d)'
  BY DEF Live
<1>1. CASE d # c
  BY <1>1 DEF Live, OwnedBy, Alone
<1>2. CASE d = c
  <2>1. \A u \in Callers : u # t => caller'[c][u] = caller[c][u]
    BY DEF Alone
  <2>2. \A u \in Callers : u # t /\ caller[c][u].pc \in Owning =>
            caller[c][u].id # caller[c][t].id
    BY DEF IInv, Custody, Held, HoldsAttempt
  <2>3. live[c] = OwnedBy(c)
    BY DEF Live
  <2> QED BY <1>2, <2>1, <2>2, <2>3 DEF OwnedBy
<1> QED BY <1>1, <1>2

\* Where a step of one caller leaves the callers, and what it leaves of the attempts.
Moves(c, t) == \A d \in Coordinators, u \in Callers :
                  d # c \/ u # t => caller'[d][u] = caller[d][u]

Keeps(c, t) == \A i \in DOMAIN attempts :
                  /\ i \in DOMAIN attempts' /\ attempts'[i].by = attempts[i].by
                  /\ attempts'[i].settled = attempts[i].settled \/ i = caller[c][t].id

LEMMA Placed ==
    ASSUME TypeOK, NEW c \in Coordinators, NEW t \in Callers, NEW x,
           caller' = [caller EXCEPT ![c][t] = x]
    PROVE  caller'[c][t] = x /\ Moves(c, t)
BY DEF TypeOK, Moves

LEMMA Gone ==
    ASSUME TypeOK, NEW c \in Coordinators, NEW t \in Callers, NEW label, Goto(c, t, label)
    PROVE  /\ caller'[c][t].pc = label /\ caller'[c][t].id = caller[c][t].id
           /\ Moves(c, t)
BY DEF TypeOK, Moves, Goto

LEMMA Left ==
    ASSUME TypeOK, NEW c \in Coordinators, NEW t \in Callers, Leave(c, t)
    PROVE  /\ caller'[c][t].pc = "outside" /\ caller'[c][t].id = None
           /\ Moves(c, t)
BY DEF TypeOK, Moves, Leave, Outside

LEMMA Inserted ==
    ASSUME TypeOK, NEW c \in Coordinators, NEW t \in Callers, Insert(c)
    PROVE  /\ Keeps(c, t)
           /\ Len(attempts) + 1 \notin DOMAIN attempts
           /\ attempts'[Len(attempts) + 1].by = c
           /\ ~ attempts'[Len(attempts) + 1].settled
<1>1. attempts \in Seq(Receipt)
  BY DEF TypeOK
<1>2. attempts' = Append(attempts, Intent(c))
  BY DEF Insert
<1>3. /\ attempts'[Len(attempts) + 1] = Intent(c)
      /\ \A i \in DOMAIN attempts : i \in DOMAIN attempts' /\ attempts'[i] = attempts[i]
      /\ Len(attempts) + 1 \notin DOMAIN attempts
  <2> HIDE DEF Receipt
  <2> QED BY <1>1, <1>2
<1> QED BY <1>3 DEF Keeps, Intent

\* What has to be shown of the action of one caller.
Kept == Custody' /\ Live' /\ (sealed \subseteq cancelled)'

LEMMA CallerStep ==
    ASSUME IInv, Live, NEW c \in Coordinators, NEW t \in Callers,
           \/ Begin(c, t) \/ LockGate(c, t) \/ AdmitWait(c, t) \/ AdmitDenied(c, t)
           \/ Published(c, t) \/ Wake(c, t) \/ DropBegin(c, t)
    PROVE  Kept
<1>1. TypeOK /\ Held(c, t) /\ sealed \subseteq cancelled
  BY DEF IInv, Custody
<1>2. gate \in [Coordinators -> Callers \cup {None}] /\ None \notin Callers
  BY <1>1, AdmissionAssumption DEF TypeOK
<1>3. UNCHANGED <<attempts, sealed, live>> /\ cancelled \subseteq cancelled'
  BY DEF Begin, LockGate, AdmitWait, AdmitDenied, Published, Wake, DropBegin, Drop, ledger
<1>4. Keeps(c, t)
  BY <1>3 DEF Keeps
<1> DEFINE Goal == /\ Moves(c, t) /\ Held(c, t)'
                   /\ \A d \in Coordinators : d # c => gate'[d] = gate[d]
                   /\ \A u \in Callers : u # t => (gate'[c] = u <=> gate[c] = u)
                   /\ \/ caller[c][t].pc \notin Owning /\ caller'[c][t].pc \notin Owning
                      \/ /\ caller[c][t].pc \in Owning /\ caller'[c][t].pc \in Owning
                         /\ caller[c][t].id = caller'[c][t].id
<1>5. ASSUME Begin(c, t) PROVE Goal
  <2>1. /\ caller[c][t].pc = "outside" /\ caller'[c][t].pc = "queued"
        /\ caller'[c][t].id = caller[c][t].id /\ Moves(c, t) /\ UNCHANGED gate
    BY <1>1, <1>5, Gone DEF Begin, At
  <2> QED BY <1>1, <1>3, <2>1 DEF Held, HoldsAttempt, HoldsGate, Out, Owning
<1>6. ASSUME LockGate(c, t) PROVE Goal
  <2>1. caller[c][t].pc = "queued" /\ gate[c] = None
    BY <1>6 DEF LockGate, At
  <2>2. CASE Leave(c, t) /\ UNCHANGED gate
    <3>1. caller'[c][t].pc = "outside" /\ caller'[c][t].id = None /\ Moves(c, t)
      BY <1>1, <2>2, Left
    <3> QED BY <1>1, <1>3, <2>1, <2>2, <3>1 DEF Held, HoldsAttempt, HoldsGate, Out, Owning
  <2>3. CASE /\ c \notin cancelled
             /\ gate' = [gate EXCEPT ![c] = t]
             /\ caller' = [caller EXCEPT ![c][t] =
                              [pc |-> "checking", id |-> None, owned |-> live[c]]]
    <3> DEFINE x == [pc |-> "checking", id |-> None, owned |-> live[c]]
    <3>0. caller' = [caller EXCEPT ![c][t] = x] /\ x.pc = "checking" /\ x.id = None
      BY <2>3
    <3> HIDE DEF x
    <3>1. caller'[c][t].pc = "checking" /\ caller'[c][t].id = None /\ Moves(c, t)
      BY <1>1, <3>0, Placed
    <3>2. /\ gate'[c] = t /\ \A d \in Coordinators : d # c => gate'[d] = gate[d]
          /\ \A u \in Callers : gate[c] # u
      BY <1>2, <2>1, <2>3
    <3> QED BY <1>1, <1>3, <2>1, <2>3, <3>1, <3>2
            DEF Held, HoldsAttempt, HoldsGate, Out, Owning
  <2> QED BY <1>6, <2>2, <2>3 DEF LockGate
<1>7. ASSUME AdmitWait(c, t) PROVE Goal
  <2>1. /\ caller[c][t].pc = "checking" /\ caller'[c][t].pc = "waiting"
        /\ caller'[c][t].id = caller[c][t].id /\ Moves(c, t) /\ Unlock(c)
    BY <1>1, <1>7, Gone DEF AdmitWait, At
  <2>2. gate[c] = t
    BY <1>1, <2>1 DEF Held, HoldsGate
  <2>3. /\ gate'[c] = None /\ \A d \in Coordinators : d # c => gate'[d] = gate[d]
    BY <1>2, <2>1 DEF Unlock
  <2> QED BY <1>1, <1>2, <1>3, <2>1, <2>2, <2>3 DEF Held, HoldsAttempt, HoldsGate, Out, Owning
<1>8. ASSUME AdmitDenied(c, t) PROVE Goal
  <2>1. /\ caller[c][t].pc = "checking" /\ caller'[c][t].pc = "outside"
        /\ caller'[c][t].id = None /\ Moves(c, t) /\ Unlock(c)
    BY <1>1, <1>8, Left DEF AdmitDenied, At
  <2>2. gate[c] = t
    BY <1>1, <2>1 DEF Held, HoldsGate
  <2>3. /\ gate'[c] = None /\ \A d \in Coordinators : d # c => gate'[d] = gate[d]
    BY <1>2, <2>1 DEF Unlock
  <2> QED BY <1>1, <1>2, <1>3, <2>1, <2>2, <2>3 DEF Held, HoldsAttempt, HoldsGate, Out, Owning
<1>9. ASSUME Published(c, t) PROVE Goal
  <2>1. /\ caller[c][t].pc = "publishing" /\ caller'[c][t].pc = "active"
        /\ caller'[c][t].id = caller[c][t].id /\ Moves(c, t) /\ UNCHANGED gate
    BY <1>1, <1>9, Gone DEF Published, At
  <2>2. \A u \in Callers : caller'[c][t].id # None /\ caller'[c][u].id = caller'[c][t].id
                              => u = t
    BY <1>1, <2>1 DEF Held, Moves
  <2> QED BY <1>1, <1>3, <2>1, <2>2 DEF Held, HoldsAttempt, HoldsGate, Out, Owning
<1>10. ASSUME Wake(c, t) PROVE Goal
  <2>1. /\ caller[c][t].pc = "waiting" /\ caller'[c][t].pc \in {"outside", "queued"}
        /\ caller'[c][t].id = None /\ Moves(c, t) /\ UNCHANGED gate
    BY <1>1, <1>10, Gone, Left DEF Wake, At, Held, HoldsAttempt, Owning
  <2> QED BY <1>1, <1>3, <2>1 DEF Held, HoldsAttempt, HoldsGate, Out, Owning
<1>11. ASSUME DropBegin(c, t) PROVE Goal
  <2>1. /\ caller[c][t].pc \in Beginning /\ caller'[c][t].pc = "outside"
        /\ caller'[c][t].id = None /\ Moves(c, t)
        /\ gate' = [gate EXCEPT ![c] = IF @ = t THEN None ELSE @]
    BY <1>1, <1>11, Left DEF DropBegin, Drop
  <2>2. /\ gate'[c] # t /\ \A d \in Coordinators : d # c => gate'[d] = gate[d]
        /\ \A u \in Callers : u # t => (gate'[c] = u <=> gate[c] = u)
    BY <1>2, <2>1
  <2> QED BY <1>1, <1>3, <2>1, <2>2
          DEF Held, HoldsAttempt, HoldsGate, Out, Owning, Beginning
<1>12. Goal
  BY <1>5, <1>6, <1>7, <1>8, <1>9, <1>10, <1>11
<1>13. Alone(c, t)
  BY <1>3, <1>4, <1>12 DEF Alone, Moves, Keeps
<1>14. \A d \in Coordinators : d # c => live'[d] = live[d]
  BY <1>3
<1>15. live'[c] = (live[c] \ (IF caller[c][t].pc \in Owning THEN {caller[c][t].id} ELSE {}))
                    \cup (IF caller'[c][t].pc \in Owning THEN {caller'[c][t].id} ELSE {})
  <2>1. caller[c][t].pc \in Owning => caller[c][t].id \in live[c]
    BY DEF Live, OwnedBy
  <2> QED BY <1>3, <1>12, <2>1
<1>16. Live'
  BY <1>13, <1>14, <1>15, LiveFrame
<1> QED BY <1>1, <1>3, <1>12, <1>13, <1>16, CustodyFrame DEF Kept

\* The actions that write the ledger, seal the launch or change the live set.
LEMMA AdmitModelAttemptStep ==
    ASSUME IInv, Live, NEW c \in Coordinators, NEW t \in Callers, AdmitModelAttempt(c, t)
    PROVE  Kept
<1>1. TypeOK /\ Held(c, t) /\ sealed \subseteq cancelled
  BY DEF IInv, Custody
<1>2. caller[c][t].pc = "checking" /\ UNCHANGED <<cancelled, sealed, live, gate>>
  BY DEF AdmitModelAttempt, At
<1>3. Insert(c)
  BY DEF AdmitModelAttempt
<1> DEFINE x == [pc |-> "admitted", owned |-> {}, id |-> Len(attempts) + 1]
<1>4. /\ caller' = [caller EXCEPT ![c][t] = x]
      /\ x.pc = "admitted" /\ x.id = Len(attempts) + 1
  BY DEF AdmitModelAttempt
<1> HIDE DEF x
<1>5. caller'[c][t] = x /\ Moves(c, t)
  BY <1>1, <1>4, Placed
<1>6. /\ Keeps(c, t) /\ x.id \notin DOMAIN attempts
      /\ attempts'[x.id].by = c /\ ~ attempts'[x.id].settled
  BY <1>1, <1>3, <1>4, Inserted
<1>7. Alone(c, t)
  BY <1>2, <1>5, <1>6 DEF Alone, Moves, Keeps
<1>8. x.id # None
  BY <1>1, <1>4, AdmissionAssumption DEF TypeOK
<1>9. \A u \in Callers : caller'[c][u].id = x.id => u = t
  BY <1>1, <1>5, <1>6, <1>8 DEF TypeOK, Moves
<1>10. Held(c, t)'
  BY <1>1, <1>2, <1>4, <1>5, <1>6, <1>8, <1>9
     DEF Held, HoldsAttempt, HoldsGate, Out, Owning
<1>11. Live'
  BY <1>2, <1>4, <1>5, <1>7, LiveFrame DEF Owning
<1> QED BY <1>1, <1>2, <1>7, <1>10, <1>11, CustodyFrame DEF Kept

LEMMA AdmitFailsStep ==
    ASSUME IInv, Live, NEW c \in Coordinators, NEW t \in Callers, AdmitFails(c, t)
    PROVE  Kept
<1>1. TypeOK /\ Held(c, t) /\ sealed \subseteq cancelled
  BY DEF IInv, Custody
<1>2. /\ caller[c][t].pc = "checking" /\ Seal(c) /\ Leave(c, t) /\ Unlock(c)
      /\ UNCHANGED live
  BY DEF AdmitFails, At
<1>3. caller'[c][t].pc = "outside" /\ caller'[c][t].id = None /\ Moves(c, t)
  BY <1>1, <1>2, Left
<1>4. gate[c] = t /\ gate'[c] = None /\ \A d \in Coordinators : d # c => gate'[d] = gate[d]
  BY <1>1, <1>2 DEF Held, HoldsGate, Unlock, TypeOK
<1>5. Keeps(c, t)
  BY <1>1, Inserted DEF AdmitFails, Keeps, ledger
<1>6. Alone(c, t)
  BY <1>2, <1>3, <1>4, <1>5, AdmissionAssumption DEF Alone, Moves, Keeps, Seal
<1>7. Held(c, t)'
  BY <1>3, <1>4, AdmissionAssumption DEF Held, HoldsAttempt, HoldsGate, Out, Owning
<1>8. Live'
  BY <1>2, <1>3, <1>6, LiveFrame DEF Owning
<1> QED BY <1>1, <1>2, <1>6, <1>7, <1>8, CustodyFrame DEF Kept, Seal

LEMMA TakeOwnershipStep ==
    ASSUME IInv, Live, NEW c \in Coordinators, NEW t \in Callers, TakeOwnership(c, t)
    PROVE  Kept
<1>1. TypeOK /\ Held(c, t) /\ sealed \subseteq cancelled
  BY DEF IInv, Custody
<1>2. /\ caller[c][t].pc = "admitted" /\ Unlock(c)
      /\ Goto(c, t, "publishing")
      /\ live' = [live EXCEPT ![c] = @ \cup {caller[c][t].id}]
      /\ UNCHANGED <<attempts, cancelled, sealed>>
  BY DEF TakeOwnership, At, ledger
<1>3. /\ caller'[c][t].pc = "publishing" /\ caller'[c][t].id = caller[c][t].id
      /\ Moves(c, t)
  BY <1>1, <1>2, Gone
<1>4. gate[c] = t /\ gate'[c] = None /\ \A d \in Coordinators : d # c => gate'[d] = gate[d]
  BY <1>1, <1>2 DEF Held, HoldsGate, Unlock, TypeOK
<1>5. Alone(c, t)
  BY <1>2, <1>3, <1>4, AdmissionAssumption DEF Alone, Moves
<1>6. Held(c, t)'
  BY <1>1, <1>2, <1>3, <1>4, AdmissionAssumption
     DEF Held, HoldsAttempt, HoldsGate, Out, Owning, Moves
<1>7. /\ \A d \in Coordinators : d # c => live'[d] = live[d]
      /\ live'[c] = live[c] \cup {caller[c][t].id}
  BY <1>1, <1>2 DEF TypeOK
<1>8. Live'
  BY <1>2, <1>3, <1>5, <1>7, LiveFrame DEF Owning
<1> QED BY <1>1, <1>2, <1>5, <1>6, <1>8, CustodyFrame DEF Kept

LEMMA WriteKeeps ==
    ASSUME TypeOK, NEW c \in Coordinators, NEW t \in Callers,
           caller[c][t].id \in DOMAIN attempts,
           NEW r, r.by = attempts[caller[c][t].id].by, Write(caller[c][t].id, r)
    PROVE  Keeps(c, t)
BY DEF Keeps, Write, TypeOK

LEMMA MetadataStep ==
    ASSUME IInv, Live, NEW c \in Coordinators, NEW t \in Callers, Metadata(c, t)
    PROVE  Kept
<1>1. TypeOK /\ Held(c, t) /\ sealed \subseteq cancelled
  BY DEF IInv, Custody
<1> DEFINE id == caller[c][t].id
<1>2. PICK cost \in Costs \cup {None}, other \in BOOLEAN :
        LET merged == [merge_metadata(attempts[id], cost) EXCEPT !.flawed = @ \/ other]
        IN /\ Write(id, merged) \/ UNCHANGED ledger
           /\ \/ UNCHANGED <<cancelled, sealed, caller>>
              \/ Seal(c) /\ Goto(c, t, "dropping")
  BY DEF Metadata
<1> DEFINE merged == [merge_metadata(attempts[id], cost) EXCEPT !.flawed = @ \/ other]
<1>3. caller[c][t].pc = "active" /\ gate[c] = None /\ UNCHANGED <<live, gate>>
  BY DEF Metadata, At
<1>4. id \in DOMAIN attempts /\ ~ attempts[id].settled
  BY <1>1, <1>3 DEF Held, Out, HoldsAttempt, Owning, TypeOK
<1>5. attempts[id] \in Receipt
  BY <1>1, <1>4, ElementOfSeq DEF TypeOK
<1>6. merged.by = attempts[id].by /\ merged.settled = attempts[id].settled
  BY <1>5 DEF merge_metadata, Receipt
<1> HIDE DEF merged
<1>7. /\ Keeps(c, t)
      /\ attempts'[id].by = attempts[id].by /\ attempts'[id].settled = attempts[id].settled
  <2>1. CASE Write(id, merged)
    <3>1. attempts'[id] = merged
      BY <1>1, <1>4, <2>1 DEF Write, TypeOK
    <3> QED BY <1>1, <1>4, <1>6, <2>1, <3>1, WriteKeeps
  <2>2. CASE UNCHANGED ledger
    BY <2>2 DEF ledger, Keeps
  <2> QED BY <1>2, <2>1, <2>2 DEF merged
<1>8. /\ caller'[c][t].pc \in {"active", "dropping"} /\ caller'[c][t].id = id
      /\ Moves(c, t)
  <2>1. CASE UNCHANGED caller
    BY <1>3, <2>1 DEF Moves
  <2>2. CASE Goto(c, t, "dropping")
    BY <1>1, <2>2, Gone
  <2> QED BY <1>2, <2>1, <2>2
<1>9. (UNCHANGED <<cancelled, sealed>> \/ Seal(c)) /\ sealed' \subseteq sealed \cup {c}
  BY <1>2 DEF Seal
<1>10. Alone(c, t)
  BY <1>3, <1>7, <1>8, <1>9, AdmissionAssumption DEF Alone, Moves, Keeps
<1>11. Held(c, t)'
  BY <1>1, <1>3, <1>4, <1>7, <1>8, AdmissionAssumption
     DEF Held, HoldsAttempt, HoldsGate, Out, Owning, Moves
<1>12. live[c] = live[c] \cup {id}
  BY <1>3 DEF Live, OwnedBy, Owning
<1>13. Live'
  BY <1>3, <1>8, <1>10, <1>12, LiveFrame DEF Owning
<1>14. (sealed \subseteq cancelled)'
  BY <1>1, <1>9 DEF Seal
<1> QED BY <1>10, <1>11, <1>13, <1>14, CustodyFrame DEF Kept

LEMMA EndsStep ==
    ASSUME IInv, Live, NEW c \in Coordinators, NEW t \in Callers, Ends(c, t)
    PROVE  Kept
<1>1. TypeOK /\ Held(c, t) /\ sealed \subseteq cancelled
  BY DEF IInv, Custody
<1>2. /\ caller[c][t].pc = "active" /\ Goto(c, t, "ending")
      /\ UNCHANGED <<attempts, cancelled, sealed, live, gate>>
  BY DEF Ends, At, ledger
<1>3. /\ caller'[c][t].pc = "ending" /\ caller'[c][t].id = caller[c][t].id
      /\ Moves(c, t)
  BY <1>1, <1>2, Gone
<1>4. Alone(c, t)
  BY <1>2, <1>3 DEF Alone, Moves
<1>5. Held(c, t)'
  BY <1>1, <1>2, <1>3 DEF Held, HoldsAttempt, HoldsGate, Out, Owning, Moves
<1>6. live[c] = live[c] \cup {caller[c][t].id}
  BY <1>2 DEF Live, OwnedBy, Owning
<1>7. Live'
  BY <1>2, <1>3, <1>4, <1>6, LiveFrame DEF Owning
<1> QED BY <1>1, <1>2, <1>4, <1>5, <1>7, CustodyFrame DEF Kept

LEMMA SettleStep ==
    ASSUME IInv, Live, NEW c \in Coordinators, NEW t \in Callers, Settle(c, t)
    PROVE  Kept
<1>1. TypeOK /\ Held(c, t) /\ sealed \subseteq cancelled
  BY DEF IInv, Custody
<1> DEFINE id == caller[c][t].id
           settled == [attempts[id] EXCEPT !.settled = TRUE]
<1>2. /\ caller[c][t].pc = "ending" /\ gate[c] = None
      /\ gate' = [gate EXCEPT ![c] = t] /\ Goto(c, t, "settling")
      /\ UNCHANGED <<cancelled, sealed, live>>
      /\ Write(id, settled) \/ UNCHANGED ledger
  BY DEF Settle, At
<1>3. id \in DOMAIN attempts
  BY <1>1, <1>2 DEF Held, Out, HoldsAttempt, Owning, TypeOK
<1>4. settled.by = attempts[id].by
  BY <1>1, <1>3, ElementOfSeq DEF TypeOK, Receipt
<1> HIDE DEF settled
<1>5. Keeps(c, t) /\ attempts'[id].by = attempts[id].by
  <2>1. CASE Write(id, settled)
    <3>1. Keeps(c, t)
      BY <1>1, <1>3, <1>4, <2>1, WriteKeeps
    <3> QED BY <1>3, <3>1 DEF Keeps
  <2>2. CASE UNCHANGED ledger
    BY <2>2 DEF ledger, Keeps
  <2> QED BY <1>2, <2>1, <2>2
<1>6. caller'[c][t].pc = "settling" /\ caller'[c][t].id = id /\ Moves(c, t)
  BY <1>1, <1>2, Gone
<1>7. gate'[c] = t /\ \A d \in Coordinators : d # c => gate'[d] = gate[d]
  BY <1>1, <1>2 DEF TypeOK
<1>8. Alone(c, t)
  BY <1>2, <1>5, <1>6, <1>7, AdmissionAssumption DEF Alone, Moves, Keeps
<1>9. Held(c, t)'
  BY <1>1, <1>2, <1>5, <1>6, <1>7
     DEF Held, HoldsAttempt, HoldsGate, Out, Owning, Moves
<1>10. live[c] = live[c] \cup {id}
  BY <1>2 DEF Live, OwnedBy, Owning
<1>11. Live'
  BY <1>2, <1>6, <1>8, <1>10, LiveFrame DEF Owning
<1> QED BY <1>1, <1>2, <1>8, <1>9, <1>11, CustodyFrame DEF Kept

LEMMA SettleReturnsStep ==
    ASSUME IInv, Live, NEW c \in Coordinators, NEW t \in Callers, SettleReturns(c, t)
    PROVE  Kept
<1>1. TypeOK /\ Held(c, t) /\ sealed \subseteq cancelled
  BY DEF IInv, Custody
<1>2. /\ caller[c][t].pc = "settling" /\ Unlock(c) /\ Goto(c, t, "dropping")
      /\ UNCHANGED <<attempts, live>>
      /\ UNCHANGED <<cancelled, sealed>> \/ Seal(c)
  BY DEF SettleReturns, At, ledger
<1>3. /\ caller'[c][t].pc = "dropping" /\ caller'[c][t].id = caller[c][t].id
      /\ Moves(c, t)
  BY <1>1, <1>2, Gone
<1>4. gate[c] = t /\ gate'[c] = None /\ \A d \in Coordinators : d # c => gate'[d] = gate[d]
  BY <1>1, <1>2 DEF Held, HoldsGate, Unlock, TypeOK
<1>5. Alone(c, t)
  BY <1>2, <1>3, <1>4, AdmissionAssumption DEF Alone, Moves, Seal
<1>6. Held(c, t)'
  BY <1>1, <1>2, <1>3, <1>4, AdmissionAssumption
     DEF Held, HoldsAttempt, HoldsGate, Out, Owning, Moves
<1>7. live[c] = live[c] \cup {caller[c][t].id}
  BY <1>2 DEF Live, OwnedBy, Owning
<1>8. Live'
  BY <1>2, <1>3, <1>5, <1>7, LiveFrame DEF Owning
<1> QED BY <1>1, <1>2, <1>5, <1>6, <1>8, CustodyFrame DEF Kept, Seal

LEMMA ReleasedStep ==
    ASSUME IInv, Live, NEW c \in Coordinators, NEW t \in Callers, Released(c, t)
    PROVE  Kept
<1>1. TypeOK /\ Held(c, t) /\ sealed \subseteq cancelled
  BY DEF IInv, Custody
<1>2. /\ caller[c][t].pc \in Owning /\ Leave(c, t)
      /\ gate' = [gate EXCEPT ![c] = IF @ = t THEN None ELSE @]
      /\ live' = [live EXCEPT ![c] = @ \ {caller[c][t].id}]
      /\ UNCHANGED <<attempts, cancelled, sealed>>
  BY DEF Released, Drop, ledger
<1>3. caller'[c][t].pc = "outside" /\ caller'[c][t].id = None /\ Moves(c, t)
  BY <1>1, <1>2, Left
<1>4. /\ gate'[c] # t /\ \A d \in Coordinators : d # c => gate'[d] = gate[d]
      /\ \A u \in Callers : u # t => (gate'[c] = u <=> gate[c] = u)
  BY <1>1, <1>2, AdmissionAssumption DEF TypeOK
<1>5. Alone(c, t)
  BY <1>2, <1>3, <1>4 DEF Alone, Moves
<1>6. Held(c, t)'
  BY <1>3, <1>4 DEF Held, HoldsAttempt, HoldsGate, Out, Owning
<1>7. /\ \A d \in Coordinators : d # c => live'[d] = live[d]
      /\ live'[c] = live[c] \ {caller[c][t].id}
  BY <1>1, <1>2 DEF TypeOK
<1>8. Live'
  BY <1>2, <1>3, <1>5, <1>7, LiveFrame DEF Owning
<1> QED BY <1>1, <1>2, <1>5, <1>6, <1>8, CustodyFrame DEF Kept

LEMMA CrashStep ==
    ASSUME IInv, Live, NEW c \in Coordinators, Crash(c)
    PROVE  Kept
<1>1. TypeOK /\ sealed \subseteq cancelled
  BY DEF IInv
<1>2. /\ caller' = [caller EXCEPT ![c] = [t \in Callers |-> Outside]]
      /\ live' = [live EXCEPT ![c] = {}] /\ gate' = [gate EXCEPT ![c] = None]
      /\ cancelled' = cancelled \ {c} /\ sealed' = sealed \ {c} /\ UNCHANGED attempts
  BY DEF Crash, ledger
<1>3. ASSUME NEW d \in Coordinators, d # c
      PROVE  /\ caller'[d] = caller[d] /\ live'[d] = live[d] /\ gate'[d] = gate[d]
  BY <1>1, <1>2, <1>3 DEF TypeOK
<1>4. /\ \A t \in Callers : caller'[c][t] = Outside
      /\ live'[c] = {} /\ gate'[c] = None
  BY <1>1, <1>2 DEF TypeOK
<1>5. ASSUME NEW d \in Coordinators, NEW t \in Callers PROVE Held(d, t)'
  <2>1. CASE d = c
    BY <1>4, <2>1, AdmissionAssumption
       DEF Held, HoldsAttempt, HoldsGate, Out, Owning, Outside
  <2>2. CASE d # c
    BY <1>2, <1>3, <2>2 DEF IInv, Custody, Held
  <2> QED BY <2>1, <2>2
<1>6. ASSUME NEW d \in Coordinators PROVE live'[d] = OwnedBy(d)'
  <2>1. CASE d = c
    BY <1>4, <2>1 DEF OwnedBy, Owning, Outside
  <2>2. CASE d # c
    BY <1>3, <2>2 DEF Live, OwnedBy
  <2> QED BY <2>1, <2>2
<1> QED BY <1>1, <1>2, <1>5, <1>6 DEF Kept, Custody, Live

LEMMA MemoryStep ==
    ASSUME IInv, Live, [Next]_vars
    PROVE  Kept
<1>1. ASSUME UNCHANGED <<attempts, sealed, live, gate, caller>>,
             cancelled \subseteq cancelled'
      PROVE  Kept
  BY <1>1 DEF IInv, Kept, Custody, Held, Live, OwnedBy
<1>2. ASSUME NEW c \in Coordinators, NEW p \in Policy, NEW unknown \in BOOLEAN,
             Register(c, p, unknown)
      PROVE  Kept
  BY <1>1, <1>2 DEF Register
<1>3. ASSUME NEW c \in Coordinators, Cancel(c) PROVE Kept
  BY <1>1, <1>3 DEF Cancel, ledger
<1>4. BeginModelLaunch \/ UNCHANGED vars => Kept
  BY <1>1 DEF BeginModelLaunch, vars, ledger, memory
<1>5. ASSUME NEW c \in Coordinators, NEW t \in Callers,
             Begin(c, t) \/ Admit(c, t) \/ Metadata(c, t) \/ Request(c, t)
             \/ Released(c, t) \/ DropBegin(c, t)
      PROVE  Kept
  BY <1>5, CallerStep, AdmitModelAttemptStep, AdmitFailsStep, TakeOwnershipStep,
     MetadataStep, EndsStep, SettleStep, SettleReturnsStep, ReleasedStep DEF Admit, Request
<1> QED BY <1>2, <1>3, <1>4, <1>5, CrashStep DEF Next

\* The live sets and disjointness, from custody.
LEMMA LiveIsOwnedStep ==
    ASSUME IInv, [Next]_vars
    PROVE  LiveIsOwned'
<1>1. Live
  BY DEF IInv, RequestsAreAdmitted, LiveIsOwned, Live, OwnedBy
<1>2. Custody' /\ Live'
  BY <1>1, MemoryStep DEF Kept
<1>3. TypeOK'
  BY TypeStep
<1>4. ASSUME NEW c \in Coordinators, NEW i \in live'[c] PROVE attempts'[i].by = c
  <2>1. PICK t \in Callers : caller'[c][t].pc \in Owning /\ caller'[c][t].id = i
    BY <1>2, <1>4 DEF Live, OwnedBy
  <2>2. Held(c, t)'
    BY <1>2 DEF Custody
  <2> QED BY <2>1, <2>2 DEF Held, HoldsAttempt
<1>5. ASSUME NEW c \in Coordinators, NEW s \in Callers, NEW t \in Callers,
             caller'[c][s].id # None, caller'[c][s].id = caller'[c][t].id
      PROVE  s = t
  BY <1>2, <1>5 DEF Custody, Held
<1> QED BY <1>2, <1>3, <1>4, <1>5 DEF LiveIsOwned, Live, OwnedBy

------------------------------------------------------------------------------
(* The ledger                                                              *)

\* A receipt names its launch.
LEMMA SentBy ==
    ASSUME attempts \in Seq(Receipt), NEW i \in DOMAIN attempts
    PROVE  attempts[i].by \in Coordinators
<1>1. attempts[i] \in Receipt
  <2> HIDE DEF Receipt
  <2> QED BY ElementOfSeq
<1> QED BY <1>1 DEF Receipt

\* What the two ledger changes of LedgerStep do to the receipts.
LEMMA AdmitsReceipts ==
    ASSUME IInv, NEW c \in Coordinators, Admits(c)
    PROVE  /\ Len(attempts) \in Nat
           /\ DOMAIN attempts = 1 .. Len(attempts)
           /\ DOMAIN attempts' = 1 .. Len(attempts) + 1
           /\ \A i \in DOMAIN attempts : attempts'[i] = attempts[i]
           /\ attempts'[Len(attempts) + 1] = Intent(c)
           /\ launch[c] # None /\ policy # None /\ policy = launch[c].policy
           /\ UNCHANGED <<policy, launch>>
<1>1. attempts \in Seq(Receipt) /\ attempts' = Append(attempts, Intent(c))
  BY DEF IInv, TypeOK, Admits
<1>2. launch[c] # None /\ policy # None
  BY DEF IInv, Registered, Admits
<1>3. policy = launch[c].policy
  BY DEF Admits, Admission
<1> HIDE DEF Receipt
<1>4. /\ Len(attempts) \in Nat
      /\ DOMAIN attempts = 1 .. Len(attempts)
      /\ DOMAIN attempts' = 1 .. Len(attempts) + 1
      /\ \A i \in DOMAIN attempts : attempts'[i] = attempts[i]
      /\ attempts'[Len(attempts) + 1] = Intent(c)
  BY <1>1
<1> QED BY <1>2, <1>3, <1>4 DEF Admits

LEMMA RewritesReceipts ==
    ASSUME IInv, NEW n \in DOMAIN attempts, Rewrites(n)
    PROVE  /\ DOMAIN attempts' = DOMAIN attempts
           /\ \A i \in DOMAIN attempts :
                 /\ attempts'[i].by = attempts[i].by
                 /\ attempts'[i].epoch = attempts[i].epoch
                 /\ i # n => attempts'[i] = attempts[i]
           /\ UNCHANGED <<policy, launch>>
<1>1. PICK r : /\ r.by = attempts[n].by /\ r.epoch = attempts[n].epoch
               /\ attempts' = [attempts EXCEPT ![n] = r]
  BY DEF Rewrites
<1> QED BY <1>1 DEF Rewrites, IInv, TypeOK

\* What registering does to policies: the launch gets the effective one, whose epoch is
\* new exactly when the policy is.
LEMMA RegistersPolicies ==
    ASSUME IInv, NEW c \in Coordinators, Registers(c)
    PROVE  /\ launch[c] = None /\ policy' # None /\ UNCHANGED attempts
           /\ launch'[c] # None /\ launch'[c].policy = policy'
           /\ \A d \in Coordinators : d # c => launch'[d] = launch[d]
           /\ policy # None => policy' = policy \/ policy.epoch < policy'.epoch
           /\ Finite(policy'.policy) /\ policy' # policy => Unresolved = {}
<1>1. PICK p \in Policy, unknown \in BOOLEAN :
        /\ launch[c] = None
        /\ MayRegister(p, unknown, ~ exists \/ (policy # None /\ complete))
        /\ NextEpoch(p) <= MaxEpoch
        /\ policy' = [epoch |-> NextEpoch(p), policy |-> p]
        /\ launch' = [launch EXCEPT ![c] = [policy |-> policy', unknown |-> unknown]]
  BY DEF Registers
<1> DEFINE covers == [policy |-> policy', unknown |-> unknown]
<1>2. policy' \in PolicyState /\ covers \in Coverage
  BY <1>1, RegisteredPolicy DEF IInv, Coverage
<1>3. launch'[c] = covers /\ \A d \in Coordinators : d # c => launch'[d] = launch[d]
  BY <1>1 DEF IInv, TypeOK
<1>4. policy' # None /\ covers # None
  BY <1>2, NoneAssumption
<1>5. ASSUME policy # None
      PROVE  policy' = policy \/ policy.epoch < policy'.epoch
  <2>1. policy \in PolicyState
    BY <1>5 DEF IInv, TypeOK
  <2>2. CASE policy.policy = p
    BY <1>1, <1>5, <2>1, <2>2 DEF NextEpoch, PolicyState
  <2>3. CASE policy.policy # p
    BY <1>1, <1>5, <2>1, <2>3, AdmissionAssumption DEF NextEpoch, PolicyState
  <2> QED BY <2>2, <2>3
<1>6. ASSUME Finite(policy'.policy), policy' # policy PROVE Unresolved = {}
  <2>1. policy = None \/ policy.policy # p
    <3> SUFFICES ASSUME policy # None, policy.policy = p PROVE FALSE
      OBVIOUS
    <3>1. policy \in PolicyState
      BY DEF IInv, TypeOK
    <3> QED BY <1>1, <1>6, <3>1 DEF NextEpoch, PolicyState
  <2> QED BY <1>1, <1>6, <2>1 DEF MayRegister, evidence_denial
<1> QED BY <1>1, <1>3, <1>4, <1>5, <1>6 DEF Registers

LEMMA RegisteredStep ==
    ASSUME IInv, [Next]_vars
    PROVE  Registered'
<1>1. Registered /\ TypeOK
  BY DEF IInv
<1>2. \A c \in up' : c \in up \/ launch'[c] # None
  <2>1. ASSUME NEW c \in Coordinators, NEW p \in Policy, NEW unknown \in BOOLEAN,
               Register(c, p, unknown)
        PROVE  \A d \in up' : d \in up \/ launch'[d] # None
    BY <2>1, RegistersPolicies DEF Register, Registers
  <2>2. ASSUME NEW c \in Coordinators, NEW t \in Callers,
               Begin(c, t) \/ Admit(c, t) \/ Metadata(c, t) \/ Request(c, t)
               \/ Released(c, t) \/ DropBegin(c, t)
        PROVE  UNCHANGED up
    BY <2>2 DEF Admit, Request, Metadata, Begin, Released, DropBegin, Drop, LockGate,
                AdmitModelAttempt, AdmitWait, AdmitDenied, AdmitFails, TakeOwnership,
                Published, Wake, Ends, Settle, SettleReturns
  <2>3. ASSUME NEW c \in Coordinators, Crash(c) \/ Cancel(c) PROVE up' \subseteq up
    BY <2>3 DEF Crash, Cancel
  <2>4. BeginModelLaunch \/ UNCHANGED vars => UNCHANGED up
    BY DEF BeginModelLaunch, vars, memory
  <2> QED BY <2>1, <2>2, <2>3, <2>4 DEF Next
<1>3. CASE Untouched
  BY <1>1, <1>2, <1>3 DEF Untouched, Registered
<1>4. ASSUME NEW c \in Coordinators, Registers(c) PROVE Registered'
  <2>1. /\ launch[c] = None /\ policy' # None /\ UNCHANGED attempts
        /\ launch'[c] # None /\ launch'[c].policy = policy'
        /\ \A d \in Coordinators : d # c => launch'[d] = launch[d]
        /\ policy # None => policy' = policy \/ policy.epoch < policy'.epoch
    BY <1>4, RegistersPolicies
  <2>2. policy' \in PolicyState
    BY <1>4, <2>1, LedgerTypeStep DEF LedgerTypeOK
  <2>3. ASSUME NEW d \in Coordinators, launch'[d] # None
        PROVE  /\ launch'[d].policy.epoch <= policy'.epoch
               /\ launch'[d].policy.epoch = policy'.epoch => launch'[d].policy = policy'
    <3>1. CASE d = c
      BY <2>1, <2>2, <3>1 DEF PolicyState
    <3>2. CASE d # c
      <4>1. launch[d] # None /\ launch'[d] = launch[d]
        BY <2>1, <2>3, <3>2
      <4>2. /\ policy # None /\ launch[d].policy.epoch <= policy.epoch
            /\ launch[d].policy.epoch = policy.epoch => launch[d].policy = policy
        BY <1>1, <4>1 DEF Registered
      <4>3. /\ policy.epoch \in Int /\ policy'.epoch \in Int
            /\ launch[d].policy.epoch \in Int
        BY <1>1, <2>2, <4>1, <4>2, PolicyFacts DEF PolicyState
      <4> QED BY <2>1, <4>1, <4>2, <4>3
    <3> QED BY <3>1, <3>2
  <2>4. ASSUME NEW i \in DOMAIN attempts
        PROVE  /\ launch'[attempts[i].by] # None
               /\ attempts[i].epoch = launch'[attempts[i].by].policy.epoch
    <3>1. attempts[i].by \in Coordinators
      BY <1>1, SentBy DEF TypeOK
    <3> QED BY <1>1, <2>1, <3>1 DEF Registered
  <2>5. up \subseteq Coordinators
    BY <1>1 DEF TypeOK
  <2> QED BY <1>1, <1>2, <2>1, <2>3, <2>4, <2>5 DEF Registered
<1>5. ASSUME NEW c \in Coordinators, Admits(c) PROVE Registered'
  <2>1. /\ DOMAIN attempts = 1 .. Len(attempts) /\ Len(attempts) \in Nat
        /\ DOMAIN attempts' = 1 .. Len(attempts) + 1
        /\ \A i \in DOMAIN attempts : attempts'[i] = attempts[i]
        /\ attempts'[Len(attempts) + 1] = Intent(c)
        /\ launch[c] # None /\ UNCHANGED <<policy, launch>>
    BY <1>5, AdmitsReceipts
  <2>2. ASSUME NEW i \in DOMAIN attempts'
        PROVE  /\ launch[attempts'[i].by] # None
               /\ attempts'[i].epoch = launch[attempts'[i].by].policy.epoch
    <3>1. CASE i \in DOMAIN attempts
      BY <1>1, <2>1, <3>1 DEF Registered
    <3>2. CASE i = Len(attempts) + 1
      BY <2>1, <3>2 DEF Intent
    <3> QED BY <2>1, <3>1, <3>2
  <2> QED BY <1>1, <1>2, <2>1, <2>2 DEF Registered
<1>6. ASSUME NEW n \in DOMAIN attempts, Rewrites(n) PROVE Registered'
  BY <1>1, <1>2, <1>6, RewritesReceipts DEF Registered
<1> QED BY <1>3, <1>4, <1>5, <1>6, LedgerStep

LEMMA OneUnresolvedStep ==
    ASSUME IInv, [Next]_vars
    PROVE  OneUnresolved'
<1>1. OneUnresolved
  BY DEF IInv, RequestsAreAdmitted
<1>2. CASE Untouched
  BY <1>1, <1>2 DEF Untouched, OneUnresolved, Unresolved
<1>3. ASSUME NEW c \in Coordinators, Registers(c) PROVE OneUnresolved'
  <2>1. UNCHANGED attempts /\ (Finite(policy'.policy) /\ policy' # policy => Unresolved = {})
    BY <1>3, RegistersPolicies
  <2> QED BY <1>1, <2>1 DEF OneUnresolved, Unresolved
<1>4. ASSUME NEW c \in Coordinators, Admits(c) PROVE OneUnresolved'
  <2>1. /\ DOMAIN attempts = 1 .. Len(attempts) /\ Len(attempts) \in Nat
        /\ DOMAIN attempts' = 1 .. Len(attempts) + 1
        /\ \A i \in DOMAIN attempts : attempts'[i] = attempts[i]
        /\ UNCHANGED <<policy, launch>>
    BY <1>4, AdmitsReceipts
  <2>2. Finite(policy.policy) => Unresolved = {}
    BY <1>4 DEF Admits, Admission
  <2>3. DOMAIN attempts' = DOMAIN attempts \cup {Len(attempts) + 1}
    BY <2>1
  <2> QED BY <2>1, <2>2, <2>3 DEF OneUnresolved, Unresolved
<1>5. ASSUME NEW n \in DOMAIN attempts, Rewrites(n) PROVE OneUnresolved'
  <2>1. Unresolved' \subseteq Unresolved /\ UNCHANGED policy
    BY <1>5, RewritesReceipts DEF Unresolved, Rewrites
  <2> QED BY <1>1, <2>1 DEF OneUnresolved
<1> QED BY <1>2, <1>3, <1>4, <1>5, LedgerStep

\* Two ledgers that agree on their first receipts have the same prefix.
LEMMA SamePrefix ==
    ASSUME NEW R, NEW s \in Seq(R), NEW z \in Seq(R), NEW n \in Nat,
           n <= Len(s), n <= Len(z), \A k \in 1 .. n : z[k] = s[k]
    PROVE  SubSeq(z, 1, n) = SubSeq(s, 1, n)
<1>1. /\ SubSeq(s, 1, n) \in Seq(R) /\ SubSeq(z, 1, n) \in Seq(R)
      /\ Len(SubSeq(s, 1, n)) = n /\ Len(SubSeq(z, 1, n)) = n
      /\ \A k \in 1 .. n : SubSeq(s, 1, n)[k] = s[k] /\ SubSeq(z, 1, n)[k] = z[k]
  BY SubSeqProperties
<1> QED BY <1>1, SeqEqual

\* The threshold of one receipt.
Threshold(i) ==
    LET p == launch[attempts[i].by].policy.policy IN
    Finite(p) => /\ \A j \in 1 .. i - 1 : attempts[j].settled /\ attempts[j].cost # None
                 /\ ~ (KnownUsd(SubSeq(attempts, 1, i - 1)) >= p)

LEMMA DispatchStep ==
    ASSUME IInv, [Next]_vars
    PROVE  DispatchThreshold'
<1>1. \A i \in DOMAIN attempts : Threshold(i)
  BY DEF IInv, RequestsAreAdmitted, DispatchThreshold, Threshold
<1>2. attempts \in Seq(Receipt) /\ attempts' \in Seq(Receipt)
  BY LedgerTypeStep DEF LedgerTypeOK, IInv, TypeOK
<1>3. SUFFICES \A i \in DOMAIN attempts' : Threshold(i)'
  BY DEF DispatchThreshold, Threshold
<1>4. CASE Untouched
  BY <1>1, <1>4 DEF Untouched, Threshold
<1>5. ASSUME NEW c \in Coordinators, Registers(c)
      PROVE  \A i \in DOMAIN attempts' : Threshold(i)'
  <2>1. /\ launch[c] = None /\ UNCHANGED attempts
        /\ \A d \in Coordinators : d # c => launch'[d] = launch[d]
    BY <1>5, RegistersPolicies
  <2>2. \A i \in DOMAIN attempts : attempts[i].by \in Coordinators
    BY <1>2, SentBy
  <2>3. \A i \in DOMAIN attempts : launch'[attempts[i].by] = launch[attempts[i].by]
    BY <2>1, <2>2 DEF IInv, Registered
  <2> QED BY <1>1, <2>1, <2>3 DEF Threshold
<1>6. ASSUME NEW c \in Coordinators, Admits(c)
      PROVE  \A i \in DOMAIN attempts' : Threshold(i)'
  <2>1. /\ DOMAIN attempts = 1 .. Len(attempts) /\ Len(attempts) \in Nat
        /\ DOMAIN attempts' = 1 .. Len(attempts) + 1
        /\ \A i \in DOMAIN attempts : attempts'[i] = attempts[i]
        /\ attempts'[Len(attempts) + 1] = Intent(c)
        /\ policy = launch[c].policy /\ UNCHANGED <<policy, launch>>
    BY <1>6, AdmitsReceipts
  <2>2. SUFFICES ASSUME NEW i \in DOMAIN attempts' PROVE Threshold(i)'
    OBVIOUS
  <2>3. i - 1 \in Nat /\ i - 1 <= Len(attempts) /\ i - 1 <= Len(attempts')
    BY <1>2, <2>1
  <2>4. SubSeq(attempts', 1, i - 1) = SubSeq(attempts, 1, i - 1)
    <3>1. \A k \in 1 .. i - 1 : attempts'[k] = attempts[k]
      BY <2>1, <2>3
    <3> HIDE DEF Receipt
    <3> QED BY <1>2, <2>3, <3>1, SamePrefix
  <2>5. CASE i \in DOMAIN attempts
    <3>1. Threshold(i)
      BY <1>1, <2>5
    <3>2. attempts'[i] = attempts[i] /\ \A j \in 1 .. i - 1 : attempts'[j] = attempts[j]
      BY <2>1, <2>5
    <3> QED BY <2>1, <2>4, <3>1, <3>2 DEF Threshold
  <2>6. CASE i = Len(attempts) + 1
    <3>1. SubSeq(attempts', 1, i - 1) = attempts
      <4> HIDE DEF Receipt
      <4>1. i - 1 = Len(attempts)
        BY <2>1, <2>6
      <4> QED BY <1>2, <2>4, <4>1, SubSeqFull
    <3>2. attempts'[i].by = c
      BY <2>1, <2>6 DEF Intent
    <3>3. Finite(policy.policy) => /\ Unresolved = {} /\ ~ evidence_denial
                                   /\ ~ (KnownUsd(attempts) >= policy.policy)
      BY <1>6 DEF Admits, Admission
    <3>4. Finite(policy.policy) =>
             \A j \in 1 .. i - 1 : attempts[j].settled /\ attempts[j].cost # None
      BY <2>1, <2>6, <3>3 DEF Unresolved, evidence_denial
    <3>5. \A j \in 1 .. i - 1 : attempts'[j] = attempts[j]
      BY <2>1, <2>6
    <3> QED BY <2>1, <3>1, <3>2, <3>3, <3>4, <3>5 DEF Threshold
  <2> QED BY <2>1, <2>5, <2>6
<1>7. ASSUME NEW n \in DOMAIN attempts, Rewrites(n)
      PROVE  \A i \in DOMAIN attempts' : Threshold(i)'
  <2>1. /\ DOMAIN attempts' = DOMAIN attempts
        /\ \A i \in DOMAIN attempts : /\ attempts'[i].by = attempts[i].by
                                      /\ i # n => attempts'[i] = attempts[i]
        /\ UNCHANGED <<policy, launch>> /\ ~ attempts[n].settled
    BY <1>7, RewritesReceipts DEF Rewrites
  <2>2. SUFFICES ASSUME NEW i \in DOMAIN attempts,
                        Finite(launch[attempts[i].by].policy.policy)
                 PROVE  Threshold(i)'
    BY <2>1 DEF Threshold
  <2>3. Threshold(i)
    BY <1>1
  <2>4. DOMAIN attempts = 1 .. Len(attempts) /\ Len(attempts') = Len(attempts)
        /\ Len(attempts) \in Nat /\ i \in Nat /\ n \in Nat
    BY <1>2, <2>1
  <2>5. n \notin 1 .. i - 1
    BY <2>1, <2>2, <2>3 DEF Threshold
  <2>6. \A j \in 1 .. i - 1 : attempts'[j] = attempts[j]
    BY <2>1, <2>4, <2>5
  <2>7. SubSeq(attempts', 1, i - 1) = SubSeq(attempts, 1, i - 1)
    <3> HIDE DEF Receipt
    <3>1. i - 1 \in Nat /\ i - 1 <= Len(attempts) /\ i - 1 <= Len(attempts')
      BY <2>4
    <3> QED BY <1>2, <2>6, <3>1, SamePrefix
  <2> QED BY <2>1, <2>3, <2>6, <2>7 DEF Threshold
<1> QED BY <1>4, <1>5, <1>6, <1>7, LedgerStep

LEMMA EpochStep ==
    ASSUME IInv, [Next]_vars
    PROVE  EpochOrder'
<1>1. EpochOrder /\ Registered /\ TypeOK
  BY DEF IInv, RequestsAreAdmitted
<1>2. CASE Untouched
  BY <1>1, <1>2 DEF Untouched, EpochOrder
<1>3. ASSUME NEW c \in Coordinators, Registers(c) PROVE EpochOrder'
  <2>1. UNCHANGED attempts /\ launch'[c].policy = policy'
        /\ \A d \in Coordinators : d # c => launch'[d] = launch[d]
    BY <1>3, RegistersPolicies
  <2>2. Registered'
    BY RegisteredStep
  <2>3. ASSUME NEW d \in Coordinators, NEW e \in Coordinators,
               launch'[d] # None, launch'[e] # None,
               launch'[d].policy.epoch = launch'[e].policy.epoch
        PROVE  launch'[d].policy = launch'[e].policy
    <3>1. CASE d # c /\ e # c
      BY <1>1, <2>1, <2>3, <3>1 DEF EpochOrder
    <3>2. CASE d = c \/ e = c
      BY <2>1, <2>2, <2>3, <3>2 DEF Registered
    <3> QED BY <3>1, <3>2
  <2> QED BY <1>1, <2>1, <2>3 DEF EpochOrder
<1>4. ASSUME NEW c \in Coordinators, Admits(c) PROVE EpochOrder'
  <2>1. /\ DOMAIN attempts = 1 .. Len(attempts) /\ Len(attempts) \in Nat
        /\ DOMAIN attempts' = 1 .. Len(attempts) + 1
        /\ \A i \in DOMAIN attempts : attempts'[i] = attempts[i]
        /\ attempts'[Len(attempts) + 1] = Intent(c)
        /\ policy = launch[c].policy /\ policy # None /\ UNCHANGED <<policy, launch>>
    BY <1>4, AdmitsReceipts
  <2>2. attempts'[Len(attempts) + 1].epoch = policy.epoch
    BY <2>1 DEF Intent
  <2>3. \A i \in DOMAIN attempts : attempts[i].epoch <= policy.epoch
    <3> SUFFICES ASSUME NEW i \in DOMAIN attempts PROVE attempts[i].epoch <= policy.epoch
      OBVIOUS
    <3>1. attempts[i].by \in Coordinators
      BY <1>1, SentBy DEF TypeOK
    <3> QED BY <1>1, <3>1 DEF Registered
  <2>4. ASSUME NEW i \in DOMAIN attempts', NEW j \in DOMAIN attempts', i < j
        PROVE  attempts'[i].epoch <= attempts'[j].epoch
    <3>1. i \in DOMAIN attempts
      BY <2>1, <2>4
    <3>2. CASE j \in DOMAIN attempts
      BY <1>1, <2>1, <2>4, <3>1, <3>2 DEF EpochOrder
    <3>3. CASE j = Len(attempts) + 1
      BY <2>1, <2>2, <2>3, <3>1, <3>3
    <3> QED BY <2>1, <3>2, <3>3
  <2> QED BY <1>1, <2>1, <2>4 DEF EpochOrder
<1>5. ASSUME NEW n \in DOMAIN attempts, Rewrites(n) PROVE EpochOrder'
  BY <1>1, <1>5, RewritesReceipts DEF EpochOrder
<1> QED BY <1>2, <1>3, <1>4, <1>5, LedgerStep

------------------------------------------------------------------------------
(* The theorems                                                            *)

LEMMA InitIInv == Init => IInv
<1> SUFFICES ASSUME Init PROVE IInv
  OBVIOUS
<1> USE AdmissionAssumption DEF Init, Outside
<1>1. TypeOK
  <2>1. attempts \in Seq(Receipt)
    BY DEF Receipt
  <2>2. live \in [Coordinators -> SUBSET DOMAIN attempts]
    OBVIOUS
  <2>3. caller \in [Coordinators -> [Callers -> [pc : CallerState,
            id : DOMAIN attempts \cup {None}, owned : SUBSET DOMAIN attempts]]]
    BY DEF CallerState
  <2> QED BY <2>1, <2>2, <2>3 DEF TypeOK
<1>2. Custody
  BY DEF Custody, Held, HoldsAttempt, HoldsGate, Out, Owning
<1>3. Registered
  BY DEF Registered
<1>4. OneUnresolved /\ DispatchThreshold /\ EpochOrder
  BY DEF OneUnresolved, DispatchThreshold, EpochOrder
<1>5. LiveIsOwned
  BY <1>1 DEF LiveIsOwned, Owning
<1> QED BY <1>1, <1>2, <1>3, <1>4, <1>5 DEF IInv, RequestsAreAdmitted

LEMMA IInvStep == IInv /\ [Next]_vars => IInv'
<1> SUFFICES ASSUME IInv, [Next]_vars PROVE IInv'
  OBVIOUS
<1>1. Live
  BY DEF IInv, RequestsAreAdmitted, LiveIsOwned, Live, OwnedBy
<1>2. Custody' /\ (sealed \subseteq cancelled)'
  BY <1>1, MemoryStep DEF Kept
<1> QED BY <1>2, TypeStep, RegisteredStep, LiveIsOwnedStep, OneUnresolvedStep,
           DispatchStep, EpochStep DEF IInv, RequestsAreAdmitted

\* Who holds what, and everything that follows from it, in every reachable state
\* (model_attempts and run_accounting under StoreObserver's gate and live set).
THEOREM Invariance == Spec => []IInv
BY InitIInv, IInvStep, PTL DEF Spec

\* The ledger's promise, whatever launches, callers, crashes and changes of policy do:
\* under a finite policy one request at most is unresolved and each was sent with the
\* settled spend below its limit; receipts are in epoch order; callers own disjoint
\* attempts (accounting::evidence_denial, admit_model_attempt, StoreObserver::begin).
THEOREM Admitted == Spec => []RequestsAreAdmitted
<1>1. IInv => RequestsAreAdmitted
  BY DEF IInv
<1> QED BY <1>1, Invariance, PTL

\* A launch that saw an accounting failure inserts no attempt again, through whatever
\* caller (StoreObserver::persist cancels before the gate opens, begin looks at the
\* token after it).
THEOREM FailedNeverAdmits == Spec => SealedNeverAdmits
<1>1. IInv /\ [Next]_vars => [SealedStep]_vars
  <2> SUFFICES ASSUME IInv, [Next]_vars PROVE SealedStep
    OBVIOUS
  <2>1. CASE UNCHANGED attempts
    BY <2>1 DEF SealedStep, IInv, TypeOK
  <2>2. ASSUME NEW c \in Coordinators, Admits(c) PROVE SealedStep
    <3>1. attempts \in Seq(Receipt) /\ attempts' = Append(attempts, Intent(c))
      BY <2>2 DEF Admits, IInv, TypeOK
    <3>2. attempts'[Len(attempts')] = Intent(c)
      <4> HIDE DEF Receipt
      <4> QED BY <3>1
    <3> QED BY <2>2, <3>2 DEF SealedStep, Admits, Intent
  <2>3. ASSUME NEW n \in DOMAIN attempts, Rewrites(n) PROVE SealedStep
    BY <2>3 DEF SealedStep, Rewrites, IInv, TypeOK
  <2> QED BY <2>1, <2>2, <2>3, LedgerStep DEF Untouched, Registers
<1> QED BY <1>1, Invariance, PTL DEF Spec, SealedNeverAdmits

------------------------------------------------------------------------------
(* The screened release (Screening).                                       *)

\* A record as a plan binds it, and a set closed under the relations of records.
ScreenDatum == [item : ScreenItems, text : ScreenTexts, split : {"train", "test"},
                parent : ScreenRecords \cup {None}, admitted : BOOLEAN]
Linked(d, r, s) == \/ d[r].item = d[s].item
                   \/ d[r].text = d[s].text
                   \/ d[r].parent = s \/ d[s].parent = r
Closed(d, P, C) == \A x \in C, y \in P : Linked(d, x, y) => y \in C

\* What a group says of its members, whatever plans were extended before.
Grouped(d, P, g) ==
    /\ g.members \subseteq P /\ g.members # {}
    /\ g.id \subseteq g.members /\ g.id # {}
    /\ g.reasons \subseteq {"joined", "split", "protected"}
    /\ g.reasons = {} /\ g.split = "train" =>
          \A r \in g.members : d[r].split = "train" /\ d[r].text \notin ScreenProtected
    /\ "split" \in g.reasons => \E r, s \in g.members : d[r].split # d[s].split
    /\ "protected" \in g.reasons => \E r \in g.members : d[r].text \in ScreenProtected

\* Groups are the components of a population: closed, connected and apart.
Components(d, P, gs) ==
    /\ IsFiniteSet(gs)
    /\ \A g \in gs :
          /\ Grouped(d, P, g)
          /\ Closed(d, P, g.members)
          /\ \A C \in SUBSET P : Closed(d, P, C) /\ C \cap g.members # {} => g.members \subseteq C
    /\ \A r \in P : \E g \in gs : r \in g.members
    /\ \A g, h \in gs : g.members \cap h.members # {} => g = h

\* A plan is of some records as they once were, and exports from clean groups only.
Planned(p) ==
    \E d \in [ScreenRecords -> ScreenDatum], P \in SUBSET ScreenRecords :
        /\ p.population = {[record |-> r, data |-> d[r]] : r \in P}
        /\ Components(d, P, p.groups)
        /\ p.complete => P # {}
        /\ \A r \in p.eligible :
              /\ r \in P /\ d[r].admitted
              /\ \E g \in p.groups : r \in g.members /\ g.reasons = {} /\ g.split = "train"

\* The inductive invariant of a release.
ReleaseInv ==
    /\ data \in [ScreenRecords -> ScreenDatum] /\ stored \subseteq ScreenRecords
    /\ pub = [pc |-> pub.pc, plan |-> pub.plan, found |-> pub.found]
    /\ plan # None => Planned(plan)
    /\ pub.pc # "idle" => Planned(pub.plan)

\* The planner counts as everyone does.
LEMMA SameCardinality == \A S : Screen!Cardinality(S) = Cardinality(S)
BY DEF Screen!Cardinality, Cardinality

\* What is finite for the planner is finite.
LEMMA SameFinite == \A S : Screen!IsFiniteSet(S) <=> IsFiniteSet(S)
BY DEF Screen!IsFiniteSet, IsFiniteSet

\* A set of naturals has a least element.
LEMMA LeastExists == ASSUME NEW C, C \subseteq Nat, C # {} PROVE \E r \in C : \A s \in C : r <= s
<1> DEFINE R == {ss \in Nat \X Nat : ss[1] < ss[2]}
<1>1. IsWellFoundedOn(R, Nat)
  BY NatLessThanWellFounded DEF OpToRel
<1>2. \E x \in C : \A y \in C : ~ (<<y, x>> \in R)
  <2> HIDE DEF R
  <2> QED BY <1>1, WFMin
<1>3. PICK x \in C : \A y \in C : ~ (<<y, x>> \in R)
  BY <1>2
<1>4. ASSUME NEW y \in C PROVE x <= y
  <2>1. x \in Nat /\ y \in Nat /\ ~ (<<y, x>> \in R)
    BY <1>3
  <2>2. ~ (y < x)
    BY <2>1
  <2> QED BY <2>1, <2>2
<1> QED BY <1>4

\* The relation of two records is the planner's, on the records as they are.
LEMMA EdgeIsLinked == \A r, s : Screen!Edge(r, s) <=> Linked(data, r, s)
BY DEF Screen!Edge, Linked

\* It has no direction.
LEMMA LinkedIsSymmetric == ASSUME NEW d, NEW r, NEW s PROVE Linked(d, r, s) => Linked(d, s, r)
BY DEF Linked

\* A component has its record, is closed, and is in every closed set that has the record.
LEMMA ComponentIsLeast ==
    ASSUME NEW P, NEW r \in P
    PROVE  LET K == Screen!ComponentOf(r, P)
           IN /\ r \in K /\ K \subseteq P /\ Closed(data, P, K)
              /\ \A C \in SUBSET P : r \in C /\ Closed(data, P, C) => K \subseteq C
<1> DEFINE K == Screen!ComponentOf(r, P)
<1>1. K = {s \in P : \A C \in SUBSET P : r \in C /\ Closed(data, P, C) => s \in C}
  BY EdgeIsLinked DEF Screen!ComponentOf, Closed
<1> HIDE DEF K
<1>2. r \in K /\ K \subseteq P
  BY <1>1
<1>3. ASSUME NEW C \in SUBSET P, r \in C, Closed(data, P, C) PROVE K \subseteq C
  BY <1>1, <1>3
<1>4. ASSUME NEW x \in K, NEW y \in P, Linked(data, x, y) PROVE y \in K
  <2> SUFFICES ASSUME NEW C \in SUBSET P, r \in C, Closed(data, P, C) PROVE y \in C
    BY <1>1
  <2>1. x \in C
    BY <1>1
  <2> QED BY <2>1, <1>4 DEF Closed
<1>5. Closed(data, P, K)
  BY <1>4 DEF Closed
<1> QED BY <1>2, <1>3, <1>5 DEF K

\* The members of a component have the same component.
LEMMA ComponentsAreClasses ==
    ASSUME NEW P, NEW r \in P, NEW s \in Screen!ComponentOf(r, P)
    PROVE  Screen!ComponentOf(s, P) = Screen!ComponentOf(r, P)
<1> DEFINE K == Screen!ComponentOf(r, P)
           L == Screen!ComponentOf(s, P)
<1>1. /\ r \in K /\ K \subseteq P /\ Closed(data, P, K)
      /\ \A C \in SUBSET P : r \in C /\ Closed(data, P, C) => K \subseteq C
  BY ComponentIsLeast
<1>2. s \in P
  BY <1>1
<1>3. /\ s \in L /\ L \subseteq P /\ Closed(data, P, L)
      /\ \A C \in SUBSET P : s \in C /\ Closed(data, P, C) => L \subseteq C
  BY <1>2, ComponentIsLeast
<1>4. s \in K
  OBVIOUS
<1> HIDE DEF K, L
<1>5. L \subseteq K
  BY <1>1, <1>3, <1>4
<1>6. r \in L
  <2> SUFFICES ASSUME r \notin L PROVE FALSE
    OBVIOUS
  <2>1. ASSUME NEW x \in K \ L, NEW y \in P, Linked(data, x, y) PROVE y \in K \ L
    <3>1. y \in K
      BY <1>1, <2>1 DEF Closed
    <3>2. y \in L => x \in L
      BY <1>1, <1>3, <2>1, LinkedIsSymmetric DEF Closed
    <3> QED BY <2>1, <3>1, <3>2
  <2>2. Closed(data, P, K \ L)
    BY <2>1 DEF Closed
  <2>3. K \subseteq K \ L
    BY <1>1, <2>2
  <2> QED BY <1>3, <1>4, <2>3
<1>7. K \subseteq L
  BY <1>1, <1>3, <1>6
<1> QED BY <1>5, <1>7 DEF K, L

\* A component is connected: a closed set that meets it contains it.
LEMMA ComponentIsConnected ==
    ASSUME NEW P, NEW r \in P, NEW C \in SUBSET P, Closed(data, P, C),
           C \cap Screen!ComponentOf(r, P) # {}
    PROVE  Screen!ComponentOf(r, P) \subseteq C
<1>1. PICK s : s \in C /\ s \in Screen!ComponentOf(r, P)
  OBVIOUS
<1>2. Screen!ComponentOf(s, P) = Screen!ComponentOf(r, P)
  BY <1>1, ComponentsAreClasses
<1>3. s \in P
  BY <1>1
<1>4. \A D \in SUBSET P : s \in D /\ Closed(data, P, D) => Screen!ComponentOf(s, P) \subseteq D
  BY <1>3, ComponentIsLeast
<1> QED BY <1>1, <1>2, <1>4

\* What the splits of some records say when there is one of them, or more.
LEMMA Splits ==
    ASSUME NEW S, S \subseteq {"train", "test"}, S # {}
    PROVE  /\ IsFiniteSet(S) /\ Cardinality(S) \in Nat
           /\ ~ (Cardinality(S) > 1) => /\ Cardinality(S) = 1
                                        /\ \A x \in S : (CHOOSE y \in S : TRUE) = x
           /\ Cardinality(S) > 1 <=> "train" \in S /\ "test" \in S
<1>1. IsFiniteSet({"train", "test"})
  <2>1. IsFiniteSet({"train"})
    BY FS_Singleton
  <2> QED BY <2>1, FS_AddElement
<1>2. IsFiniteSet(S) /\ Cardinality(S) \in Nat
  BY <1>1, FS_Subset, FS_CardinalityType
<1>3. Cardinality(S) # 0
  BY <1>2, FS_EmptySet
<1>4. Cardinality(S) = 1 <=> \E x : S = {x}
  BY <1>2, FS_Singleton
<1>5. (\E x : S = {x}) <=> ~ ("train" \in S /\ "test" \in S)
  OBVIOUS
<1>6. ASSUME ~ (Cardinality(S) > 1)
      PROVE  /\ Cardinality(S) = 1 /\ \A x \in S : (CHOOSE y \in S : TRUE) = x
  <2>1. Cardinality(S) = 1
    BY <1>2, <1>3, <1>6
  <2>2. PICK x : S = {x}
    BY <2>1, <1>4
  <2> QED BY <2>1, <2>2
<1>7. Cardinality(S) > 1 <=> "train" \in S /\ "test" \in S
  BY <1>2, <1>3, <1>4, <1>5
<1> QED BY <1>2, <1>6, <1>7

\* A group that is extended: those of an earlier plan that the component meets are in it.
LEMMA EarlierGroupsAreInside ==
    ASSUME NEW P, NEW C \in SUBSET P, Closed(data, P, C),
           NEW d, NEW Q \in SUBSET P, \A r \in Q : d[r] = data[r],
           NEW previous, Components(d, Q, previous),
           NEW g \in previous, g.members \cap C # {}
    PROVE  g.members \subseteq C
<1>1. ASSUME NEW x \in C \cap Q, NEW y \in Q, Linked(d, x, y) PROVE y \in C \cap Q
  <2>1. Linked(data, x, y)
    BY <1>1 DEF Linked
  <2> QED BY <2>1 DEF Closed
<1>2. Closed(d, Q, C \cap Q)
  BY <1>1 DEF Closed
<1>3. g.members \subseteq Q
  BY DEF Components, Grouped
<1>4. (C \cap Q) \cap g.members # {}
  BY <1>3
<1>5. C \cap Q \in SUBSET Q
  OBVIOUS
<1> QED BY <1>2, <1>4, <1>5 DEF Components

\* The group of a component says what is so of its members.
LEMMA GroupIsGrouped ==
    ASSUME data \in [ScreenRecords -> ScreenDatum], Screen!ScreeningConstants,
           NEW P \in SUBSET ScreenRecords, NEW C \in SUBSET P, C # {}, Closed(data, P, C),
           NEW d, NEW Q \in SUBSET P, \A r \in Q : d[r] = data[r],
           NEW previous, Components(d, Q, previous)
    PROVE  Grouped(data, P, Screen!FrozenGroup(C, previous))
<1> DEFINE old == {g \in previous : g.members \cap C # {}}
           S == {data[r].split : r \in C}
           f == Screen!FrozenGroup(C, previous)
<1>1. /\ f.members = C
      /\ f.id = IF old = {} THEN {Screen!Least(C)} ELSE UNION {g.id : g \in old}
      /\ f.split = IF Cardinality(S) = 1 THEN CHOOSE s \in S : TRUE ELSE None
      /\ f.reasons \subseteq {"joined", "split", "protected"}
      /\ "split" \in f.reasons <=> Cardinality(S) > 1
      /\ "protected" \in f.reasons <=> \E r \in C : data[r].text \in ScreenProtected
  <2>1. /\ f.members = C
        /\ f.id = IF old = {} THEN {Screen!Least(C)} ELSE UNION {g.id : g \in old}
        /\ f.split = IF Screen!Cardinality(S) = 1 THEN CHOOSE s \in S : TRUE ELSE None
        /\ f.reasons = {x \in {"joined", "split", "protected"} :
               CASE x = "joined" -> \/ Screen!Cardinality(old) > 1
                                    \/ \E g \in old : "joined" \in g.reasons
                 [] x = "split" -> Screen!Cardinality(S) > 1
                 [] x = "protected" -> \E r \in C : data[r].text \in ScreenProtected}
    BY DEF Screen!FrozenGroup
  <2> HIDE DEF f, S, old
  <2>2. Screen!Cardinality(S) = Cardinality(S)
    BY SameCardinality
  <2>3. f.reasons \subseteq {"joined", "split", "protected"}
    BY <2>1
  <2>4. "split" \in f.reasons <=> Cardinality(S) > 1
    BY <2>1, <2>2
  <2>5. "protected" \in f.reasons <=> \E r \in C : data[r].text \in ScreenProtected
    BY <2>1
  <2> QED BY <2>1, <2>2, <2>3, <2>4, <2>5
<1>2. S \subseteq {"train", "test"} /\ S # {}
  BY DEF ScreenDatum
<1> HIDE DEF f, S
<1>3. f.id \subseteq C /\ f.id # {}
  <2>1. CASE old = {}
    <3>1. C \subseteq Nat
      BY DEF Screen!ScreeningConstants
    <3>2. \E r \in C : \A s \in C : r <= s
      BY <3>1, LeastExists
    <3>3. Screen!Least(C) \in C
      BY <3>2 DEF Screen!Least
    <3> QED BY <1>1, <2>1, <3>3
  <2>2. CASE old # {}
    <3>1. ASSUME NEW g \in old PROVE g.id \subseteq C /\ g.id # {}
      <4>1. g \in previous /\ g.members \cap C # {}
        OBVIOUS
      <4>2. g.members \subseteq C
        BY <4>1, EarlierGroupsAreInside
      <4> QED BY <4>1, <4>2 DEF Components, Grouped
    <3> QED BY <1>1, <2>2, <3>1
  <2> QED BY <2>1, <2>2
<1>4. ASSUME f.reasons = {}, f.split = "train", NEW r \in C
      PROVE  data[r].split = "train" /\ data[r].text \notin ScreenProtected
  <2>1. data[r].split \in S
    BY DEF S
  <2>2. Cardinality(S) = 1 /\ \A x \in S : (CHOOSE y \in S : TRUE) = x
    BY <1>1, <1>2, <1>4, Splits
  <2> QED BY <1>1, <1>4, <2>1, <2>2
<1>5. ASSUME "split" \in f.reasons PROVE \E r, s \in C : data[r].split # data[s].split
  <2>1. "train" \in S /\ "test" \in S
    BY <1>1, <1>2, <1>5, Splits
  <2> QED BY <2>1 DEF S
<1> QED BY <1>1, <1>3, <1>4, <1>5 DEF Grouped, f

\* The groups of a plan, the first or one that extends another, are components.
LEMMA GroupsAreComponents ==
    ASSUME data \in [ScreenRecords -> ScreenDatum], Screen!ScreeningConstants,
           NEW P \in SUBSET ScreenRecords,
           NEW d, NEW Q \in SUBSET P, \A r \in Q : d[r] = data[r],
           NEW previous, Components(d, Q, previous)
    PROVE  Components(data, P, Screen!groups(P, previous))
<1> DEFINE K(r) == Screen!ComponentOf(r, P)
           G(r) == Screen!FrozenGroup(K(r), previous)
           gs == Screen!groups(P, previous)
<1>1. gs = {G(r) : r \in P}
  BY DEF Screen!groups
<1>2. \A C : Screen!FrozenGroup(C, previous).members = C
  BY DEF Screen!FrozenGroup
<1>3. \A r \in P : G(r).members = K(r)
  BY <1>2
<1>4. \A r \in P : r \in K(r) /\ K(r) \subseteq P /\ Closed(data, P, K(r))
  BY ComponentIsLeast
<1>5. ASSUME NEW r \in P PROVE Grouped(data, P, G(r))
  <2>1. K(r) \in SUBSET P /\ K(r) # {} /\ Closed(data, P, K(r))
    BY <1>4
  <2> QED BY <2>1, GroupIsGrouped
<1>6. ASSUME NEW r \in P, NEW s \in P, K(r) \cap K(s) # {} PROVE K(r) = K(s)
  <2>1. PICK x : x \in K(r) /\ x \in K(s)
    BY <1>6
  <2>2. K(x) = K(r) /\ K(x) = K(s)
    BY <2>1, ComponentsAreClasses
  <2> QED BY <2>2
<1>7. IsFiniteSet(gs)
  <2> DEFINE f == [r \in P |-> G(r)]
  <2>1. IsFiniteSet(P)
    BY SameFinite, FS_Subset DEF Screen!ScreeningConstants
  <2>2. f \in Surjection(P, gs)
    <3>1. f \in [P -> gs]
      BY <1>1
    <3>2. \A g \in gs : \E r \in P : f[r] = g
      BY <1>1
    <3> QED BY <3>1, <3>2 DEF Surjection
  <2> HIDE DEF f, gs
  <2> QED BY <2>1, <2>2, FS_Surjection
<1>8. ASSUME NEW g \in gs
      PROVE  /\ Grouped(data, P, g) /\ Closed(data, P, g.members)
             /\ \A C \in SUBSET P :
                    Closed(data, P, C) /\ C \cap g.members # {} => g.members \subseteq C
  <2>1. PICK r \in P : g = G(r)
    BY <1>1
  <2>2. g.members = K(r)
    BY <1>3, <2>1
  <2>3. Closed(data, P, K(r))
    BY <1>4
  <2>4. \A C \in SUBSET P : Closed(data, P, C) /\ C \cap K(r) # {} => K(r) \subseteq C
    BY ComponentIsConnected
  <2>5. Grouped(data, P, g)
    BY <1>5, <2>1
  <2> QED BY <2>2, <2>3, <2>4, <2>5
<1>9. \A r \in P : \E g \in gs : r \in g.members
  BY <1>1, <1>3, <1>4
<1>10. ASSUME NEW g \in gs, NEW h \in gs, g.members \cap h.members # {} PROVE g = h
  <2>1. PICK r \in P, s \in P : g = G(r) /\ h = G(s)
    BY <1>1
  <2>2. g.members = K(r) /\ h.members = K(s)
    BY <1>3, <2>1
  <2>3. K(r) = K(s)
    BY <1>6, <1>10, <2>2
  <2> QED BY <2>1, <2>3
<1> QED BY <1>7, <1>8, <1>9, <1>10 DEF Components, gs

\* No groups are the components of no records.
LEMMA NoComponents == ASSUME NEW d PROVE Components(d, {}, {})
BY FS_EmptySet DEF Components

\* What the planner freezes is a plan, if what it extends was one of records that are unchanged.
LEMMA PrepareIsPlanned ==
    ASSUME data \in [ScreenRecords -> ScreenDatum], stored \subseteq ScreenRecords,
           Screen!ScreeningConstants,
           NEW base, NEW d, NEW Q \in SUBSET stored, \A r \in Q : d[r] = data[r],
           Components(d, Q, base.groups)
    PROVE  /\ Planned(Screen!prepare(stored, base))
           /\ Screen!prepare(stored, base).groups = Screen!groups(stored, base.groups)
           /\ Screen!prepare(stored, base).base = base
<1> DEFINE p == Screen!prepare(stored, base)
           gs == Screen!groups(stored, base.groups)
<1>1. /\ p.population = Screen!bindings(stored) /\ p.groups = gs /\ p.base = base
      /\ p.eligible = Screen!Eligible(stored, gs) /\ p.complete = ~ Screen!Incomplete(stored)
  BY DEF Screen!prepare
<1>2. Components(data, stored, gs)
  BY GroupsAreComponents
<1> HIDE DEF p, gs
<1>3. p.population = {[record |-> r, data |-> data[r]] : r \in stored}
  BY <1>1 DEF Screen!bindings, Screen!binding
<1>4. p.complete => stored # {}
  BY <1>1 DEF Screen!Incomplete
<1>5. \A r \in p.eligible :
          /\ r \in stored /\ data[r].admitted
          /\ \E g \in p.groups : r \in g.members /\ g.reasons = {} /\ g.split = "train"
  BY <1>1 DEF Screen!Eligible
<1>6. Planned(p)
  <2>1. PICK e : e = data
    OBVIOUS
  <2>2. PICK P : P = stored
    OBVIOUS
  <2>3. e \in [ScreenRecords -> ScreenDatum] /\ P \in SUBSET ScreenRecords
    BY <2>1, <2>2
  <2>4. /\ p.population = {[record |-> r, data |-> e[r]] : r \in P}
        /\ Components(e, P, p.groups)
        /\ p.complete => P # {}
        /\ \A r \in p.eligible :
              /\ r \in P /\ e[r].admitted
              /\ \E g \in p.groups : r \in g.members /\ g.reasons = {} /\ g.split = "train"
    BY <1>1, <1>2, <1>3, <1>4, <1>5, <2>1, <2>2
  <2> QED BY <2>3, <2>4 DEF Planned
<1> QED BY <1>1, <1>6 DEF p, gs

\* The population of a plan says of which records it is, and what they were.
LEMMA PopulationIs ==
    ASSUME NEW d, NEW P,
           NEW X, X = {[record |-> r, data |-> d[r]] : r \in P}
    PROVE  /\ X = Screen!bindings(stored) => P = stored /\ \A r \in P : d[r] = data[r]
           /\ X \subseteq Screen!bindings(stored) =>
                  P \subseteq stored /\ \A r \in P : d[r] = data[r]
<1>1. Screen!bindings(stored) = {[record |-> r, data |-> data[r]] : r \in stored}
  BY DEF Screen!bindings, Screen!binding
<1>2. ASSUME X \subseteq Screen!bindings(stored), NEW r \in P PROVE r \in stored /\ d[r] = data[r]
  <2>1. [record |-> r, data |-> d[r]] \in Screen!bindings(stored)
    BY <1>2
  <2>2. PICK s \in stored : [record |-> r, data |-> d[r]] = [record |-> s, data |-> data[s]]
    BY <1>1, <2>1
  <2>3. r = s /\ d[r] = data[s]
    <3>1. [record |-> r, data |-> d[r]].record = [record |-> s, data |-> data[s]].record
      BY <2>2
    <3>2. [record |-> r, data |-> d[r]].data = [record |-> s, data |-> data[s]].data
      BY <2>2
    <3> QED BY <3>1, <3>2
  <2> QED BY <2>3
<1>3. ASSUME X = Screen!bindings(stored), NEW s \in stored PROVE s \in P
  <2>1. [record |-> s, data |-> data[s]] \in X
    BY <1>1, <1>3
  <2>2. PICK r \in P : [record |-> r, data |-> d[r]] = [record |-> s, data |-> data[s]]
    BY <2>1
  <2>3. [record |-> r, data |-> d[r]].record = [record |-> s, data |-> data[s]].record
    BY <2>2
  <2> QED BY <2>3
<1> QED BY <1>2, <1>3

\* What the group of a component takes over from a group of the plan it extends.
LEMMA ExtensionKeeps ==
    ASSUME data \in [ScreenRecords -> ScreenDatum], Screen!ScreeningConstants,
           NEW P \in SUBSET ScreenRecords,
           NEW d, NEW Q \in SUBSET P, \A r \in Q : d[r] = data[r],
           NEW previous, Components(d, Q, previous), NEW g \in previous
    PROVE  \E h \in Screen!groups(P, previous) :
               /\ g.members \subseteq h.members
               /\ g.reasons \subseteq h.reasons
               /\ h.id # g.id => "joined" \in h.reasons
<1>1. PICK q : q \in g.members
  BY DEF Components, Grouped
<1>2. q \in P /\ g.members \subseteq Q
  BY <1>1 DEF Components, Grouped
<1> DEFINE C == Screen!ComponentOf(q, P)
           h == Screen!FrozenGroup(C, previous)
           old == {x \in previous : x.members \cap C # {}}
           S == {data[r].split : r \in C}
<1>3. h \in Screen!groups(P, previous)
  BY <1>2 DEF Screen!groups
<1>4. q \in C /\ C \subseteq P /\ Closed(data, P, C)
  BY <1>2, ComponentIsLeast
<1>5. /\ h.members = C
      /\ h.id = IF old = {} THEN {Screen!Least(C)} ELSE UNION {x.id : x \in old}
      /\ h.reasons = {x \in {"joined", "split", "protected"} :
               CASE x = "joined" -> \/ Screen!Cardinality(old) > 1
                                    \/ \E y \in old : "joined" \in y.reasons
                 [] x = "split" -> Screen!Cardinality(S) > 1
                 [] x = "protected" -> \E r \in C : data[r].text \in ScreenProtected}
  BY DEF Screen!FrozenGroup
<1> HIDE DEF C, h
<1>6. g.members \subseteq C
  BY <1>1, <1>4, EarlierGroupsAreInside
<1>7. g \in old
  BY <1>1, <1>4
<1>8. S \subseteq {"train", "test"} /\ S # {}
  BY <1>4 DEF ScreenDatum
<1> HIDE DEF S, old
<1>9. /\ "joined" \in h.reasons <=> \/ Cardinality(old) > 1
                                    \/ \E y \in old : "joined" \in y.reasons
      /\ "split" \in h.reasons <=> Cardinality(S) > 1
      /\ "protected" \in h.reasons <=> \E r \in C : data[r].text \in ScreenProtected
  <2>1. Screen!Cardinality(old) = Cardinality(old) /\ Screen!Cardinality(S) = Cardinality(S)
    BY SameCardinality
  <2>2. "joined" \in h.reasons <=> \/ Screen!Cardinality(old) > 1
                                   \/ \E y \in old : "joined" \in y.reasons
    BY <1>5
  <2>3. "split" \in h.reasons <=> Screen!Cardinality(S) > 1
    BY <1>5
  <2>4. "protected" \in h.reasons <=> \E r \in C : data[r].text \in ScreenProtected
    BY <1>5
  <2> QED BY <2>1, <2>2, <2>3, <2>4
<1>10. g.reasons \subseteq h.reasons
  <2>1. g.reasons \subseteq {"joined", "split", "protected"}
    BY DEF Components, Grouped
  <2>2. "joined" \in g.reasons => "joined" \in h.reasons
    BY <1>7, <1>9
  <2>3. ASSUME "split" \in g.reasons PROVE "split" \in h.reasons
    <3>1. PICK r \in g.members, s \in g.members : d[r].split # d[s].split
      BY <2>3 DEF Components, Grouped
    <3>2. r \in C /\ s \in C /\ data[r].split # data[s].split
      BY <1>2, <1>6, <3>1
    <3>3. data[r].split \in S /\ data[s].split \in S
      BY <3>2 DEF S
    <3>4. "train" \in S /\ "test" \in S
      BY <1>8, <3>2, <3>3
    <3> QED BY <1>8, <1>9, <3>4, Splits
  <2>4. ASSUME "protected" \in g.reasons PROVE "protected" \in h.reasons
    <3>1. PICK r \in g.members : d[r].text \in ScreenProtected
      BY <2>4 DEF Components, Grouped
    <3>2. r \in C /\ data[r].text \in ScreenProtected
      BY <1>2, <1>6, <3>1
    <3> QED BY <1>9, <3>2
  <2> QED BY <2>1, <2>2, <2>3, <2>4
<1>11. ASSUME ~ (Cardinality(old) > 1) PROVE h.id = g.id
  <2>1. IsFiniteSet(old) /\ Cardinality(old) \in Nat
    BY FS_Subset, FS_CardinalityType DEF Components, old
  <2>2. Cardinality(old) # 0
    BY <1>7, <2>1, FS_EmptySet
  <2>3. Cardinality(old) = 1
    BY <1>11, <2>1, <2>2
  <2>4. old = {g}
    BY <1>7, <2>1, <2>3, FS_Singleton
  <2>5. UNION {x.id : x \in old} = g.id
    BY <2>4
  <2> QED BY <1>5, <2>4, <2>5
<1> QED BY <1>3, <1>5, <1>6, <1>9, <1>10, <1>11

\* What a first plan or an extension is, and what it takes over.
LEMMA FreezeStep ==
    ASSUME ReleaseInv, Screen!ScreeningConstants, Screen!Freeze
    PROVE  Planned(plan') /\ Screen!QuarantineStep
<1>0. data \in [ScreenRecords -> ScreenDatum] /\ stored \subseteq ScreenRecords
  BY DEF ReleaseInv
<1>1. CASE plan' = Screen!prepare(stored, Screen!NoBase)
  <2>1. Screen!NoBase.groups = {}
    BY DEF Screen!NoBase
  <2>2. PICK e : e = data
    OBVIOUS
  <2>3. Components(e, {}, Screen!NoBase.groups)
    BY <2>1, NoComponents
  <2>4. {} \in SUBSET stored /\ \A r \in {} : e[r] = data[r]
    OBVIOUS
  <2>5. PICK base : base = Screen!NoBase
    OBVIOUS
  <2>6. Planned(plan') /\ plan'.base = Screen!NoBase
    BY <1>0, <1>1, <2>3, <2>4, <2>5, PrepareIsPlanned
  <2>7. ASSUME plan'.base = Screen!Of(plan) PROVE plan.groups = {}
    BY <2>1, <2>6, <2>7 DEF Screen!Of
  <2> QED BY <2>6, <2>7 DEF Screen!QuarantineStep
<1>2. CASE /\ plan # None /\ plan.population \subseteq Screen!bindings(stored)
           /\ plan' = Screen!prepare(stored, Screen!Of(plan))
  <2>1. PICK d \in [ScreenRecords -> ScreenDatum], Q \in SUBSET ScreenRecords :
            /\ plan.population = {[record |-> r, data |-> d[r]] : r \in Q}
            /\ Components(d, Q, plan.groups)
    BY <1>2 DEF ReleaseInv, Planned
  <2>2. Q \subseteq stored /\ \A r \in Q : d[r] = data[r]
    BY <1>2, <2>1, PopulationIs
  <2>3. PICK base : base = Screen!Of(plan)
    OBVIOUS
  <2>4. base.groups = plan.groups
    BY <2>3 DEF Screen!Of
  <2>5. /\ Planned(Screen!prepare(stored, base))
        /\ Screen!prepare(stored, base).groups = Screen!groups(stored, base.groups)
    <3>1. Components(d, Q, base.groups)
      BY <2>1, <2>4
    <3>2. Q \in SUBSET stored
      BY <2>2
    <3> QED BY <1>0, <2>2, <3>1, <3>2, PrepareIsPlanned
  <2>6. Planned(plan')
    BY <1>2, <2>3, <2>5
  <2>7. plan'.groups = Screen!groups(stored, plan.groups)
    BY <1>2, <2>3, <2>4, <2>5
  <2>8. ASSUME NEW g \in plan.groups
        PROVE  \E h \in plan'.groups :
                   /\ g.members \subseteq h.members
                   /\ g.reasons \subseteq h.reasons
                   /\ h.id # g.id => "joined" \in h.reasons
    <3>1. PICK previous : previous = plan.groups
      OBVIOUS
    <3>2. PICK P : P = stored
      OBVIOUS
    <3>3. P \in SUBSET ScreenRecords /\ Q \in SUBSET P
      BY <1>0, <2>2, <3>2
    <3>4. Components(d, Q, previous) /\ g \in previous
      BY <2>1, <2>8, <3>1
    <3>5. \E h \in Screen!groups(P, previous) :
               /\ g.members \subseteq h.members
               /\ g.reasons \subseteq h.reasons
               /\ h.id # g.id => "joined" \in h.reasons
      BY <1>0, <2>2, <3>3, <3>4, ExtensionKeeps
    <3> QED BY <2>7, <3>1, <3>2, <3>5
  <2> QED BY <2>6, <2>8 DEF Screen!QuarantineStep
<1> QED BY <1>1, <1>2 DEF Screen!Freeze

\* What is acknowledged is selected, and apart from everything held out or protected.
LEMMA AcknowledgeStep ==
    ASSUME ReleaseInv, Screen!Acknowledge
    PROVE  Screen!AcknowledgedStep
<1> SUFFICES ASSUME acked' # acked
             PROVE  /\ Screen!Separated(acked' \ acked)
                    /\ \A r \in acked' \ acked : r \in stored /\ data[r].admitted
  BY DEF Screen!AcknowledgedStep
<1>1. /\ acked' = acked \cup pub.plan.eligible /\ pub.pc = "acknowledge"
      /\ Screen!bindings(stored) = pub.plan.population
  BY DEF Screen!Acknowledge, Screen!check_population
<1>2. PICK d \in [ScreenRecords -> ScreenDatum], P \in SUBSET ScreenRecords :
          /\ pub.plan.population = {[record |-> r, data |-> d[r]] : r \in P}
          /\ Components(d, P, pub.plan.groups)
          /\ \A r \in pub.plan.eligible :
                /\ r \in P /\ d[r].admitted
                /\ \E g \in pub.plan.groups : r \in g.members /\ g.reasons = {} /\ g.split = "train"
  BY <1>1 DEF ReleaseInv, Planned
<1>3. P = stored /\ \A r \in P : d[r] = data[r]
  <2>1. PICK X : X = pub.plan.population
    OBVIOUS
  <2>2. X = {[record |-> r, data |-> d[r]] : r \in P} /\ X = Screen!bindings(stored)
    BY <1>1, <1>2, <2>1
  <2> QED BY <2>2, PopulationIs
<1> DEFINE clean == {g \in pub.plan.groups : g.reasons = {} /\ g.split = "train"}
           C == UNION {g.members : g \in clean}
<1>4. \A g \in clean : /\ Grouped(d, P, g) /\ Closed(d, P, g.members)
  BY <1>2 DEF Components
<1>5. C \in SUBSET stored
  BY <1>3, <1>4 DEF Grouped
<1>6. acked' \ acked \subseteq C
  BY <1>1, <1>2
<1>7. ASSUME NEW x \in C, NEW y \in stored, Screen!Edge(x, y) PROVE y \in C
  <2>1. PICK g \in clean : x \in g.members
    OBVIOUS
  <2>2. x \in P /\ y \in P
    BY <1>3, <1>5
  <2>3. Linked(d, x, y)
    BY <1>3, <1>7, <2>2, EdgeIsLinked DEF Linked
  <2>4. y \in g.members
    BY <1>4, <2>1, <2>2, <2>3 DEF Closed
  <2> QED BY <2>1, <2>4
<1>8. ASSUME NEW x \in C PROVE data[x].split = "train" /\ data[x].text \notin ScreenProtected
  <2>1. PICK g \in clean : x \in g.members
    OBVIOUS
  <2>2. d[x].split = "train" /\ d[x].text \notin ScreenProtected
    BY <1>4, <2>1 DEF Grouped
  <2> QED BY <1>3, <1>5, <2>2
<1>9. \A r \in acked' \ acked : r \in stored /\ data[r].admitted
  BY <1>1, <1>2, <1>3
<1> HIDE DEF C
<1> QED BY <1>5, <1>6, <1>7, <1>8, <1>9 DEF Screen!Separated

\* Every step of a release, of a planner or of the store keeps what is known of the plans.
LEMMA ReleaseStep ==
    ASSUME ReleaseInv, Screen!ScreeningConstants, [Screen!Next]_Screen!vars
    PROVE  /\ ReleaseInv'
           /\ Screen!vars' # Screen!vars => Screen!AcknowledgedStep /\ Screen!QuarantineStep
<1>1. ASSUME UNCHANGED Screen!vars PROVE ReleaseInv'
  BY <1>1 DEF ReleaseInv, Screen!vars
<1>2. ASSUME Screen!Freeze
      PROVE  ReleaseInv' /\ Screen!AcknowledgedStep /\ Screen!QuarantineStep
  <2>1. Planned(plan') /\ Screen!QuarantineStep
    BY <1>2, FreezeStep
  <2>2. UNCHANGED <<data, stored, pub, acked>>
    BY <1>2 DEF Screen!Freeze, Screen!rest
  <2> QED BY <2>1, <2>2 DEF ReleaseInv, Screen!AcknowledgedStep
<1>3. ASSUME Screen!Begin \/ Screen!Validate \/ Screen!Prepare \/ Screen!Stage \/ Screen!Crash
      PROVE  ReleaseInv' /\ Screen!AcknowledgedStep /\ Screen!QuarantineStep
  <2>1. UNCHANGED <<data, stored, plan, acked>>
    BY <1>3 DEF Screen!Begin, Screen!Validate, Screen!Prepare, Screen!Stage, Screen!Crash,
                Screen!rest
  <2>2. \/ pub' = pub
        \/ pub' = Screen!Idle
        \/ \E place : pub' = [pub EXCEPT !.pc = place] /\ pub.pc # "idle"
        \/ \E found : pub' = [pc |-> "read", plan |-> plan, found |-> found] /\ plan # None
    BY <1>3 DEF Screen!Begin, Screen!Validate, Screen!Prepare, Screen!Stage, Screen!Crash,
                Screen!Goto, Screen!Refuse
  <2>3. /\ pub' = [pc |-> pub'.pc, plan |-> pub'.plan, found |-> pub'.found]
        /\ pub'.pc # "idle" => Planned(pub'.plan)
    <3>1. CASE pub' = pub
      BY <3>1 DEF ReleaseInv
    <3>2. CASE pub' = Screen!Idle
      BY <3>2 DEF Screen!Idle
    <3>3. CASE \E place : pub' = [pub EXCEPT !.pc = place] /\ pub.pc # "idle"
      <4>1. PICK place : pub' = [pub EXCEPT !.pc = place] /\ pub.pc # "idle"
        BY <3>3
      <4>2. pub' = [pc |-> place, plan |-> pub.plan, found |-> pub.found]
        BY <4>1 DEF ReleaseInv
      <4> QED BY <4>1, <4>2 DEF ReleaseInv
    <3>4. CASE \E found : pub' = [pc |-> "read", plan |-> plan, found |-> found] /\ plan # None
      BY <3>4 DEF ReleaseInv
    <3> QED BY <2>2, <3>1, <3>2, <3>3, <3>4
  <2> QED BY <2>1, <2>3 DEF ReleaseInv, Screen!AcknowledgedStep, Screen!QuarantineStep
<1>4. ASSUME Screen!Acknowledge
      PROVE  ReleaseInv' /\ Screen!AcknowledgedStep /\ Screen!QuarantineStep
  <2>1. UNCHANGED <<data, stored, plan>> /\ pub' = Screen!Idle
    BY <1>4 DEF Screen!Acknowledge, Screen!rest, Screen!Refuse
  <2>2. Screen!AcknowledgedStep
    BY <1>4, AcknowledgeStep
  <2> QED BY <2>1, <2>2 DEF ReleaseInv, Screen!Idle, Screen!QuarantineStep
<1>5. ASSUME Screen!Edit
      PROVE  ReleaseInv' /\ Screen!AcknowledgedStep /\ Screen!QuarantineStep
  <2>1. UNCHANGED <<plan, pub, acked>>
    BY <1>5 DEF Screen!Edit
  <2>2. data' \in [ScreenRecords -> ScreenDatum] /\ stored' \subseteq ScreenRecords
    <3>1. CASE \E r \in ScreenRecords \ stored : stored' = stored \cup {r} /\ UNCHANGED data
      BY <3>1 DEF ReleaseInv
    <3>2. CASE /\ \E r \in stored : \/ \E t \in ScreenTexts : data' = [data EXCEPT ![r].text = t]
                                    \/ data' = [data EXCEPT ![r].admitted = FALSE]
               /\ UNCHANGED stored
      <4>1. PICK r \in stored : \/ \E t \in ScreenTexts : data' = [data EXCEPT ![r].text = t]
                                \/ data' = [data EXCEPT ![r].admitted = FALSE]
        BY <3>2
      <4>2. data[r] \in ScreenDatum
        BY <4>1 DEF ReleaseInv
      <4>3. \A t \in ScreenTexts : [data[r] EXCEPT !.text = t] \in ScreenDatum
        BY <4>2 DEF ScreenDatum
      <4>4. [data[r] EXCEPT !.admitted = FALSE] \in ScreenDatum
        BY <4>2 DEF ScreenDatum
      <4>5. data' \in [ScreenRecords -> ScreenDatum]
        BY <4>1, <4>3, <4>4 DEF ReleaseInv
      <4> QED BY <3>2, <4>5 DEF ReleaseInv
    <3> QED BY <1>5, <3>1, <3>2 DEF Screen!Edit
  <2> QED BY <2>1, <2>2 DEF ReleaseInv, Screen!AcknowledgedStep, Screen!QuarantineStep
<1> QED BY <1>1, <1>2, <1>3, <1>4, <1>5 DEF Screen!Next

\* Before anything is frozen nothing is to be said of plans.
LEMMA ReleaseBegins == Screen!Init => ReleaseInv
<1> SUFFICES ASSUME Screen!Init PROVE ReleaseInv
  OBVIOUS
<1>1. data \in [ScreenRecords -> ScreenDatum] /\ stored \subseteq ScreenRecords
  BY DEF Screen!Init, Screen!Datum, ScreenDatum
<1>2. plan = None /\ pub = Screen!Idle
  BY DEF Screen!Init
<1> QED BY <1>1, <1>2 DEF ReleaseInv, Screen!Idle

\* Every plan that is frozen or being published is of components, whatever was edited since.
THEOREM ReleaseInvariance == ASSUME Screen!ScreeningConstants PROVE Screen!Spec => []ReleaseInv
<1>1. ReleaseInv /\ [Screen!Next]_Screen!vars => ReleaseInv'
  BY ReleaseStep
<1> QED BY <1>1, ReleaseBegins, PTL DEF Screen!Spec

\* Storage accepts every complete plan that the planner freezes.
LEMMA PlansAreWitnessed == ReleaseInv => Screen!WitnessAccepts
<1> SUFFICES ASSUME ReleaseInv, plan # None, plan.complete PROVE Screen!Witnessed(plan)
  BY DEF Screen!WitnessAccepts
<1>1. PICK d \in [ScreenRecords -> ScreenDatum], P \in SUBSET ScreenRecords :
          /\ plan.population = {[record |-> r, data |-> d[r]] : r \in P}
          /\ Components(d, P, plan.groups)
          /\ P # {}
          /\ \A r \in plan.eligible :
                \E g \in plan.groups : r \in g.members /\ g.reasons = {} /\ g.split = "train"
  BY DEF ReleaseInv, Planned
<1>2. plan.population # {}
  BY <1>1
<1>3. ASSUME NEW b \in plan.population PROVE \E g \in plan.groups : b.record \in g.members
  <2>1. PICK r \in P : b = [record |-> r, data |-> d[r]]
    BY <1>1
  <2>2. b.record = r
    BY <2>1
  <2> QED BY <1>1, <2>2 DEF Components
<1>4. ASSUME NEW g \in plan.groups, NEW h \in plan.groups, g # h
      PROVE  g.id # h.id /\ g.members \cap h.members = {}
  <2>1. g.members \cap h.members = {}
    BY <1>1, <1>4 DEF Components
  <2>2. g.id \subseteq g.members /\ g.id # {} /\ h.id \subseteq h.members
    BY <1>1 DEF Components, Grouped
  <2> QED BY <2>1, <2>2
<1> QED BY <1>1, <1>2, <1>3, <1>4 DEF Screen!Witnessed

\* What a screened release acknowledges is connected to nothing held out or protected at that
\* moment; an extension gives back nothing that was quarantined; and storage accepts every
\* complete plan (screening.rs, screened_publication.rs).
THEOREM ReleaseStaysSeparated == MCSpec => ReleaseIsSeparated
<1> DEFINE Inv == scenario = "screen" => ReleaseInv
           Step == scenario = "screen" => Screen!AcknowledgedStep /\ Screen!QuarantineStep
<1>1. MCInit => Inv
  BY ReleaseBegins DEF MCInit, ScreenInit
<1>2. ASSUME Inv, [MCNext]_MCvars PROVE Inv' /\ [Step]_screen_vars
  <2>1. CASE account_step \/ UNCHANGED MCvars
    <3>1. scenario' = scenario /\ UNCHANGED screen_vars
      BY <2>1 DEF account_step, MCvars
    <3> QED BY <1>2, <3>1 DEF screen_vars, ReleaseInv
  <2>2. CASE screen_step
    <3>1. scenario' = scenario /\ scenario = "screen" /\ Screen!Next
      BY <2>2 DEF screen_step
    <3> QED BY <1>2, <3>1, ScreenAssumption, ReleaseStep DEF screen_vars, Screen!vars
  <2> QED BY <1>2, <2>1, <2>2 DEF MCNext
<1>3. Inv => (scenario = "screen" => Screen!WitnessAccepts)
  BY PlansAreWitnessed
<1> QED BY <1>1, <1>2, <1>3, PTL DEF MCSpec, ReleaseIsSeparated
==============================================================================

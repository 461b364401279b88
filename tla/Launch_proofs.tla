--------------------------- MODULE Launch_proofs ----------------------------
(***************************************************************************)
(* Proofs about a launch, about what is shown of it and about the          *)
(* supervisor of containers: Executor, Dashboard and Sandbox, each for     *)
(* every value of its constants, and then MCLaunch, which composes them.   *)
(*                                                                         *)
(* IInv is the inductive invariant of the executor.  Driving says of a     *)
(* shard what its position tells: an item it drives is the one behind its  *)
(* cursor, and a shard that finished uncancelled has none left.  Draining  *)
(* says of the launch what it knows once all shards are joined.  The       *)
(* permits and the breaker are counts: of the shards that hold one, and of *)
(* the errored items that were counted already.                            *)
(*                                                                         *)
(* SandboxInv says which containers may be left, by where the supervisor   *)
(* is; WatchInv, that the events still in the channel lead each row of the *)
(* screen to what the ledger says.                                         *)
(***************************************************************************)
EXTENDS MCLaunch, FiniteSetTheorems, SequenceTheorems, TLAPS

\* Where the errored items of a shard are: behind it, or the one it is at.
ErroredBehind(s) ==
    /\ shard[s] = "load" => \A o \in 0 .. Items : <<s, o>> \notin errored
    /\ \A o \in 0 .. Items : <<s, o>> \in errored => o <= offset[s]
    /\ shard[s] \in {"loop", "acquire", "process"} =>
          \A o \in 0 .. Items : <<s, o>> \in errored => o < offset[s]

\* Where a shard is determines its item, and what its cursor says of it.
Driving(s) ==
    /\ shard[s] \in Running \cup {"loop"} => offset[s] = cursor[s]
    /\ shard[s] \in Running => offset[s] < Items
    /\ shard[s] = "counting" => outcome[s] = "AllErrored"
    /\ ~ cancelled /\ shard[s] \in {"finished", "joined"} => cursor[s] = Items
    /\ ErroredBehind(s)

\* Where the launch is determines what its shards have come to.
Draining ==
    /\ pc \in {"finalize", "report", "failing"} => \A s \in Shards : shard[s] = "joined"
    /\ pc \in {"finalize", "report"} /\ ~ halted => \A s \in Shards : cursor[s] = Items
    /\ CompletedMeansDrained

\* The shards that hold a permit.
Holders == {s \in Shards : shard[s] = "process"}

\* The shards whose errored item the breaker has not counted yet.
Uncounted == {s \in Shards : /\ shard[s] \in {"judged health", "counting"}
                             /\ outcome[s] = "AllErrored"}

\* Every park the breaker counted is an errored item of its own.
Counted == parks + Cardinality(Uncounted) <= Cardinality(errored)

\* The inductive invariant of the executor.
IInv == /\ PermitsConserved /\ Draining /\ Counted /\ TripHasCause
        /\ \A s \in Shards : Driving(s)

-----------------------------------------------------------------------------
(* What a step of a shard can do                                           *)

\* Everything but the shard itself, and the memory it shares.
OwnStep(s) ==
    /\ pc = "shards" /\ UNCHANGED <<status, published, launches, pc, failure, halted>>
    /\ \E to \in ShardState : shard' = [shard EXCEPT ![s] = to]
    /\ \A t \in Shards : t # s =>
          cursor'[t] = cursor[t] /\ offset'[t] = offset[t] /\ outcome'[t] = outcome[t]
    /\ cancelled => cancelled'
    /\ errored' \in {errored, errored \cup {<<s, offset[s]>>}}

\* A shard moves only itself.
LEMMA ShardMovesItself ==
    ASSUME TypeOK, NEW s \in Shards, RunShard(s)
    PROVE  OwnStep(s)
<1>1. PICK from \in ShardState, to \in ShardState : Step(s, from, to)
  BY DEF RunShard, Load, NextItem, Acquire, ProcessItem, ObserveFirst, ObserveSecond,
         CommitCursor, ShardState, Running
<1>2. \A t \in Shards : t # s =>
          cursor'[t] = cursor[t] /\ offset'[t] = offset[t] /\ outcome'[t] = outcome[t]
  BY DEF RunShard, Load, NextItem, Acquire, ProcessItem, ObserveFirst, ObserveSecond,
         CommitCursor, TypeOK
<1>3. (cancelled => cancelled') /\ errored' \in {errored, errored \cup {<<s, offset[s]>>}}
  BY DEF RunShard, Load, NextItem, Acquire, ProcessItem, ObserveFirst, ObserveSecond,
         CommitCursor, TypeOK
<1> QED BY <1>1, <1>2, <1>3 DEF OwnStep, Step

\* The shards and the items of a run are finitely many.
LEMMA Finite ==
    ASSUME TypeOK
    PROVE  /\ IsFiniteSet(Holders) /\ IsFiniteSet(Uncounted) /\ IsFiniteSet(errored)
           /\ Cardinality(Holders) \in Nat /\ Cardinality(Uncounted) \in Nat
           /\ Cardinality(errored) \in Nat
<1>1. IsFiniteSet(Shards) /\ Items \in Nat
  BY ExecutorAssumption
<1>2. IsFiniteSet(0 .. Items)
  BY <1>1, FS_Interval
<1>3. IsFiniteSet(Shards \X (0 .. Items))
  BY <1>1, <1>2, FS_Product
<1>4. IsFiniteSet(errored)
  BY <1>3, FS_Subset DEF TypeOK
<1>5. Holders \in SUBSET Shards /\ Uncounted \in SUBSET Shards
  BY DEF Holders, Uncounted
<1>6. IsFiniteSet(Holders) /\ IsFiniteSet(Uncounted)
  BY <1>1, <1>5, FS_Subset
<1> QED BY <1>4, <1>6, FS_CardinalityType

-----------------------------------------------------------------------------
(* The permits                                                             *)

\* The shape of every variable but the permits.
TypeButPermits ==
    /\ cursor \in [Shards -> 0 .. Items] /\ offset \in [Shards -> 0 .. Items]
    /\ status \in {None, "running", "halted", "completed", "failed"}
    /\ published \in BOOLEAN /\ cancelled \in BOOLEAN /\ failure \in BOOLEAN
    /\ halted \in BOOLEAN /\ disarmed \in BOOLEAN
    /\ launches \in Nat /\ parks \in Nat
    /\ pc \in {"down", "shards", "finalize", "report", "failing"}
    /\ shard \in [Shards -> ShardState]
    /\ outcome \in [Shards -> {None, "Decided", "AllErrored"}]
    /\ errored \subseteq Shards \X (0 .. Items)

\* Every variable but the permits keeps its shape; a permit may not, before it is counted.
LEMMA TypeStep ==
    ASSUME TypeOK, \A s \in Shards : Driving(s), [Next]_vars
    PROVE  TypeButPermits'
<1> USE DEF TypeButPermits
<1>1. CASE UNCHANGED vars
  BY <1>1 DEF vars, durable, breaker, TypeOK
<1>2. CASE Launch
  <2>1. 0 \in 0 .. Items /\ launches + 1 \in Nat
    BY ExecutorAssumption DEF TypeOK
  <2> QED BY <1>2, <2>1 DEF Launch, TypeOK, ShardState, breaker
<1>3. CASE Crash \/ Cancel
  BY <1>3 DEF Crash, Cancel, TypeOK, durable, breaker
<1>4. ASSUME NEW s \in Shards, RunShard(s) PROVE TypeButPermits'
  <2>1. OwnStep(s)
    BY <1>4, ShardMovesItself DEF PermitsConserved
  <2>2. /\ shard' \in [Shards -> ShardState]
        /\ UNCHANGED <<status, published, launches, pc, failure, halted>>
    BY <2>1 DEF OwnStep, TypeOK
  <2>3. cancelled' \in BOOLEAN /\ disarmed' \in BOOLEAN
        /\ outcome' \in [Shards -> {None, "Decided", "AllErrored"}]
    BY <1>4 DEF RunShard, Load, NextItem, Acquire, ProcessItem, ObserveFirst, ObserveSecond,
                CommitCursor, TypeOK, breaker
  <2>4. parks' \in Nat
    <3>1. parks' \in {parks, 0, parks + 1}
      BY <1>4 DEF RunShard, Load, NextItem, Acquire, ProcessItem, ObserveFirst, ObserveSecond,
                  CommitCursor, breaker
    <3>2. parks \in Nat
      BY DEF TypeOK
    <3> QED BY <3>1, <3>2
  <2>5. errored' \subseteq Shards \X (0 .. Items)
    BY <2>1 DEF OwnStep, TypeOK
  <2>6. cursor' \in [Shards -> 0 .. Items] /\ offset' \in [Shards -> 0 .. Items]
    <3>1. CASE Load(s)
      BY <3>1 DEF Load, TypeOK
    <3>2. CASE NextItem(s) \/ Acquire(s) \/ ProcessItem(s) \/ ObserveFirst(s) \/ ObserveSecond(s)
      BY <3>2 DEF NextItem, Acquire, ProcessItem, ObserveFirst, ObserveSecond, TypeOK
    <3>3. CASE CommitCursor(s)
      <4>1. shard[s] = "commit" /\ offset[s] < Items
        BY <3>3 DEF CommitCursor, Step, Driving, Running
      <4>2. offset[s] + 1 \in 0 .. Items
        BY <4>1, ExecutorAssumption DEF TypeOK
      <4> QED BY <3>3, <4>2 DEF CommitCursor, TypeOK
    <3> QED BY <1>4, <3>1, <3>2, <3>3 DEF RunShard
  <2> QED BY <2>2, <2>3, <2>4, <2>5, <2>6 DEF TypeOK
<1>5. ASSUME NEW s \in Shards, Join(s) PROVE TypeButPermits'
  BY <1>5 DEF Join, TypeOK, ShardState, durable, breaker
<1>6. CASE AllJoined \/ ExportShard \/ SetRunStatus \/ MarkRunFailed
  BY <1>6 DEF AllJoined, ExportShard, SetRunStatus, MarkRunFailed, Finish, TypeOK,
              durable, breaker
<1> QED BY <1>1, <1>2, <1>3, <1>4, <1>5, <1>6 DEF Next, Drive

\* A permit is held exactly by the shards that process an item.
LEMMA PermitStep ==
    ASSUME PermitsConserved, \A s \in Shards : Driving(s), [Next]_vars
    PROVE  PermitsConserved'
<1>1. TypeOK /\ permits + Cardinality(Holders) = MaxInFlight /\ MaxInFlight \in Nat
      /\ permits \in Nat /\ IsFiniteSet(Holders) /\ Cardinality(Holders) \in Nat
      /\ shard \in [Shards -> ShardState]
  BY Finite, ExecutorAssumption DEF PermitsConserved, Holders, TypeOK
<1>2. TypeButPermits'
  BY <1>1, TypeStep
<1>3. ASSUME permits' \in Nat, Holders' \subseteq Shards,
             permits' + Cardinality(Holders') = MaxInFlight
      PROVE  PermitsConserved'
  <2>1. IsFiniteSet(Holders')
    BY <1>3, FS_Subset, ExecutorAssumption
  <2>2. Cardinality(Holders') \in Nat
    BY <2>1, FS_CardinalityType
  <2>3. permits' \in 0 .. MaxInFlight
    BY <1>1, <1>3, <2>2
  <2> QED BY <1>2, <1>3, <2>3 DEF PermitsConserved, TypeOK, TypeButPermits, Holders
<1>4. Holders' \subseteq Shards
  BY DEF Holders
<1>5. CASE permits' = permits /\ Holders' = Holders
  BY <1>1, <1>3, <1>4, <1>5
<1>6. CASE Launch
  <2>1. Holders' = {} /\ permits' = MaxInFlight
    BY <1>6 DEF Launch, Holders
  <2> QED BY <1>1, <1>3, <1>4, <2>1, FS_EmptySet
<1>7. CASE UNCHANGED vars \/ Crash \/ Cancel \/ AllJoined \/ ExportShard \/ SetRunStatus
           \/ MarkRunFailed
  <2>1. permits' = permits /\ shard' = shard
    BY <1>7 DEF vars, Crash, Cancel, AllJoined, ExportShard, SetRunStatus, MarkRunFailed, Finish
  <2> QED BY <1>5, <2>1 DEF Holders
<1>8. ASSUME NEW s \in Shards, Join(s) PROVE PermitsConserved'
  <2>1. permits' = permits /\ shard' = [shard EXCEPT ![s] = "joined"] /\ shard[s] # "process"
    BY <1>8 DEF Join
  <2>2. Holders' = Holders
    BY <1>1, <2>1 DEF Holders
  <2> QED BY <1>5, <2>1, <2>2
<1>9. ASSUME NEW s \in Shards, RunShard(s) PROVE PermitsConserved'
  <2>1. ASSUME NEW from, NEW to, from # "process", to # "process",
               shard[s] = from, shard' = [shard EXCEPT ![s] = to], permits' = permits
        PROVE  PermitsConserved'
    <3>1. Holders' = Holders
      BY <1>1, <2>1 DEF Holders
    <3> QED BY <1>5, <2>1, <3>1
  <2>2. CASE Load(s) \/ NextItem(s) \/ ObserveFirst(s) \/ ObserveSecond(s) \/ CommitCursor(s)
    BY <2>1, <2>2 DEF Load, NextItem, ObserveFirst, ObserveSecond, CommitCursor, Step
  <2>3. CASE Acquire(s)
    <3>1. CASE Step(s, "acquire", "finished") /\ UNCHANGED permits
      BY <2>1, <3>1 DEF Step
    <3>2. CASE permits > 0 /\ Step(s, "acquire", "process") /\ permits' = permits - 1
      <4>1. Holders' = Holders \cup {s} /\ s \notin Holders
        BY <1>1, <3>2 DEF Step, Holders
      <4>2. Cardinality(Holders') = Cardinality(Holders) + 1
        BY <1>1, <4>1, FS_AddElement
      <4> QED BY <1>1, <1>3, <1>4, <3>2, <4>2
    <3> QED BY <2>3, <3>1, <3>2 DEF Acquire
  <2>4. CASE ProcessItem(s)
    <3>1. PICK to \in ShardState \ {"process"} : Step(s, "process", to)
      BY <2>4 DEF ProcessItem, ShardState, Running
    <3>2. Holders' = Holders \ {s} /\ s \in Holders
      BY <1>1, <3>1 DEF Step, Holders
    <3>3. Cardinality(Holders') = Cardinality(Holders) - 1
      BY <1>1, <3>2, FS_RemoveElement
    <3>4. permits' = permits + 1
      BY <2>4 DEF ProcessItem
    <3> QED BY <1>1, <1>3, <1>4, <3>3, <3>4
  <2> QED BY <1>9, <2>2, <2>3, <2>4 DEF RunShard
<1> QED BY <1>6, <1>7, <1>8, <1>9 DEF Next, Drive

-----------------------------------------------------------------------------
(* The shards                                                              *)

\* A step of another shard, and one of no shard, leaves a shard where it is.
LEMMA NotDriven ==
    ASSUME NEW s \in Shards, Driving(s),
           shard'[s] = shard[s], offset'[s] = offset[s], cursor'[s] = cursor[s],
           outcome'[s] = outcome[s], cancelled => cancelled',
           \A o \in 0 .. Items : <<s, o>> \in errored' <=> <<s, o>> \in errored
    PROVE  Driving(s)'
BY DEF Driving, ErroredBehind

\* Every step takes a shard, its item and its cursor along together.
LEMMA DrivingStep ==
    ASSUME TypeOK, \A s \in Shards : Driving(s), [Next]_vars, NEW s \in Shards
    PROVE  Driving(s)'
<1>1. /\ cursor \in [Shards -> 0 .. Items] /\ offset \in [Shards -> 0 .. Items]
      /\ shard \in [Shards -> ShardState] /\ Items \in Nat
      /\ outcome \in [Shards -> {None, "Decided", "AllErrored"}]
      /\ cancelled \in BOOLEAN /\ errored \subseteq Shards \X (0 .. Items)
  BY ExecutorAssumption DEF TypeOK
<1>2. Driving(s)
  OBVIOUS
<1>3. CASE \/ UNCHANGED vars \/ Crash \/ Cancel \/ AllJoined \/ ExportShard \/ SetRunStatus
           \/ MarkRunFailed
  <2>1. UNCHANGED <<cursor, shard, offset, outcome, errored>> /\ (cancelled => cancelled')
    <3>1. CASE UNCHANGED vars
      BY <3>1 DEF vars, durable
    <3>2. CASE Crash \/ Cancel \/ AllJoined
      BY <3>2 DEF durable, Crash, Cancel, AllJoined
    <3>3. CASE ExportShard \/ SetRunStatus \/ MarkRunFailed
      <4>1. PICK label : Finish(label)
        BY <3>3 DEF ExportShard, SetRunStatus, MarkRunFailed
      <4> QED BY <4>1 DEF Finish
    <3> QED BY <1>3, <3>1, <3>2, <3>3
  <2> QED BY <2>1, NotDriven
<1>4. CASE Launch
  BY <1>4 DEF Launch, Driving, ErroredBehind, Running
<1>5. ASSUME NEW t \in Shards, Join(t) PROVE Driving(s)'
  <2>1. CASE s # t
    BY <1>1, <1>5, <2>1, NotDriven DEF Join, durable
  <2>2. CASE s = t
    <3>1. /\ UNCHANGED <<cursor, offset, errored>> /\ shard'[s] = "joined"
          /\ ~ cancelled' => ~ cancelled /\ shard[s] = "finished"
      BY <1>1, <1>5, <2>2 DEF Join, durable
    <3> QED BY <1>2, <3>1 DEF Driving, ErroredBehind, Running
  <2> QED BY <2>1, <2>2
<1>6. ASSUME NEW t \in Shards, RunShard(t), s # t PROVE Driving(s)'
  <2>1. OwnStep(t)
    BY <1>6, ShardMovesItself
  <2>2. \A o \in 0 .. Items : <<s, o>> \in errored' <=> <<s, o>> \in errored
    BY <1>6, <2>1 DEF OwnStep
  <2>3. shard'[s] = shard[s]
    BY <1>1, <1>6, <2>1 DEF OwnStep
  <2> QED BY <1>6, <2>1, <2>2, <2>3, NotDriven DEF OwnStep
<1>7. ASSUME NEW from, NEW to, Step(s, from, to) PROVE shard[s] = from /\ shard'[s] = to
  BY <1>1, <1>7 DEF Step
<1>8. CASE RunShard(s)
  <2>1. CASE Load(s)
    <3>1. /\ shard[s] = "load" /\ UNCHANGED <<cursor, cancelled, errored>>
          /\ \/ shard'[s] = "loop" /\ offset'[s] = cursor[s]
             \/ shard'[s] = "failed" /\ offset' = offset
      BY <1>1, <1>7, <2>1 DEF Load
    <3> QED BY <1>2, <3>1 DEF Driving, ErroredBehind, Running
  <2>2. CASE NextItem(s)
    <3>1. /\ shard[s] = "loop" /\ UNCHANGED <<cursor, offset, cancelled, errored>>
          /\ \/ shard'[s] = "finished" /\ (offset[s] = Items \/ cancelled)
             \/ shard'[s] = "acquire" /\ offset[s] < Items
      BY <1>7, <2>2 DEF NextItem
    <3> QED BY <1>2, <3>1 DEF Driving, ErroredBehind, Running
  <2>3. CASE Acquire(s)
    <3>1. /\ shard[s] = "acquire" /\ UNCHANGED <<cursor, offset, cancelled, errored>>
          /\ (shard'[s] = "finished" /\ cancelled) \/ shard'[s] = "process"
      BY <1>7, <2>3 DEF Acquire
    <3> QED BY <1>2, <3>1 DEF Driving, ErroredBehind, Running
  <2>4. CASE ProcessItem(s)
    <3>1. /\ shard[s] = "process" /\ UNCHANGED <<cursor, offset>>
          /\ \/ shard'[s] = "judged health" /\ UNCHANGED cancelled
             \/ shard'[s] = "finished" /\ cancelled'
             \/ shard'[s] = "failed"
          /\ errored' = errored \/ errored' = errored \cup {<<s, offset[s]>>}
      BY <1>1, <1>7, <2>4 DEF ProcessItem
    <3>2. ASSUME NEW o \in 0 .. Items, <<s, o>> \in errored' PROVE o <= offset[s]
      <4>1. o = offset[s] \/ <<s, o>> \in errored
        <5>1. <<s, o>> \in errored \/ <<s, o>> = <<s, offset[s]>>
          BY <3>1, <3>2
        <5> QED BY <5>1
      <4>2. offset[s] <= offset[s]
        BY <1>1
      <4> QED BY <1>2, <4>1, <4>2 DEF Driving, ErroredBehind
    <3> QED BY <1>2, <3>1, <3>2 DEF Driving, ErroredBehind, Running
  <2>5. CASE ObserveFirst(s)
    <3>1. /\ shard[s] = "judged health" /\ UNCHANGED <<cursor, offset, outcome, cancelled, errored>>
          /\ \/ shard'[s] \in {"disarming", "commit"}
             \/ shard'[s] = "counting" /\ outcome[s] = "AllErrored"
      BY <1>7, <2>5 DEF ObserveFirst
    <3> QED BY <1>2, <3>1 DEF Driving, ErroredBehind, Running
  <2>6. CASE ObserveSecond(s)
    <3>1. /\ shard[s] \in {"disarming", "counting"}
          /\ UNCHANGED <<cursor, offset, outcome, cancelled, errored>>
          /\ shard'[s] \in {"commit", "tripped"}
      BY <1>7, <2>6 DEF ObserveSecond
    <3> QED BY <1>2, <3>1 DEF Driving, ErroredBehind, Running
  <2>7. CASE CommitCursor(s)
    <3>1. CASE Step(s, "commit", "failed") /\ UNCHANGED <<cursor, offset, errored, cancelled>>
      <4>1. /\ shard[s] = "commit" /\ shard'[s] = "failed"
            /\ UNCHANGED <<cursor, offset, errored>>
        BY <1>7, <3>1
      <4> QED BY <1>2, <4>1 DEF Driving, ErroredBehind, Running
    <3>2. CASE /\ Step(s, "commit", "loop") /\ UNCHANGED <<errored, cancelled>>
               /\ cursor' = [cursor EXCEPT ![s] = offset[s] + 1]
               /\ offset' = [offset EXCEPT ![s] = offset[s] + 1]
      <4>1. /\ shard'[s] = "loop" /\ cursor'[s] = offset[s] + 1 /\ offset'[s] = offset[s] + 1
            /\ errored' = errored /\ offset[s] \in Nat
        BY <1>1, <1>7, <3>2
      <4>2. \A o \in 0 .. Items : <<s, o>> \in errored => o < offset[s] + 1
        BY <1>1, <1>2, <4>1 DEF Driving, ErroredBehind
      <4>3. \A o \in 0 .. Items : o < offset[s] + 1 => o <= offset[s] + 1
        BY <1>1, <4>1
      <4> QED BY <4>1, <4>2, <4>3 DEF Driving, ErroredBehind, Running
    <3> QED BY <2>7, <3>1, <3>2 DEF CommitCursor
  <2> QED BY <1>8, <2>1, <2>2, <2>3, <2>4, <2>5, <2>6, <2>7 DEF RunShard
<1> QED BY <1>3, <1>4, <1>5, <1>6, <1>8 DEF Next, Drive

\* A cursor moves only when a shard commits the item it is at, the one behind the cursor.
LEMMA CursorMoves ==
    ASSUME TypeOK, \A s \in Shards : Driving(s), [Next]_vars,
           NEW s \in Shards, cursor'[s] # cursor[s]
    PROVE  /\ cursor'[s] = cursor[s] + 1 /\ cursor[s] # Items
           /\ shard[s] = "commit" /\ offset[s] = cursor[s] /\ pc = "shards"
           /\ UNCHANGED <<status, published>>
<1>1. PICK t \in Shards : CommitCursor(t)
  BY DEF Next, Drive, RunShard, Load, NextItem, Acquire, ProcessItem, ObserveFirst,
         ObserveSecond, Join, AllJoined, ExportShard, SetRunStatus, MarkRunFailed, Finish,
         Launch, Crash, Cancel, vars, durable
<1>2. cursor \in [Shards -> 0 .. Items] /\ Items \in Nat
  BY ExecutorAssumption DEF TypeOK
<1>3. s = t /\ cursor'[s] = offset[s] + 1 /\ Step(s, "commit", "loop")
  BY <1>1, <1>2 DEF CommitCursor
<1>4. shard[s] = "commit" /\ pc = "shards" /\ UNCHANGED <<status, published>>
  BY <1>3 DEF Step
<1>5. offset[s] = cursor[s] /\ offset[s] < Items
  BY <1>4 DEF Driving, Running
<1>6. cursor[s] # Items
  BY <1>2, <1>5
<1> QED BY <1>3, <1>4, <1>5, <1>6

-----------------------------------------------------------------------------
(* The launch                                                              *)

\* What the launch knows after the joins stays so, and what was completed stays drained.
LEMMA DrainingStep ==
    ASSUME TypeOK, \A s \in Shards : Driving(s), Draining, [Next]_vars
    PROVE  Draining'
<1>1. /\ cursor \in [Shards -> 0 .. Items] /\ Items \in Nat
      /\ None \notin {"running", "halted", "completed", "failed"}
      /\ shard \in [Shards -> ShardState] /\ published \in BOOLEAN
  BY ExecutorAssumption DEF TypeOK
<1>2. (\A s \in Shards : cursor[s] = Items) => \A s \in Shards : cursor'[s] = Items
  BY CursorMoves
<1>3. CASE UNCHANGED vars \/ Crash \/ Cancel
  <2>1. /\ UNCHANGED <<status, published, cursor, shard, halted>>
        /\ pc' = pc \/ pc' = "down"
    BY <1>3 DEF vars, durable, Crash, Cancel
  <2> QED BY <2>1 DEF Draining, CompletedMeansDrained
<1>4. CASE Launch
  <2>1. pc' = "shards" /\ status' = "running" /\ UNCHANGED <<cursor, published>>
    BY <1>4 DEF Launch
  <2> QED BY <2>1 DEF Draining, CompletedMeansDrained
<1>5. ASSUME NEW s \in Shards, RunShard(s) PROVE Draining'
  <2>1. pc' = "shards" /\ UNCHANGED <<status, published>>
    BY <1>5, ShardMovesItself DEF OwnStep
  <2> QED BY <1>2, <2>1 DEF Draining, CompletedMeansDrained
<1>6. ASSUME NEW s \in Shards, Join(s) PROVE Draining'
  <2>1. pc' = "shards" /\ UNCHANGED <<status, published, cursor>>
    BY <1>6 DEF Join, durable
  <2> QED BY <2>1 DEF Draining, CompletedMeansDrained
<1>7. CASE AllJoined
  <2>1. /\ \A s \in Shards : shard[s] = "joined"
        /\ UNCHANGED <<status, published, cursor, shard>>
        /\ pc' = "failing" \/ (pc' = "finalize" /\ halted' = cancelled)
    BY <1>7 DEF AllJoined, durable
  <2>2. ~ cancelled => \A s \in Shards : cursor[s] = Items
    BY <2>1 DEF Driving
  <2> QED BY <2>1, <2>2 DEF Draining, CompletedMeansDrained
<1>8. CASE ExportShard
  <2>1. /\ pc = "finalize" /\ UNCHANGED <<status, cursor, shard, halted>>
        /\ pc' \in {"report", "failing"} /\ (published' = published \/ ~ halted)
    BY <1>1, <1>8 DEF ExportShard, Finish
  <2> QED BY <2>1 DEF Draining, CompletedMeansDrained
<1>9. CASE SetRunStatus
  <2>1. /\ pc = "report" /\ UNCHANGED <<published, cursor, shard, halted>>
        /\ pc' \in {"down", "failing"}
        /\ status' = status \/ status' = "halted" \/ (status' = "completed" /\ ~ halted)
    BY <1>9 DEF SetRunStatus, Finish
  <2> QED BY <2>1 DEF Draining, CompletedMeansDrained
<1>10. CASE MarkRunFailed
  <2>1. /\ UNCHANGED <<published, cursor, shard, halted>>
        /\ pc' = "down" /\ status' \in {status, "failed"}
    BY <1>10 DEF MarkRunFailed, Finish
  <2> QED BY <2>1 DEF Draining, CompletedMeansDrained
<1> QED BY <1>3, <1>4, <1>5, <1>6, <1>7, <1>8, <1>9, <1>10 DEF Next, Drive

-----------------------------------------------------------------------------
(* The breaker                                                             *)

\* The breaker counts an errored item once, and only after it is one.
LEMMA CountedStep ==
    ASSUME TypeOK, \A s \in Shards : Driving(s), Counted, TripHasCause, [Next]_vars
    PROVE  Counted' /\ TripHasCause'
<1>1. /\ IsFiniteSet(Uncounted) /\ Cardinality(Uncounted) \in Nat
      /\ IsFiniteSet(errored) /\ Cardinality(errored) \in Nat
      /\ parks \in Nat /\ Threshold \in Nat \ {0}
      /\ shard \in [Shards -> ShardState] /\ offset \in [Shards -> 0 .. Items]
      /\ outcome \in [Shards -> {None, "Decided", "AllErrored"}]
      /\ errored \subseteq Shards \X (0 .. Items)
      /\ parks + Cardinality(Uncounted) <= Cardinality(errored)
  BY Finite, ExecutorAssumption DEF TypeOK, Counted
<1>2. ASSUME Uncounted' = Uncounted, parks' = parks \/ parks' = 0, errored' = errored,
             \A s \in Shards : shard'[s] = "tripped" => shard[s] = "tripped"
      PROVE  Counted' /\ TripHasCause'
  <2>1. Counted'
    <3>1. CASE parks' = parks
      BY <1>2, <3>1 DEF Counted
    <3>2. CASE parks' = 0
      BY <1>1, <1>2, <3>2 DEF Counted
    <3> QED BY <1>2, <3>1, <3>2
  <2> QED BY <1>2, <2>1 DEF TripHasCause
<1>3. CASE UNCHANGED vars \/ Crash \/ Cancel \/ AllJoined \/ ExportShard \/ SetRunStatus
           \/ MarkRunFailed
  <2>1. UNCHANGED <<parks, errored, shard, outcome>>
    <3>1. CASE UNCHANGED vars
      BY <3>1 DEF vars, breaker
    <3>2. CASE Crash \/ Cancel \/ AllJoined
      BY <3>2 DEF Crash, Cancel, AllJoined, breaker
    <3>3. CASE ExportShard \/ SetRunStatus \/ MarkRunFailed
      BY <3>3 DEF ExportShard, SetRunStatus, MarkRunFailed, Finish, breaker
    <3> QED BY <1>3, <3>1, <3>2, <3>3
  <2>2. Uncounted' = Uncounted
    BY <2>1 DEF Uncounted
  <2> QED BY <2>1, <2>2 DEF Counted, TripHasCause
<1>4. CASE Launch
  <2>1. /\ parks' = 0 /\ errored' = {} /\ Uncounted' = {}
        /\ \A s \in Shards : shard'[s] = "load"
    BY <1>4 DEF Launch, Uncounted
  <2> QED BY <2>1, FS_EmptySet DEF Counted, TripHasCause
<1>5. ASSUME NEW s \in Shards, Join(s) PROVE Counted' /\ TripHasCause'
  <2>1. /\ UNCHANGED <<parks, errored, outcome>> /\ shard' = [shard EXCEPT ![s] = "joined"]
        /\ shard[s] \in {"finished", "failed", "tripped"}
    BY <1>5 DEF Join, breaker
  <2>2. Uncounted' = Uncounted
    BY <1>1, <2>1 DEF Uncounted
  <2> QED BY <1>1, <1>2, <2>1, <2>2
<1>6. ASSUME NEW s \in Shards, RunShard(s) PROVE Counted' /\ TripHasCause'
  <2>1. ASSUME NEW to \in ShardState \ {"judged health", "counting", "tripped"},
               shard' = [shard EXCEPT ![s] = to], outcome' = outcome,
               shard[s] \notin {"judged health", "counting"},
               parks' = parks \/ parks' = 0, errored' = errored
        PROVE  Counted' /\ TripHasCause'
    <3>1. Uncounted' = Uncounted
      BY <1>1, <2>1 DEF Uncounted
    <3> QED BY <1>1, <1>2, <2>1, <3>1
  <2>2. CASE Load(s) \/ NextItem(s) \/ Acquire(s) \/ CommitCursor(s)
    BY <2>1, <2>2 DEF Load, NextItem, Acquire, CommitCursor, Step, ShardState, Running, breaker
  <2>3. CASE ProcessItem(s)
    <3>0. shard[s] = "process" /\ parks' = parks
      BY <2>3 DEF ProcessItem, Step, breaker
    <3>1. CASE (Step(s, "process", "finished") \/ Step(s, "process", "failed"))
               /\ UNCHANGED <<outcome, errored>>
      BY <2>1, <3>0, <3>1 DEF Step, ShardState, Running
    <3>2. CASE /\ Step(s, "process", "judged health") /\ errored' = errored
               /\ outcome' = [outcome EXCEPT ![s] = "Decided"]
      <4>1. Uncounted' = Uncounted
        BY <1>1, <3>0, <3>2 DEF Uncounted, Step
      <4>2. \A t \in Shards : shard'[t] = "tripped" => shard[t] = "tripped"
        BY <1>1, <3>2 DEF Step
      <4> QED BY <1>2, <3>0, <3>2, <4>1, <4>2
    <3>3. CASE /\ Step(s, "process", "judged health")
               /\ errored' = errored \cup {<<s, offset[s]>>}
               /\ outcome' = [outcome EXCEPT ![s] = "AllErrored"]
      <4>1. Uncounted' = Uncounted \cup {s} /\ s \notin Uncounted
        BY <1>1, <3>0, <3>3 DEF Uncounted, Step
      <4>2. <<s, offset[s]>> \notin errored
        <5>1. ~ (offset[s] < offset[s]) /\ offset[s] \in 0 .. Items
          BY <1>1, ExecutorAssumption
        <5> QED BY <3>0, <5>1 DEF Driving, ErroredBehind
      <4>3. /\ Cardinality(Uncounted') = Cardinality(Uncounted) + 1
            /\ Cardinality(errored') = Cardinality(errored) + 1
        BY <1>1, <3>3, <4>1, <4>2, FS_AddElement
      <4>4. \A t \in Shards : shard'[t] = "tripped" => shard[t] = "tripped"
        BY <1>1, <3>3 DEF Step
      <4>5. Counted'
        BY <1>1, <3>0, <4>3 DEF Counted
      <4>6. TripHasCause'
        BY <1>1, <4>3, <4>4 DEF TripHasCause
      <4> QED BY <4>5, <4>6
    <3> QED BY <2>3, <3>1, <3>2, <3>3 DEF ProcessItem
  <2>4. CASE ObserveFirst(s)
    <3>0. UNCHANGED <<outcome, parks, errored>> /\ shard[s] = "judged health"
      BY <2>4 DEF ObserveFirst, Step
    <3>1. CASE outcome[s] = "Decided" /\ Step(s, "judged health", "disarming")
      <4>1. Uncounted' = Uncounted
        BY <1>1, <3>0, <3>1 DEF Uncounted, Step
      <4>2. \A t \in Shards : shard'[t] = "tripped" => shard[t] = "tripped"
        BY <1>1, <3>1 DEF Step
      <4> QED BY <1>2, <3>0, <4>1, <4>2
    <3>2. CASE Step(s, "judged health", "commit")
      <4>1. Uncounted' = Uncounted \ {s}
        BY <1>1, <3>0, <3>2 DEF Uncounted, Step
      <4>2. Cardinality(Uncounted') <= Cardinality(Uncounted) /\ Cardinality(Uncounted') \in Nat
        <5>1. Uncounted' \in SUBSET Uncounted
          BY <4>1
        <5>2. IsFiniteSet(Uncounted') /\ Cardinality(Uncounted') <= Cardinality(Uncounted)
          BY <1>1, <5>1, FS_Subset
        <5> QED BY <5>2, FS_CardinalityType
      <4>3. \A t \in Shards : shard'[t] = "tripped" => shard[t] = "tripped"
        BY <1>1, <3>2 DEF Step
      <4>4. Counted'
        <5>1. parks' = parks /\ Cardinality(errored') = Cardinality(errored)
          BY <3>0
        <5>2. parks + Cardinality(Uncounted') <= parks + Cardinality(Uncounted)
          BY <1>1, <4>2
        <5> QED BY <1>1, <4>2, <5>1, <5>2 DEF Counted
      <4> QED BY <3>0, <4>3, <4>4 DEF TripHasCause
    <3>3. CASE outcome[s] = "AllErrored" /\ Step(s, "judged health", "counting")
      <4>1. Uncounted' = Uncounted
        BY <1>1, <3>0, <3>3 DEF Uncounted, Step
      <4>2. \A t \in Shards : shard'[t] = "tripped" => shard[t] = "tripped"
        BY <1>1, <3>3 DEF Step
      <4> QED BY <1>2, <3>0, <4>1, <4>2
    <3> QED BY <2>4, <3>1, <3>2, <3>3 DEF ObserveFirst
  <2>5. CASE ObserveSecond(s)
    <3>0. UNCHANGED <<outcome, errored>>
      BY <2>5 DEF ObserveSecond
    <3>1. CASE Step(s, "disarming", "commit") /\ parks' = 0
      BY <2>1, <3>0, <3>1 DEF Step, ShardState, Running
    <3>2. CASE /\ parks' = parks + 1
               /\ \/ Step(s, "counting", "commit")
                  \/ parks + 1 >= Threshold /\ Step(s, "counting", "tripped")
      <4>1. shard[s] = "counting" /\ s \in Uncounted /\ Uncounted' = Uncounted \ {s}
        BY <1>1, <3>0, <3>2 DEF Uncounted, Step, Driving
      <4>2. Cardinality(Uncounted') = Cardinality(Uncounted) - 1 /\ Cardinality(Uncounted') \in Nat
        BY <1>1, <4>1, FS_RemoveElement, FS_CardinalityType
      <4>3. Counted'
        BY <1>1, <3>0, <3>2, <4>2 DEF Counted
      <4>4. ASSUME NEW t \in Shards, shard'[t] = "tripped"
            PROVE  shard[t] = "tripped" \/ parks + 1 >= Threshold
        BY <1>1, <3>2, <4>4 DEF Step
      <4>5. parks + 1 >= Threshold => Cardinality(errored') >= Threshold
        BY <1>1, <3>0, <4>2
      <4> QED BY <3>0, <4>3, <4>4, <4>5 DEF TripHasCause
    <3> QED BY <2>5, <3>1, <3>2 DEF ObserveSecond
  <2> QED BY <1>6, <2>2, <2>3, <2>4, <2>5 DEF RunShard
<1> QED BY <1>3, <1>4, <1>5, <1>6 DEF Next, Drive

-----------------------------------------------------------------------------
(* The launch as a whole                                                   *)

\* Nothing is committed, held or counted before the first launch.
LEMMA InitIInv == Init => IInv
<1> SUFFICES ASSUME Init PROVE IInv
  OBVIOUS
<1>1. /\ Items \in Nat /\ MaxInFlight \in Nat
      /\ None \notin {"running", "halted", "completed", "failed"}
  BY ExecutorAssumption
<1>2. Holders = {} /\ Uncounted = {} /\ errored = {} /\ parks = 0 /\ permits = MaxInFlight
  BY DEF Init, Holders, Uncounted
<1>3. TypeOK
  <2>1. 0 \in 0 .. Items /\ MaxInFlight \in 0 .. MaxInFlight
    BY <1>1
  <2> QED BY <2>1 DEF Init, TypeOK, ShardState
<1>4. PermitsConserved
  BY <1>1, <1>2, <1>3, FS_EmptySet DEF PermitsConserved, Holders
<1>5. Counted
  BY <1>2, FS_EmptySet DEF Counted
<1>6. Draining /\ TripHasCause
  BY <1>1 DEF Init, Draining, CompletedMeansDrained, TripHasCause
<1>7. \A s \in Shards : Driving(s)
  BY DEF Init, Driving, ErroredBehind, Running
<1> QED BY <1>4, <1>5, <1>6, <1>7 DEF IInv

\* Cursors, permits, the breaker and the status of a run stay in step with the shards, over
\* every crash and relaunch.
THEOREM Invariance == Spec => []IInv
<1>1. IInv /\ [Next]_vars => IInv'
  BY PermitStep, DrivingStep, DrainingStep, CountedStep DEF IInv, PermitsConserved
<1> QED BY InitIInv, <1>1, PTL DEF Spec

\* No permit is lost on any path of an item, a run is completed or published only when every
\* shard drained, and the breaker trips only on parks of its own launch.
THEOREM Sound == Spec => []LaunchIsSound
<1>1. IInv => LaunchIsSound
  BY DEF IInv, Draining, LaunchIsSound
<1> QED BY Invariance, <1>1, PTL

\* A terminal status follows the last write of every shard, and a cursor only ever steps to
\* the next item.
THEOREM MovesForward == Spec => LaunchMovesForward
<1> DEFINE Drained == status' # status /\ status' # "running" =>
                         \A s \in Shards : shard[s] = "joined"
           Steps == \A s \in Shards : cursor'[s] # cursor[s] =>
                       /\ cursor'[s] = cursor[s] + 1
                       /\ shard[s] = "commit" /\ offset[s] = cursor[s]
<1>1. ASSUME IInv, [Next]_vars PROVE Steps
  BY <1>1, CursorMoves DEF IInv, PermitsConserved
<1>2. ASSUME IInv, [Next]_vars, status' # status, status' # "running"
      PROVE  \A s \in Shards : shard[s] = "joined"
  <2>1. pc \in {"report", "failing"}
    <3>1. SetRunStatus \/ MarkRunFailed
      BY <1>2 DEF Next, Drive, RunShard, Load, NextItem, Acquire, ProcessItem, ObserveFirst,
                  ObserveSecond, CommitCursor, Step, Join, AllJoined, ExportShard,
                  Launch, Crash, Cancel, vars, durable
    <3> QED BY <3>1 DEF SetRunStatus, MarkRunFailed
  <2> QED BY <1>2, <2>1 DEF IInv, Draining
<1>3. IInv /\ [Next]_vars => [Drained]_vars /\ [Steps]_vars
  BY <1>1, <1>2
<1> QED BY Invariance, <1>3, PTL DEF Spec, LaunchMovesForward, DrainBeforeStatus, CursorSteps

------------------------------------------------------------------------------
(* The supervisor of containers (Sandbox).                                 *)

\* How a case may end, in an answer or by a stop, and what is remembered of it.
Exits == {"Matched", "WrongResult", "InvalidOutput", "CandidateExit", "OutputLimit",
          "Infrastructure", "collected"}
Stops == {"Cancelled", "Infrastructure", "OutputLimit", "WallLimit"}
CaseRecord == [reason : Exits \cup Stops \cup {"NotRun"}, settled : BOOLEAN,
               began : BOOLEAN, known : BOOLEAN, result : BOOLEAN]
OwnedRecord == [known : BOOLEAN, acked : BOOLEAN, started : BOOLEAN, began : BOOLEAN,
                stop : Stops \cup {None}, output : Exits \cup {None}, settled : BOOLEAN]
RowRecord == [representation : {"Module", "Unsupported", "Unknown"},
              outcome : {"Unknown", "Failed", "Passed"},
              reason : {"native", "unsupported_representation", "generation_unknown",
                        "cancelled", "infrastructure"},
              cases : Seq(CaseRecord)]

\* Where a container is created and run, where it is removed, and where it is settled.
Creation == {"create", "validate", "start", "exec"}
Removal == {"inspect_owned", "force", "absent"}
Settling == {"drain", "again", "classify"}
Active == Creation \cup Removal \cup Settling

\* The containers a supervisor may make: of each row a probe and its cases.
Boxes == (1 .. SandboxRows) \X (0 .. SandboxCases)
\* What the variables of the supervisor hold.
SupervisorType ==
    /\ sandbox_pc \in Active \cup {"row", "connect", "case", "done"}
    /\ row \in Nat /\ case \in Nat
    /\ owned \in OwnedRecord
    /\ boxes \subseteq Boxes /\ late \subseteq Boxes
    /\ runnable \in BOOLEAN /\ probed \in BOOLEAN
    /\ cases \in Seq(CaseRecord) /\ sandbox_rows \in Seq(RowRecord)

\* There is a container of case n of row r, or there may still be one.
Left(r, n) == <<r, n>> \in boxes \cup late

\* How far the report is: a row per row that ended, an observation per case.
RowsCounted ==
    /\ row >= 1 /\ Len(sandbox_rows) = row - 1
    /\ sandbox_pc # "done" => row <= SandboxRows
    /\ sandbox_pc \notin Active \cup {"case"} => cases = <<>>
    /\ sandbox_pc \in Active => case <= SandboxCases
       /\ Len(cases) = IF case = 0 THEN 0 ELSE case - 1
    /\ sandbox_pc = "case" => case >= 1 /\ case <= SandboxCases + 1 /\ Len(cases) = case - 1

\* Containers are of cases that were begun; only one while one is created or removed,
\* and none when the next may be.
Placed ==
    \A r, n \in Nat : Left(r, n) =>
        /\ r <= row
        /\ r = row => /\ sandbox_pc \in Active => n = case
                      /\ sandbox_pc = "case" => n < case /\ ~ runnable
                      /\ sandbox_pc \in Active \cup {"case"}

\* What the supervisor knows of the container it owns.
Owning ==
    /\ sandbox_pc = "create" => owned = Supervisor!Fresh /\ Supervisor!Me \notin boxes \cup late
    /\ sandbox_pc \in {"validate", "start", "exec"} => Supervisor!Me \notin late
    /\ sandbox_pc \in Active /\ Supervisor!Me \in late => ~ owned.acked
    /\ sandbox_pc \in Settling /\ owned.settled => Supervisor!Me \notin boxes \cup late
    /\ sandbox_pc \in {"start", "exec"} => owned.known
    /\ owned.output # None /\ owned.output \in {"Matched", "WrongResult"} => owned.known

\* A probe that was settled left nothing, and one that was not fails the first case.
Probed ==
    sandbox_pc = "case" =>
        /\ cases = <<>> /\ probed => ~ Left(row, 0)
        /\ cases # <<>> /\ (\A n \in DOMAIN cases : cases[n].settled) => ~ Left(row, 0)

\* What the report says of this row, and of the rows before it.
Observing ==
    \A n \in DOMAIN cases : /\ cases[n].settled => ~ Left(row, n)
                            /\ Supervisor!validate_case(cases[n])
\* What the report says of the rows that ended.
Reported ==
    \A r \in DOMAIN sandbox_rows :
        /\ \A n \in DOMAIN sandbox_rows[r].cases :
              sandbox_rows[r].cases[n].settled => ~ Left(r, n)
        /\ sandbox_rows[r].outcome # "Unknown" => \A n \in 0 .. SandboxCases : ~ Left(r, n)
        /\ Supervisor!validate_row(sandbox_rows[r])

\* The inductive invariant of the supervisor.
SandboxInv == SupervisorType /\ RowsCounted /\ Placed /\ Owning /\ Probed /\ Observing /\ Reported

\* The fields of what is known of an owned container, and of what becomes of it.
LEMMA OwnedRecords ==
    ASSUME NEW o \in OwnedRecord
    PROVE  /\ o.known \in BOOLEAN /\ o.acked \in BOOLEAN /\ o.started \in BOOLEAN
           /\ o.began \in BOOLEAN /\ o.settled \in BOOLEAN
           /\ o.stop \in Stops \cup {None} /\ o.output \in Exits \cup {None}
           /\ \A b \in BOOLEAN : /\ [o EXCEPT !.acked = b] \in OwnedRecord
                                /\ [o EXCEPT !.known = b] \in OwnedRecord
                                /\ [o EXCEPT !.started = b] \in OwnedRecord
                                /\ [o EXCEPT !.began = b] \in OwnedRecord
                                /\ [o EXCEPT !.settled = b] \in OwnedRecord
           /\ \A s \in Stops \cup {None} : [o EXCEPT !.stop = s] \in OwnedRecord
           /\ \A s \in Exits \cup {None} : [o EXCEPT !.output = s] \in OwnedRecord
BY DEF OwnedRecord

\* The reason a case ended for is one of those.
LEMMA Reasons ==
    ASSUME NEW o \in OwnedRecord
    PROVE  Supervisor!reason_of(o) \in Exits \cup Stops \cup {"NotRun"}
BY OwnedRecords DEF Supervisor!reason_of, Exits, Stops

\* The outcome of the cases of a row is one of three.
LEMMA Outcomes == ASSUME NEW cs PROVE Supervisor!outcome(cs) \in {"Unknown", "Failed", "Passed"}
BY DEF Supervisor!outcome

\* The container that is handled is one of this row and case.
LEMMA MeIsABox ==
    ASSUME Supervisor!SandboxConstants, SupervisorType, RowsCounted, sandbox_pc \in Active
    PROVE  Supervisor!Me \in Boxes /\ row \in 1 .. SandboxRows /\ case \in 0 .. SandboxCases
BY DEF Supervisor!SandboxConstants, SupervisorType, RowsCounted, Active, Boxes, Supervisor!Me,
       Creation, Removal, Settling

\* Where a supervisor may be.
Place == Active \cup {"row", "connect", "case", "done"}

\* A row that ends is reported as it was told, and the next row begins.
LEMMA Ending ==
    ASSUME Supervisor!SandboxConstants, SupervisorType, RowsCounted, sandbox_pc # "done",
           NEW representation \in {"Module", "Unsupported", "Unknown"},
           NEW result \in {"Unknown", "Failed", "Passed"},
           NEW reason \in {"native", "unsupported_representation", "generation_unknown",
                           "cancelled", "infrastructure"},
           NEW observed \in Seq(CaseRecord),
           Supervisor!EndRow(representation, result, reason, observed)
    PROVE  /\ sandbox_pc' \in {"row", "done"} /\ row' \in Nat /\ row' = row + 1
           /\ sandbox_pc' = "row" => row' <= SandboxRows
           /\ cases' = <<>> /\ cases' \in Seq(CaseRecord)
           /\ sandbox_rows' \in Seq(RowRecord)
           /\ Len(sandbox_rows') = Len(sandbox_rows) + 1 /\ DOMAIN sandbox_rows' = 1 .. row'-1
           /\ \A r \in DOMAIN sandbox_rows : r <= row - 1 /\ sandbox_rows'[r] = sandbox_rows[r]
           /\ sandbox_rows'[row] = [representation |-> representation, outcome |-> result,
                            reason |-> reason, cases |-> observed]
<1> DEFINE new == [representation |-> representation, outcome |-> result,
                   reason |-> reason, cases |-> observed]
<1>1. new \in RowRecord
  BY DEF RowRecord
<1>2. sandbox_rows' = Append(sandbox_rows, new) /\ sandbox_rows \in Seq(RowRecord)
        /\ Len(sandbox_rows) = row - 1 /\ row \in Nat
  BY DEF Supervisor!EndRow, SupervisorType, RowsCounted
<1> HIDE DEF new
<1>3. /\ sandbox_rows' \in Seq(RowRecord) /\ Len(sandbox_rows') = Len(sandbox_rows) + 1
      /\ \A r \in 1 .. Len(sandbox_rows) : sandbox_rows'[r] = sandbox_rows[r]
      /\ sandbox_rows'[Len(sandbox_rows) + 1] = new
  BY <1>1, <1>2, AppendProperties
<1>4. /\ sandbox_pc' \in {"row", "done"} /\ row' = row + 1 /\ row <= SandboxRows
         /\ (sandbox_pc' = "row" => row # SandboxRows) /\ cases' = <<>>
  BY DEF Supervisor!EndRow, RowsCounted
<1>5. cases' \in Seq(CaseRecord)
  BY <1>4
<1>6. DOMAIN sandbox_rows' = 1 .. row' - 1
  BY <1>2, <1>3, <1>4
<1>7. \A r \in DOMAIN sandbox_rows : r \in 1 .. Len(sandbox_rows) /\ r <= row - 1
        /\ sandbox_rows'[r] = sandbox_rows[r]
  BY <1>2, <1>3
<1>8. Len(sandbox_rows) + 1 = row
  BY <1>2
<1> QED BY <1>2, <1>3, <1>4, <1>5, <1>6, <1>7, <1>8 DEF Supervisor!SandboxConstants, new

\* The actions that create, run and remove one container.
Handling ==
    \/ Supervisor!Create \/ Supervisor!Validate \/ Supervisor!Start \/ Supervisor!Exec
    \/ Supervisor!InspectOwned \/ Supervisor!Force \/ Supervisor!Absent \/ Supervisor!Drain
    \/ Supervisor!Again

\* What handling a container leaves as it was, and where it leads.
LEMMA HandlingSteps ==
    ASSUME Supervisor!SandboxConstants, SupervisorType, RowsCounted, Handling
    PROVE  /\ sandbox_pc \in Active \ {"classify"} /\ sandbox_pc' \in Active \ {"create"}
           /\ owned' \in OwnedRecord
           /\ boxes' \cup late' \subseteq boxes \cup late \cup {Supervisor!Me}
           /\ boxes' \subseteq Boxes /\ late' \subseteq Boxes
           /\ UNCHANGED <<row, case, runnable, probed, budget, sandbox_cancelled, cases,
                          sandbox_rows>>
<1>1. (owned \in OwnedRecord /\ Supervisor!Me \in Boxes) \/ sandbox_pc \notin Active
  BY MeIsABox DEF SupervisorType
<1> DEFINE Goal == /\ sandbox_pc \in Active \ {"classify"} /\ sandbox_pc' \in Active \ {"create"}
                   /\ owned' \in OwnedRecord
                   /\ boxes' \cup late' \subseteq boxes \cup late \cup {Supervisor!Me}
                   /\ boxes' \subseteq Boxes /\ late' \subseteq Boxes
<1> USE DEF Active, Creation, Removal, Settling
<1>2. ASSUME NEW o \in OwnedRecord, Supervisor!GiveUp(o)
      PROVE  sandbox_pc' = "inspect_owned" /\ owned' \in OwnedRecord
  <2>1. (IF Supervisor!Stopped THEN "Cancelled" ELSE "Infrastructure") \in Stops \cup {None}
    BY DEF Stops
  <2>2. \A s \in Stops \cup {None} : [o EXCEPT !.stop = s] \in OwnedRecord
    BY OwnedRecords
  <2>3. sandbox_pc' = "inspect_owned"
          /\ owned' = [o EXCEPT !.stop = IF Supervisor!Stopped THEN "Cancelled"
             ELSE "Infrastructure"]
    BY <1>2 DEF Supervisor!GiveUp, Supervisor!Step
  <2> HIDE DEF Active
  <2> QED BY <2>1, <2>2, <2>3, Zenon
<1>3. \A b \in BOOLEAN : Supervisor!Removed(b) /\ owned \in OwnedRecord =>
          sandbox_pc' \in {"drain", "classify"} /\ owned' \in OwnedRecord
  BY OwnedRecords DEF Supervisor!Removed, Supervisor!Step
<1>4. boxes \subseteq Boxes /\ late \subseteq Boxes
  BY DEF SupervisorType
<1>5. ASSUME Supervisor!Create PROVE Goal
  <2>1. [owned EXCEPT !.acked = FALSE] \in OwnedRecord
    BY <1>1, <1>5, OwnedRecords DEF Supervisor!Create
  <2> QED BY <2>1, <1>1, <1>2, <1>4, <1>5 DEF Supervisor!Create, Supervisor!Step
<1>6. ASSUME Supervisor!Validate PROVE Goal
  <2>1. [owned EXCEPT !.known = TRUE] \in OwnedRecord
    BY <1>1, <1>6, OwnedRecords DEF Supervisor!Validate
  <2>2. [owned EXCEPT !.known = TRUE, !.acked = FALSE] \in OwnedRecord
    BY <1>1, <1>6 DEF Supervisor!Validate, OwnedRecord
  <2> QED BY <2>1, <2>2, <1>1, <1>2, <1>4, <1>6 DEF Supervisor!Validate, Supervisor!Step
<1>7. ASSUME Supervisor!Start PROVE Goal
  <2>1. [owned EXCEPT !.acked = TRUE] \in OwnedRecord
    BY <1>1, <1>7, OwnedRecords DEF Supervisor!Start
  <2>2. [owned EXCEPT !.acked = TRUE, !.started = TRUE] \in OwnedRecord
    BY <1>1, <1>7 DEF Supervisor!Start, OwnedRecord
  <2> QED BY <2>1, <2>2, <1>1, <1>2, <1>4, <1>7 DEF Supervisor!Start, Supervisor!Step
<1>8. ASSUME Supervisor!Exec PROVE Goal
  <2>1. owned \in OwnedRecord
    BY <1>1, <1>8 DEF Supervisor!Exec
  <2>2. /\ [owned EXCEPT !.started = FALSE] \in OwnedRecord
        /\ [owned EXCEPT !.output = "Infrastructure"] \in OwnedRecord
    BY <2>1, OwnedRecords DEF Exits
  <2>3. \A reason \in Exits : [owned EXCEPT !.began = TRUE, !.output = reason] \in OwnedRecord
    BY <2>1 DEF OwnedRecord
  <2>4. /\ \A stop \in Stops, began \in BOOLEAN :
              [owned EXCEPT !.stop = stop, !.began = began] \in OwnedRecord
    BY <2>1 DEF OwnedRecord
  <2>5. sandbox_pc' = "inspect_owned" /\ UNCHANGED <<boxes, late>>
    BY <1>8 DEF Supervisor!Exec, Supervisor!Step, Supervisor!GiveUp
  <2>6. owned' \in OwnedRecord
    BY <1>8, <1>2, <2>2, <2>3, <2>4 DEF Supervisor!Exec, Supervisor!Step, Exits, Stops
  <2> QED BY <2>5, <2>6, <1>4, <1>8 DEF Supervisor!Exec
<1>9. ASSUME Supervisor!InspectOwned \/ Supervisor!Force \/ Supervisor!Absent PROVE Goal
  <2>1. owned \in OwnedRecord /\ owned.acked \in BOOLEAN
    BY <1>1, <1>9, OwnedRecords DEF Supervisor!InspectOwned, Supervisor!Force, Supervisor!Absent
  <2>2. (Supervisor!Me \notin boxes /\ owned.acked) \in BOOLEAN
    OBVIOUS
  <2>3. CASE Supervisor!InspectOwned
    BY <2>1, <2>3, <1>3, <1>4 DEF Supervisor!InspectOwned
  <2>4. CASE Supervisor!Force
    BY <2>1, <2>4, <1>3, <1>4 DEF Supervisor!Force
  <2>5. CASE Supervisor!Absent
    BY <2>1, <2>2, <2>5, <1>3, <1>4 DEF Supervisor!Absent
  <2> QED BY <2>3, <2>4, <2>5, <1>9
<1>10. ASSUME Supervisor!Drain PROVE Goal
  <2>1. owned \in OwnedRecord
    BY <1>1, <1>10 DEF Supervisor!Drain
  <2>2. [owned EXCEPT !.output = IF @ = None THEN "collected" ELSE @] \in OwnedRecord
    BY <2>1 DEF OwnedRecord, Exits
  <2>3. [owned EXCEPT !.output = None, !.stop = "Infrastructure"] \in OwnedRecord
    BY <2>1 DEF OwnedRecord, Stops
  <2>4. \A collected \in BOOLEAN :
            [owned EXCEPT !.settled = FALSE,
                          !.output = IF collected THEN "collected" ELSE None,
                          !.stop = IF collected THEN @ ELSE "Infrastructure"] \in OwnedRecord
    BY <2>1 DEF OwnedRecord, Stops, Exits
  <2> QED BY <2>2, <2>3, <2>4, <1>4, <1>10 DEF Supervisor!Drain, Supervisor!Step
<1>11. ASSUME Supervisor!Again PROVE Goal
  <2>1. owned \in OwnedRecord
    BY <1>1, <1>11 DEF Supervisor!Again
  <2>2. \A answered \in BOOLEAN :
            [owned EXCEPT !.settled = @ /\ answered /\ Supervisor!Me \notin boxes] \in OwnedRecord
    BY <2>1 DEF OwnedRecord
  <2> QED BY <2>2, <1>4, <1>11 DEF Supervisor!Again, Supervisor!Step
<1>12. Supervisor!Steady
  <2>1. CASE Supervisor!Create \/ Supervisor!Validate \/ Supervisor!Start
    BY <2>1 DEF Supervisor!Create, Supervisor!Validate, Supervisor!Start
  <2>2. CASE Supervisor!Exec
    BY <2>2 DEF Supervisor!Exec
  <2>3. CASE Supervisor!InspectOwned \/ Supervisor!Force \/ Supervisor!Absent
    BY <2>3 DEF Supervisor!InspectOwned, Supervisor!Force, Supervisor!Absent
  <2>4. CASE Supervisor!Drain \/ Supervisor!Again
    BY <2>4 DEF Supervisor!Drain, Supervisor!Again
  <2> QED BY <2>1, <2>2, <2>3, <2>4 DEF Handling
<1> QED BY <1>5, <1>6, <1>7, <1>8, <1>9, <1>10, <1>11, <1>12 DEF Handling, Supervisor!Steady

\* While a container is handled, nothing else of the report or the daemon changes.
LEMMA HandlingKeepsReport ==
    ASSUME Supervisor!SandboxConstants, SandboxInv, Handling
    PROVE  (SupervisorType /\ RowsCounted /\ Placed /\ Probed /\ Observing /\ Reported)'
<1>1. /\ sandbox_pc \in Active \ {"classify"} /\ sandbox_pc' \in Active \ {"create"}
      /\ owned' \in OwnedRecord
      /\ boxes' \cup late' \subseteq boxes \cup late \cup {Supervisor!Me}
      /\ boxes' \subseteq Boxes /\ late' \subseteq Boxes
      /\ UNCHANGED <<row, case, runnable, probed, budget, sandbox_cancelled, cases, sandbox_rows>>
  BY HandlingSteps DEF SandboxInv
<1>2. row \in 1 .. SandboxRows /\ case \in 0 .. SandboxCases
  BY <1>1, MeIsABox DEF SandboxInv
<1>3. \A r, n \in Nat : Left(r, n)' => Left(r, n) \/ (r = row /\ n = case)
  BY <1>1 DEF Left, Supervisor!Me
<1>4. SupervisorType'
  BY <1>1 DEF SandboxInv, SupervisorType
<1>5. RowsCounted'
  BY <1>1 DEF SandboxInv, RowsCounted, Active, Creation, Removal, Settling
<1>6. Placed'
  BY <1>1, <1>2, <1>3 DEF SandboxInv, Placed, Active, Creation, Removal, Settling
<1>7. Probed'
  BY <1>1 DEF Probed, Active, Creation, Removal, Settling
<1>8. cases \in Seq(CaseRecord) /\ sandbox_rows \in Seq(RowRecord) /\ Len(sandbox_rows) = row - 1
      /\ Len(cases) = IF case = 0 THEN 0 ELSE case - 1
  BY <1>1 DEF SandboxInv, SupervisorType, RowsCounted
<1>9. Observing'
  <2>1. \A n \in DOMAIN cases : n \in Nat /\ n # case
    BY <1>8, <1>2
  <2> QED BY <2>1, <1>1, <1>2, <1>3 DEF SandboxInv, Observing
<1>10. Reported'
  <2>0. \A r \in DOMAIN sandbox_rows : r \in Nat /\ r # row /\ sandbox_rows[r] \in RowRecord
    BY <1>8, <1>2
  <2>1. \A r \in DOMAIN sandbox_rows : r \in Nat /\ r # row
          /\ sandbox_rows[r].cases \in Seq(CaseRecord)
    BY <2>0 DEF RowRecord
  <2>2. \A r \in DOMAIN sandbox_rows : \A n \in DOMAIN sandbox_rows[r].cases : n \in Nat
    BY <2>1
  <2>3. \A n \in 0 .. SandboxCases : n \in Nat
    BY DEF Supervisor!SandboxConstants
  <2> QED BY <2>1, <2>2, <2>3, <1>1, <1>2, <1>3 DEF SandboxInv, Reported
<1> QED BY <1>4, <1>5, <1>6, <1>7, <1>9, <1>10

\* What is known of the container follows the answers of the daemon.
LEMMA HandlingKeepsOwning ==
    ASSUME Supervisor!SandboxConstants, SandboxInv, Handling
    PROVE  Owning'
<1>1. /\ sandbox_pc \in Active \ {"classify"} /\ sandbox_pc' \in Active \ {"create"}
      /\ UNCHANGED <<row, case, runnable, probed, budget, sandbox_cancelled, cases, sandbox_rows>>
      /\ Supervisor!Me' = Supervisor!Me /\ owned \in OwnedRecord
  BY HandlingSteps DEF SandboxInv, Supervisor!Me, SupervisorType
<1>2. Owning
  BY DEF SandboxInv
<1> USE DEF Active, Creation, Removal, Settling
<1>3. ASSUME NEW o \in OwnedRecord, Supervisor!GiveUp(o)
      PROVE  /\ sandbox_pc' = "inspect_owned" /\ owned'.acked = o.acked
             /\ owned'.output = o.output /\ owned'.known = o.known
  BY <1>3 DEF Supervisor!GiveUp, Supervisor!Step, OwnedRecord
<1>4. ASSUME NEW b, Supervisor!Removed(b)
      PROVE  /\ sandbox_pc' \in {"drain", "classify"} /\ owned'.acked = owned.acked
                /\ owned'.settled = b
             /\ owned'.output = owned.output /\ owned'.known = owned.known
  BY <1>1, <1>4 DEF Supervisor!Removed, Supervisor!Step, OwnedRecord
<1>5. ASSUME Supervisor!Create PROVE Owning'
  <2>1. /\ [owned EXCEPT !.acked = FALSE] \in OwnedRecord
        /\ [owned EXCEPT !.acked = FALSE].acked = FALSE
        /\ [owned EXCEPT !.acked = FALSE].output = owned.output
        /\ [owned EXCEPT !.acked = FALSE].known = owned.known
    BY <1>1 DEF OwnedRecord
  <2>2. sandbox_pc = "create" /\ Supervisor!Me \notin boxes \cup late /\ owned = Supervisor!Fresh
    BY <1>2, <1>5 DEF Owning, Supervisor!Create
  <2>3. \/ sandbox_pc' = "validate" /\ owned' = owned /\ late' = late
        \/ /\ sandbox_pc' = "inspect_owned" /\ owned'.acked = FALSE
           /\ owned'.output = owned.output /\ owned'.known = owned.known
        \/ /\ sandbox_pc' = "inspect_owned" /\ UNCHANGED <<boxes, late>>
           /\ owned'.output = owned.output /\ owned'.known = owned.known
    BY <1>1, <1>3, <1>5, <2>1 DEF Supervisor!Create, Supervisor!Step
  <2> QED BY <1>1, <1>2, <2>2, <2>3 DEF Owning
<1>6. ASSUME Supervisor!Validate PROVE Owning'
  <2>1. /\ [owned EXCEPT !.known = TRUE] \in OwnedRecord
        /\ [owned EXCEPT !.known = TRUE].known
        /\ [owned EXCEPT !.known = TRUE, !.acked = FALSE].known
    BY <1>1 DEF OwnedRecord
  <2>2. Supervisor!Me \notin late /\ UNCHANGED <<boxes, late>>
    BY <1>2, <1>6 DEF Owning, Supervisor!Validate
  <2>3. \/ sandbox_pc' = "start" /\ owned'.known
        \/ sandbox_pc' = "inspect_owned" /\ owned'.known
        \/ sandbox_pc' = "inspect_owned" /\ owned'.output = owned.output
           /\ owned'.known = owned.known
    BY <1>1, <1>3, <1>6, <2>1 DEF Supervisor!Validate, Supervisor!Step
  <2> QED BY <1>1, <1>2, <2>2, <2>3 DEF Owning
<1>7. ASSUME Supervisor!Start PROVE Owning'
  <2>1. /\ [owned EXCEPT !.acked = TRUE] \in OwnedRecord
        /\ [owned EXCEPT !.acked = TRUE].known = owned.known
        /\ [owned EXCEPT !.acked = TRUE, !.started = TRUE].known = owned.known
    BY <1>1 DEF OwnedRecord
  <2>2. Supervisor!Me \notin late /\ UNCHANGED <<boxes, late>> /\ owned.known
    BY <1>2, <1>7 DEF Owning, Supervisor!Start
  <2>3. sandbox_pc' \in {"exec", "inspect_owned"} /\ owned'.known
    BY <1>1, <1>3, <1>7, <2>1, <2>2 DEF Supervisor!Start, Supervisor!Step
  <2> QED BY <1>1, <1>2, <2>2, <2>3 DEF Owning
<1>8. ASSUME Supervisor!Exec PROVE Owning'
  <2>1. Supervisor!Me \notin late /\ UNCHANGED <<boxes, late>> /\ owned.known
    BY <1>2, <1>8 DEF Owning, Supervisor!Exec
  <2>2. [owned EXCEPT !.started = FALSE] \in OwnedRecord
        /\ [owned EXCEPT !.started = FALSE].known = owned.known
    BY <1>1 DEF OwnedRecord
  <2>3. sandbox_pc' = "inspect_owned" /\ owned'.known
    BY <1>1, <1>3, <1>8, <2>1, <2>2 DEF Supervisor!Exec, Supervisor!Step, OwnedRecord
  <2> QED BY <1>1, <1>2, <2>1, <2>3 DEF Owning
<1>9. ASSUME Supervisor!InspectOwned PROVE Owning'
  BY <1>1, <1>2, <1>4, <1>9 DEF Supervisor!InspectOwned, Owning
<1>10. ASSUME Supervisor!Force PROVE Owning'
  BY <1>1, <1>2, <1>4, <1>10 DEF Supervisor!Force, Owning
<1>11. ASSUME Supervisor!Absent PROVE Owning'
  BY <1>1, <1>2, <1>4, <1>11 DEF Supervisor!Absent, Owning
<1>12. ASSUME Supervisor!Drain PROVE Owning'
  <2>1. /\ sandbox_pc = "drain" /\ sandbox_pc' = "again" /\ UNCHANGED <<boxes, late>>
        /\ owned'.acked = owned.acked /\ owned'.known = owned.known
        /\ owned'.settled => owned.settled
    BY <1>1, <1>12 DEF Supervisor!Drain, Supervisor!Step, OwnedRecord
  <2>2. owned'.output \in {owned.output, "collected", None}
    BY <1>1, <1>12 DEF Supervisor!Drain, Supervisor!Step, OwnedRecord
  <2> QED BY <1>1, <1>2, <2>1, <2>2 DEF Owning
<1>13. ASSUME Supervisor!Again PROVE Owning'
  <2>1. /\ sandbox_pc = "again" /\ sandbox_pc' = "classify" /\ UNCHANGED <<boxes, late>>
        /\ owned'.acked = owned.acked /\ owned'.known = owned.known
        /\ owned'.settled => owned.settled
        /\ owned'.output = owned.output
    BY <1>1, <1>13 DEF Supervisor!Again, Supervisor!Step, OwnedRecord
  <2> QED BY <1>1, <1>2, <2>1 DEF Owning
<1> QED BY <1>5, <1>6, <1>7, <1>8, <1>9, <1>10, <1>11, <1>12, <1>13 DEF Handling

\* The container of the last case is settled or not, and so is what the report says of it.
LEMMA ClassifyKeeps == ASSUME Supervisor!SandboxConstants, SandboxInv, Supervisor!Classify
    PROVE  SandboxInv'
<1> DEFINE reason == Supervisor!reason_of(owned)
           new == [reason |-> reason, settled |-> owned.settled, began |-> owned.began,
                   known |-> owned.known, result |-> reason \in {"Matched", "WrongResult"}]
<1>1. /\ sandbox_pc = "classify" /\ sandbox_pc' = "case" /\ case' = case + 1
      /\ UNCHANGED <<row, owned, boxes, late, budget, sandbox_cancelled, sandbox_rows>>
      /\ runnable' \in BOOLEAN
      /\ runnable' => owned.settled
      /\ case = 0 => probed' = owned.settled /\ cases' = cases
      /\ case # 0 => cases' = Append(cases, new) /\ probed' = probed
  BY DEF Supervisor!Classify
<1>2. /\ owned \in OwnedRecord /\ cases \in Seq(CaseRecord) /\ case \in 0 .. SandboxCases
         /\ row \in 1 .. SandboxRows
      /\ Len(cases) = IF case = 0 THEN 0 ELSE case - 1
  BY <1>1, MeIsABox DEF SandboxInv, SupervisorType, RowsCounted, Active, Settling
<1>3. reason \in Exits \cup Stops
  BY <1>2, OwnedRecords DEF Supervisor!reason_of, Exits, Stops
<1>4. new \in CaseRecord
  BY <1>2, <1>3, OwnedRecords DEF CaseRecord
<1>5. owned.settled => ~ Left(row, case)
  BY <1>1 DEF SandboxInv, Owning, Left, Supervisor!Me, Settling
<1>6. \A r, n \in Nat : Left(r, n)' <=> Left(r, n)
  BY <1>1 DEF Left
<1>7. \A n \in Nat : Left(row, n) => n = case
  BY <1>1, <1>2 DEF SandboxInv, Placed, Active, Settling
<1>8. Supervisor!validate_case(new)
  <2>1. reason \in {"Matched", "WrongResult"} => owned.output = reason /\ owned.output # None
    BY <1>2, <1>3, OwnedRecords DEF Supervisor!reason_of, Stops
  <2>2. reason \in {"Matched", "WrongResult"} => owned.known
    BY <2>1 DEF SandboxInv, Owning
  <2>3. reason # "NotRun"
    BY <1>3 DEF Exits, Stops
  <2> QED BY <2>2, <2>3 DEF Supervisor!validate_case
<1> HIDE DEF new, reason
<1>9. /\ cases' \in Seq(CaseRecord) /\ Len(cases') = case
      /\ case = 0 => cases' = <<>>
      /\ case # 0 => /\ \A n \in 1 .. case - 1 : cases'[n] = cases[n]
                     /\ cases'[case] = new
                     /\ cases' # <<>>
  <2>1. CASE case = 0
    BY <1>1, <1>2, <2>1, EmptySeq
  <2>2. CASE case # 0
    BY <1>1, <1>2, <1>4, <2>2, AppendProperties
  <2> QED BY <2>1, <2>2
<1>10. SupervisorType'
  <2>1. probed' \in BOOLEAN
    BY <1>1, <1>2, OwnedRecords DEF SandboxInv, SupervisorType
  <2>2. case' \in Nat
    BY <1>1, <1>2
  <2> QED BY <2>1, <2>2, <1>1, <1>9 DEF SandboxInv, SupervisorType
<1>11. RowsCounted'
  BY <1>1, <1>2, <1>9
     DEF SandboxInv, RowsCounted, Active, Creation, Removal, Settling, Supervisor!SandboxConstants
<1>12. Placed'
  <2> SUFFICES ASSUME NEW r \in Nat, NEW n \in Nat, Left(r, n)
               PROVE  r <= row /\ (r = row => n < case + 1 /\ ~ runnable')
    BY <1>1, <1>6 DEF Placed, Active, Creation, Removal, Settling
  <2>1. r <= row
    BY DEF SandboxInv, Placed
  <2>2. r = row => n = case /\ ~ owned.settled
    BY <1>5, <1>7
  <2> QED BY <2>1, <2>2, <1>1, <1>2
<1>13. Owning'
  BY <1>1 DEF SandboxInv, Owning, Active, Creation, Removal, Settling
<1>14. Probed'
  BY <1>1, <1>2, <1>5, <1>6, <1>7, <1>9 DEF Probed
<1>15. Observing'
  <2> SUFFICES ASSUME NEW n \in DOMAIN cases'
               PROVE  (cases'[n].settled => ~ Left(row, n)) /\ Supervisor!validate_case(cases'[n])
    BY <1>1 DEF Observing, Left
  <2>1. case # 0 /\ n \in 1 .. case
    BY <1>9, <1>2
  <2>2. CASE n = case
    BY <2>1, <2>2, <1>5, <1>8, <1>9 DEF new
  <2>3. CASE n # case
    <3>1. n \in DOMAIN cases /\ cases'[n] = cases[n]
      BY <2>1, <2>3, <1>2, <1>9
    <3> QED BY <3>1 DEF SandboxInv, Observing
  <2> QED BY <2>2, <2>3
<1>16. Reported'
  BY <1>1 DEF SandboxInv, Reported, Left
<1> QED BY <1>10, <1>11, <1>12, <1>13, <1>14, <1>15, <1>16 DEF SandboxInv

\* A row that ended is reported as it was observed, and the next one starts from nothing.
LEMMA EndingKeeps ==
    ASSUME Supervisor!SandboxConstants, SandboxInv, sandbox_pc \in {"row", "connect", "case"},
           UNCHANGED <<boxes, late>>, owned' \in OwnedRecord, UNCHANGED owned,
           UNCHANGED <<case, runnable, probed>>,
           NEW representation \in {"Module", "Unsupported", "Unknown"},
           NEW result \in {"Unknown", "Failed", "Passed"},
           NEW reason \in {"native", "unsupported_representation", "generation_unknown",
                           "cancelled", "infrastructure"},
           NEW observed \in Seq(CaseRecord),
           Supervisor!EndRow(representation, result, reason, observed),
           Supervisor!validate_row([representation |-> representation, outcome |-> result,
                         reason |-> reason, cases |-> observed]),
           \A n \in DOMAIN observed : observed[n].settled => ~ Left(row, n),
           result # "Unknown" => \A n \in 0 .. SandboxCases : ~ Left(row, n)
    PROVE  SandboxInv'
<1> DEFINE new == [representation |-> representation, outcome |-> result,
                   reason |-> reason, cases |-> observed]
<1>1. /\ sandbox_pc' \in {"row", "done"} /\ row' \in Nat /\ row' = row + 1
      /\ sandbox_pc' = "row" => row' <= SandboxRows
      /\ cases' = <<>> /\ cases' \in Seq(CaseRecord)
      /\ sandbox_rows' \in Seq(RowRecord)
      /\ Len(sandbox_rows') = Len(sandbox_rows) + 1 /\ DOMAIN sandbox_rows' = 1 .. row'-1
      /\ \A r \in DOMAIN sandbox_rows : r <= row - 1 /\ sandbox_rows'[r] = sandbox_rows[r]
      /\ sandbox_rows'[row] = new
  BY Ending DEF SandboxInv
<1>2. \A r, n : Left(r, n)' <=> Left(r, n)
  BY DEF Left
<1>3. row \in Nat /\ row >= 1 /\ sandbox_rows \in Seq(RowRecord) /\ Len(sandbox_rows) = row - 1
  BY DEF SandboxInv, SupervisorType, RowsCounted
<1>4. SupervisorType'
  BY <1>1 DEF SandboxInv, SupervisorType
<1>5. RowsCounted'
  BY <1>1, <1>3 DEF RowsCounted, Active, Creation, Removal, Settling
<1>6. Placed'
  BY <1>1, <1>2, <1>3 DEF SandboxInv, Placed, Active, Creation, Removal, Settling
<1>7. Owning'
  BY <1>1 DEF SandboxInv, Owning, Active, Creation, Removal, Settling
<1>8. Probed' /\ Observing'
  BY <1>1 DEF Probed, Observing
<1>9. Reported'
  <2> SUFFICES ASSUME NEW r \in DOMAIN sandbox_rows'
               PROVE  /\ \A n \in DOMAIN sandbox_rows'[r].cases :
                            sandbox_rows'[r].cases[n].settled => ~ Left(r, n)
                      /\ sandbox_rows'[r].outcome # "Unknown"
                         => \A n \in 0 .. SandboxCases : ~ Left(r, n)
                      /\ Supervisor!validate_row(sandbox_rows'[r])
    BY <1>2 DEF Reported
  <2>1. CASE r = row
    BY <2>1, <1>1 
  <2>2. CASE r # row
    <3>1. r \in DOMAIN sandbox_rows /\ sandbox_rows'[r] = sandbox_rows[r]
      BY <2>2, <1>1, <1>3
    <3> QED BY <3>1 DEF SandboxInv, Reported
  <2> QED BY <2>1, <2>2
<1> QED BY <1>4, <1>5, <1>6, <1>7, <1>8, <1>9 DEF SandboxInv

\* Taking up a row keeps the invariant.
LEMMA NextRowKeeps == ASSUME Supervisor!SandboxConstants, SandboxInv, Supervisor!NextRow
    PROVE  SandboxInv'
<1>1. /\ sandbox_pc = "row"
         /\ UNCHANGED <<case, owned, boxes, late, runnable, probed, sandbox_cancelled>>
      /\ <<>> \in Seq(CaseRecord) /\ owned' \in OwnedRecord
  BY EmptySeq DEF Supervisor!NextRow, SandboxInv, SupervisorType
<1>2. /\ \A n \in 0 .. SandboxCases : ~ Left(row, n)
      /\ \A n \in DOMAIN <<>> : <<>>[n].settled => ~ Left(row, n)
  BY <1>1
     DEF SandboxInv, Placed, SupervisorType, Active, Creation, Removal, Settling,
         Supervisor!SandboxConstants
<1>3. CASE Supervisor!EndRow("Unsupported", "Failed", "unsupported_representation", <<>>)
  <2>1. Supervisor!validate_row([representation |-> "Unsupported", outcome |-> "Failed",
                      reason |-> "unsupported_representation", cases |-> <<>>])
    BY DEF Supervisor!validate_row
  <2> QED BY <1>1, <1>2, <1>3, <2>1, EndingKeeps
<1>4. CASE Supervisor!EndRow("Unknown", "Unknown", "generation_unknown", <<>>)
  <2>1. Supervisor!validate_row([representation |-> "Unknown", outcome |-> "Unknown",
                      reason |-> "generation_unknown", cases |-> <<>>])
    BY DEF Supervisor!validate_row
  <2> QED BY <1>1, <1>2, <1>4, <2>1, EndingKeeps
<1>5. CASE Supervisor!EndRow("Module", "Unknown", "cancelled", <<>>)
  <2>1. Supervisor!validate_row([representation |-> "Module", outcome |-> "Unknown",
                      reason |-> "cancelled", cases |-> <<>>])
    BY DEF Supervisor!validate_row
  <2> QED BY <1>1, <1>2, <1>5, <2>1, EndingKeeps
<1>6. CASE sandbox_pc' = "connect" /\ UNCHANGED <<row, cases, sandbox_rows>>
  <2>1. SupervisorType' /\ RowsCounted'
    BY <1>1, <1>6 DEF SandboxInv, SupervisorType, RowsCounted, Active, Creation, Removal, Settling
  <2>2. Placed' /\ Owning' /\ Probed'
    BY <1>1, <1>6 DEF SandboxInv, Placed, Owning, Probed, Left, Active, Creation, Removal, Settling
  <2>3. Observing' /\ Reported'
    BY <1>1, <1>6 DEF SandboxInv, Observing, Reported, Left
  <2> QED BY <2>1, <2>2, <2>3 DEF SandboxInv
<1> QED BY <1>3, <1>4, <1>5, <1>6 DEF Supervisor!NextRow

\* A fresh container may be created when none of the row is left.
LEMMA CreatingKeeps ==
    ASSUME Supervisor!SandboxConstants, SandboxInv, sandbox_pc \in {"connect", "case"},
           sandbox_pc' = "create", owned' = Supervisor!Fresh, case' \in 0 .. SandboxCases,
           UNCHANGED <<row, boxes, late, cases, sandbox_rows, probed>>, runnable' \in BOOLEAN,
           Len(cases) = IF case' = 0 THEN 0 ELSE case' - 1,
           \A n \in Nat : ~ Left(row, n)
    PROVE  SandboxInv'
<1>1. /\ Supervisor!Fresh \in OwnedRecord
      /\ Supervisor!Fresh.output # None =>
            Supervisor!Fresh.output \notin {"Matched", "WrongResult"}
  BY DEF Supervisor!Fresh, OwnedRecord
<1>2. case' \in Nat /\ row \in Nat
  BY DEF SandboxInv, SupervisorType, Supervisor!SandboxConstants
<1>3. ~ Left(row, case') /\ Supervisor!Me' \notin boxes' \cup late'
  BY <1>2 DEF Left, Supervisor!Me
<1>4. SupervisorType'
  BY <1>1, <1>2 DEF SandboxInv, SupervisorType, Active, Creation
<1>5. RowsCounted'
  BY <1>2
     DEF SandboxInv, RowsCounted, Active, Creation, Removal, Settling, Supervisor!SandboxConstants
<1>6. Placed'
  BY <1>2 DEF SandboxInv, Placed, Left, Active, Creation, Removal, Settling
<1>7. Owning'
  BY <1>1, <1>3 DEF SandboxInv, Owning, Active, Creation, Removal, Settling
<1>8. Probed' /\ Observing' /\ Reported'
  BY DEF SandboxInv, Probed, Observing, Reported, Left
<1> QED BY <1>4, <1>5, <1>6, <1>7, <1>8 DEF SandboxInv

\* Connecting to the daemon keeps the invariant.
LEMMA ConnectKeeps == ASSUME Supervisor!SandboxConstants, SandboxInv, Supervisor!Connect
    PROVE  SandboxInv'
<1>1. /\ sandbox_pc = "connect"
         /\ UNCHANGED <<boxes, late, runnable, probed, budget, sandbox_cancelled>>
      /\ <<>> \in Seq(CaseRecord) /\ owned \in OwnedRecord /\ runnable \in BOOLEAN
  BY EmptySeq DEF Supervisor!Connect, SandboxInv, SupervisorType
<1>2. /\ \A n \in Nat : ~ Left(row, n)
      /\ \A n \in DOMAIN <<>> : <<>>[n].settled => ~ Left(row, n)
  BY <1>1
     DEF SandboxInv, Placed, SupervisorType, Active, Creation, Removal, Settling,
         Supervisor!SandboxConstants
<1>3. CASE Supervisor!EndRow("Module", "Unknown", "infrastructure", <<>>)
             /\ UNCHANGED <<case, owned>>
  <2>1. Supervisor!validate_row([representation |-> "Module", outcome |-> "Unknown",
                      reason |-> "infrastructure", cases |-> <<>>])
    BY DEF Supervisor!validate_row
  <2> QED BY <1>1, <1>2, <1>3, <2>1, EndingKeeps
<1>4. CASE sandbox_pc' = "create" /\ case' = 0 /\ owned' = Supervisor!Fresh
             /\ UNCHANGED <<row, cases, sandbox_rows>>
  <2>1. Len(cases) = 0 /\ 0 \in 0 .. SandboxCases
    BY <1>1, EmptySeq
       DEF SandboxInv, RowsCounted, Active, Creation, Removal, Settling, Supervisor!SandboxConstants
  <2> QED BY <1>1, <1>2, <1>4, <2>1, CreatingKeeps
<1> QED BY <1>1, <1>3, <1>4 DEF Supervisor!Connect

\* Taking up a case, or ending the row, keeps the invariant.
LEMMA NextCaseKeeps == ASSUME Supervisor!SandboxConstants, SandboxInv, Supervisor!NextCase
    PROVE  SandboxInv'
<1>1. /\ sandbox_pc = "case"
         /\ UNCHANGED <<boxes, late, runnable, probed, budget, sandbox_cancelled>>
      /\ cases \in Seq(CaseRecord) /\ owned \in OwnedRecord /\ runnable \in BOOLEAN
      /\ case \in Nat /\ case >= 1 /\ case <= SandboxCases + 1 /\ Len(cases) = case - 1
      /\ row \in Nat /\ row <= SandboxRows /\ SandboxCases \in Nat /\ SandboxCases >= 1
  BY DEF Supervisor!NextCase, SandboxInv, SupervisorType, RowsCounted, Supervisor!SandboxConstants
<1>2. CASE /\ case > SandboxCases
              /\ Supervisor!EndRow("Module", Supervisor!outcome(cases), "native", cases)
           /\ UNCHANGED <<case, owned>>
  <2>1. Len(cases) = SandboxCases /\ cases # <<>>
    BY <1>1, <1>2
  <2>2. Supervisor!validate_row([representation |-> "Module", outcome |-> Supervisor!outcome(cases),
                      reason |-> "native", cases |-> cases])
    BY <1>1, <2>1 DEF Supervisor!validate_row, SandboxInv, Observing
  <2>3. ASSUME Supervisor!outcome(cases) # "Unknown", NEW n \in 0 .. SandboxCases
        PROVE  ~ Left(row, n)
    <3>1. \A k \in DOMAIN cases : cases[k].settled
      BY <2>3 DEF Supervisor!outcome
    <3>2. CASE n = 0
      BY <1>1, <2>1, <3>1, <3>2 DEF SandboxInv, Probed
    <3>3. CASE n # 0
      BY <1>1, <2>1, <3>1, <3>3 DEF SandboxInv, Observing
    <3> QED BY <3>2, <3>3
  <2> QED BY <1>1, <1>2, <2>2, <2>3, EndingKeeps, Outcomes DEF SandboxInv, Observing
<1>3. CASE /\ case <= SandboxCases /\ runnable /\ ~ Supervisor!Stopped
           /\ sandbox_pc' = "create" /\ owned' = Supervisor!Fresh
              /\ UNCHANGED <<row, case, cases, sandbox_rows>>
  <2>1. \A n \in Nat : ~ Left(row, n)
    BY <1>1, <1>3 DEF SandboxInv, Placed
  <2>2. case' \in 0 .. SandboxCases /\ Len(cases) = IF case' = 0 THEN 0 ELSE case' - 1
    BY <1>1, <1>3
  <2> QED BY <1>1, <1>3, <2>1, <2>2, CreatingKeeps
<1>4. ASSUME NEW unprobed \in BOOLEAN, unprobed <=> cases = <<>> /\ ~ probed, case <= SandboxCases,
             cases' = Append(cases, [reason |-> IF unprobed THEN "Infrastructure" ELSE "NotRun",
                                     settled |-> ~ unprobed, began |-> FALSE,
                                     known |-> FALSE, result |-> FALSE]),
             case' = case + 1, UNCHANGED <<sandbox_pc, row, owned, sandbox_rows>>
      PROVE  SandboxInv'
  <2> DEFINE new == [reason |-> IF unprobed THEN "Infrastructure" ELSE "NotRun",
                     settled |-> ~ unprobed, began |-> FALSE, known |-> FALSE, result |-> FALSE]
  <2>1. new \in CaseRecord /\ Supervisor!validate_case(new) /\ (new.settled <=> ~ unprobed)
    BY DEF CaseRecord, Supervisor!validate_case, Exits
  <2> HIDE DEF new
  <2>2. /\ cases' \in Seq(CaseRecord) /\ Len(cases') = case /\ cases' # <<>>
        /\ \A n \in 1 .. case - 1 : cases'[n] = cases[n]
        /\ cases'[case] = new
    BY <1>1, <1>4, <2>1, AppendProperties DEF new
  <2>3. \A r, n : Left(r, n)' <=> Left(r, n)
    BY <1>1 DEF Left
  <2>4. SupervisorType'
    BY <1>1, <1>4, <2>2 DEF SandboxInv, SupervisorType
  <2>5. RowsCounted'
    BY <1>1, <1>4, <2>2 DEF SandboxInv, RowsCounted, Active, Creation, Removal, Settling
  <2>6. Placed'
    BY <1>1, <1>4, <2>3 DEF SandboxInv, Placed, Active, Creation, Removal, Settling
  <2>7. Owning'
    BY <1>1, <1>4 DEF SandboxInv, Owning, Active, Creation, Removal, Settling
  <2>8. Probed'
    <3> SUFFICES ASSUME \A n \in DOMAIN cases' : cases'[n].settled PROVE ~ Left(row, 0)
      BY <1>4, <2>2, <2>3 DEF Probed
    <3>1. \A n \in DOMAIN cases : cases[n].settled
      BY <1>1, <2>2
    <3>2. ~ unprobed
      BY <1>1, <2>1, <2>2
    <3> QED BY <1>1, <1>4, <3>1, <3>2 DEF SandboxInv, Probed
  <2>9. Observing'
    <3> SUFFICES ASSUME NEW n \in DOMAIN cases'
                 PROVE  (cases'[n].settled => ~ Left(row, n)) /\ Supervisor!validate_case(cases'[n])
      BY <1>4, <2>3 DEF Observing
    <3>1. CASE n = case
      BY <1>1, <2>1, <2>2, <3>1 DEF SandboxInv, Placed
    <3>2. CASE n # case
      <4>1. n \in DOMAIN cases /\ cases'[n] = cases[n]
        BY <1>1, <2>2, <3>2
      <4> QED BY <4>1 DEF SandboxInv, Observing
    <3> QED BY <3>1, <3>2
  <2>10. Reported'
    BY <1>4, <2>3 DEF SandboxInv, Reported
  <2> QED BY <2>4, <2>5, <2>6, <2>7, <2>8, <2>9, <2>10 DEF SandboxInv
<1>5. CASE /\ case <= SandboxCases
           /\ LET unprobed == cases = <<>> /\ ~ probed
              IN  cases' = Append(cases, [reason |-> IF unprobed THEN "Infrastructure"
                ELSE "NotRun",
                                          settled |-> ~ unprobed, began |-> FALSE,
                                          known |-> FALSE, result |-> FALSE])
           /\ case' = case + 1 /\ UNCHANGED <<sandbox_pc, row, owned, sandbox_rows>>
  <2>1. (cases = <<>> /\ ~ probed) \in BOOLEAN
    OBVIOUS
  <2> QED BY <1>4, <1>5, <2>1
<1> QED BY <1>2, <1>3, <1>5 DEF Supervisor!NextCase

\* What happens to the supervisor while it waits.
LEMMA WorldKeeps ==
    ASSUME Supervisor!SandboxConstants, SandboxInv,
           Supervisor!LateCreate \/ Supervisor!BudgetOver \/ Supervisor!Cancel
             \/ UNCHANGED Supervisor!vars
    PROVE  SandboxInv'
<1>1. UNCHANGED <<sandbox_pc, row, case, owned, runnable, probed, cases, sandbox_rows>>
        /\ Supervisor!Me' = Supervisor!Me
  BY
     DEF Supervisor!LateCreate, Supervisor!BudgetOver, Supervisor!Cancel, Supervisor!vars,
         Supervisor!Me
<1>2. boxes' \cup late' = boxes \cup late /\ late' \subseteq late
  BY DEF Supervisor!LateCreate, Supervisor!BudgetOver, Supervisor!Cancel, Supervisor!vars
<1>3. \A r, n : Left(r, n)' <=> Left(r, n)
  BY <1>2 DEF Left
<1>4. SupervisorType' /\ RowsCounted'
  BY <1>1, <1>2 DEF SandboxInv, SupervisorType, RowsCounted
<1>5. Placed' /\ Probed'
  BY <1>1, <1>3 DEF SandboxInv, Placed, Probed
<1>6. Owning'
  BY <1>1, <1>2 DEF SandboxInv, Owning
<1>7. Observing' /\ Reported'
  BY <1>1, <1>3 DEF SandboxInv, Observing, Reported
<1> QED BY <1>4, <1>5, <1>6, <1>7 DEF SandboxInv

\* What the supervisor knows and what it left agree, for requests and tasks of every size.
THEOREM SupInvariance == ASSUME Supervisor!SandboxConstants PROVE Supervisor!Spec => []SandboxInv
<1>1. Supervisor!Init => SandboxInv
  <2> SUFFICES ASSUME Supervisor!Init PROVE SandboxInv
    OBVIOUS
  <2>1. /\ Supervisor!Fresh \in OwnedRecord
        /\ Supervisor!Fresh.output # None =>
              Supervisor!Fresh.output \notin {"Matched", "WrongResult"}
    BY DEF Supervisor!Fresh, OwnedRecord
  <2>2. cases \in Seq(CaseRecord) /\ sandbox_rows \in Seq(RowRecord) /\ Len(cases) = 0
          /\ Len(sandbox_rows) = 0
    BY EmptySeq DEF Supervisor!Init
  <2>3. SupervisorType
    BY <2>1, <2>2 DEF Supervisor!Init, SupervisorType
  <2>4. RowsCounted
    BY <2>2
       DEF Supervisor!Init, RowsCounted, Active, Creation, Removal, Settling,
           Supervisor!SandboxConstants
  <2>5. Placed /\ Owning /\ Probed
    BY <2>1 DEF Supervisor!Init, Placed, Owning, Probed, Left, Active, Creation, Removal, Settling
  <2>6. Observing /\ Reported
    BY <2>2 DEF Supervisor!Init, Observing, Reported
  <2> QED BY <2>3, <2>4, <2>5, <2>6 DEF SandboxInv
<1>2. SandboxInv /\ [Supervisor!Next]_Supervisor!vars => SandboxInv'
  BY HandlingKeepsReport, HandlingKeepsOwning, ClassifyKeeps, NextRowKeeps, ConnectKeeps,
     NextCaseKeeps, WorldKeeps
  DEF Supervisor!Next, Supervisor!Supervise, Handling, SandboxInv
<1> QED BY <1>1, <1>2, PTL DEF Supervisor!Spec

\* A container that is reported settled is gone, two rows never run at once, and the report is
\* one its reader accepts (container.rs, paired.rs).
THEOREM NothingLeft ==
    ASSUME Supervisor!SandboxConstants
    PROVE  Supervisor!Spec => [](/\ Supervisor!SettledMeansGone
                                 /\ Supervisor!OneContainerPerRow
                                 /\ Supervisor!ReportIsAccepted)
<1>1. SandboxInv => Supervisor!SettledMeansGone /\ Supervisor!OneContainerPerRow
        /\ Supervisor!ReportIsAccepted
  <2> SUFFICES ASSUME SandboxInv
               PROVE  Supervisor!SettledMeansGone /\ Supervisor!OneContainerPerRow
                        /\ Supervisor!ReportIsAccepted
    OBVIOUS
  <2>1. ASSUME NEW i \in Supervisor!Observed, Supervisor!Observation(i).settled
        PROVE  i \notin boxes \cup late
    <3>1. PICK r \in 1 .. SandboxRows, n \in 1 .. SandboxCases : i = <<r, n>>
      BY DEF Supervisor!Observed
    <3>2. CASE r \in DOMAIN sandbox_rows
      <4>1. r # row
        BY <3>2 DEF SandboxInv, RowsCounted, SupervisorType
      <4> QED BY <2>1, <3>1, <3>2, <4>1
                 DEF Supervisor!Observed, Supervisor!Observation, SandboxInv, Reported, Left
    <3>3. CASE r \notin DOMAIN sandbox_rows
      BY <2>1, <3>1, <3>3
         DEF Supervisor!Observed, Supervisor!Observation, SandboxInv, Observing, Left
    <3> QED BY <3>2, <3>3
  <2>2. ASSUME NEW r \in DOMAIN sandbox_rows, sandbox_rows[r].outcome # "Unknown",
               NEW i \in boxes \cup late
        PROVE  i[1] # r
    <3>1. PICK q \in 1 .. SandboxRows, n \in 0 .. SandboxCases : i = <<q, n>>
      BY DEF SandboxInv, SupervisorType, Boxes
    <3> QED BY <2>2, <3>1 DEF SandboxInv, Reported, Left
  <2>3. Supervisor!SettledMeansGone
    BY <2>1, <2>2 DEF Supervisor!SettledMeansGone
  <2>4. ASSUME sandbox_pc \in {"create", "validate", "start", "exec"}, NEW i \in boxes \cup late,
               i[1] = row
        PROVE  i = Supervisor!Me
    <3>1. PICK q \in 1 .. SandboxRows, n \in 0 .. SandboxCases : i = <<q, n>>
      BY DEF SandboxInv, SupervisorType, Boxes
    <3>2. n \in Nat /\ row \in Nat /\ q = row
      BY <2>4, <3>1 DEF SandboxInv, SupervisorType, Supervisor!SandboxConstants
    <3> QED BY <2>4, <3>1, <3>2 DEF SandboxInv, Placed, Left, Supervisor!Me, Active, Creation
  <2>5. Supervisor!OneContainerPerRow
    BY <2>4 DEF Supervisor!OneContainerPerRow
  <2>6. Supervisor!ReportIsAccepted
    BY DEF SandboxInv, Reported, Supervisor!ReportIsAccepted
  <2> QED BY <2>3, <2>5, <2>6
<1> QED BY <1>1, SupInvariance, PTL

------------------------------------------------------------------------------
(* What is shown of a launch (Dashboard).                                  *)

\* What a row of the screen may show, and the events of the channel.
Showable == Watched!States \cup {"none"}
RecordEvent == [of : Shown, is : Watched!States \cup {"fault"}]
AccountingEvent == [of : {"accounting"}, is : 1 .. MaxRevision]
Event == RecordEvent \cup AccountingEvent
\* What the variables hold.
Typed == Watched!TypeOK /\ queue \in Seq(Event) /\ lost \subseteq Shown \cup {"accounting"}

\* What row r shows before and after each event of the channel, up to the ledger.
Shows(r, t) ==
    /\ t \in [0 .. Len(queue) -> Showable]
    /\ t[0] = rows[r] /\ t[Len(queue)] = ledger[r]
    /\ \A i \in 1 .. Len(queue) :
           t[i] = IF queue[i].of = r THEN Watched!ShownAfter(t[i - 1], queue[i].is) ELSE t[i - 1]
\* Every row that lost no event will show what the ledger says.
WillShow == \A r \in Shown \ lost : \E t : Shows(r, t)

\* The newest revision that was delivered is on screen or in the channel.
WillAccount ==
    /\ accounting <= watch_published
    /\ \A i \in DOMAIN queue : queue[i].of = "accounting" => queue[i].is <= watch_published
    /\ \/ watch_published = accounting
       \/ \E i \in DOMAIN queue : queue[i].of = "accounting" /\ queue[i].is = watch_published

\* The inductive invariant of the screen and the channel.
WatchInv == Typed /\ WillShow /\ WillAccount

\* The greater of two numbers.
LEMMA MaxOfTwo ==
    ASSUME NEW a \in Nat, NEW b \in Nat
    PROVE  /\ Watched!Max({a, b}) \in {a, b} /\ Watched!Max({a, b}) >= a /\ Watched!Max({a, b}) >= b
<1> DEFINE m == CHOOSE x \in {a, b} : \A y \in {a, b} : x >= y
<1>1. \E x \in {a, b} : \A y \in {a, b} : x >= y
  <2>1. CASE a >= b
    BY <2>1
  <2>2. CASE b >= a
    BY <2>2
  <2> QED BY <2>1, <2>2
<1>2. m \in {a, b} /\ \A y \in {a, b} : m >= y
  BY <1>1, Zenon
<1> QED BY <1>2 DEF Watched!Max

\* A record advances to a state.
LEMMA AdvancesAreStates == \A s : Watched!Advances(s) \subseteq Watched!States
BY DEF Watched!Advances, Watched!States

\* emit adds the event to the channel, or remembers what it was about.
LEMMA Emission ==
    ASSUME Watched!DashboardConstants, Typed, NEW e \in Event, Watched!emit(e)
    PROVE  /\ queue' \in Seq(Event) /\ Len(queue') <= Capacity
           /\ lost \subseteq lost' /\ lost' \subseteq Shown \cup {"accounting"}
           /\ watch_published' \in 0 .. MaxRevision
           /\ \/ /\ queue' = queue /\ lost' = lost \cup {e.of} /\ watch_published' = watch_published
              \/ /\ Len(queue') = Len(queue) + 1 /\ lost' = lost
                 /\ \A i \in 1 .. Len(queue) : queue'[i] = queue[i]
                 /\ queue'[Len(queue) + 1] = e
                 /\ watch_published' = IF e.of = "accounting"
                    THEN Watched!Max({watch_published, e.is}) ELSE watch_published
<1>1. queue \in Seq(Event) /\ watch_published \in 0 .. MaxRevision /\ Len(queue) \in Nat
        /\ e.of \in Shown \cup {"accounting"}
      /\ (e.of = "accounting" => e.is \in 0 .. MaxRevision)
  BY DEF Typed, Watched!TypeOK, Event, RecordEvent, AccountingEvent, Watched!DashboardConstants
<1>2. CASE ~ (Len(queue) < Capacity /\ loop = "running")
  BY <1>1, <1>2 DEF Watched!emit, Typed, Watched!TypeOK
<1>3. CASE Len(queue) < Capacity /\ loop = "running"
  <2>1. queue' = Append(queue, e) /\ lost' = lost
        /\ watch_published' = IF e.of = "accounting" THEN Watched!Max({watch_published, e.is})
           ELSE watch_published
    BY <1>3 DEF Watched!emit
  <2>2. /\ queue' \in Seq(Event) /\ Len(queue') = Len(queue) + 1
        /\ \A i \in 1 .. Len(queue) : queue'[i] = queue[i]
        /\ queue'[Len(queue) + 1] = e
    BY <1>1, <2>1, AppendProperties
  <2>3. watch_published' \in 0 .. MaxRevision
    BY <1>1, <2>1, MaxOfTwo DEF Watched!DashboardConstants
  <2>4. Len(queue') <= Capacity
    BY <1>1, <1>3, <2>2 DEF Watched!DashboardConstants
  <2> QED BY <1>1, <2>1, <2>2, <2>3, <2>4 DEF Typed
<1> QED BY <1>2, <1>3

\* An event in the channel shows what it did to the ledger, once it is received.
LEMMA EmissionShows ==
    ASSUME Watched!DashboardConstants, Typed, WillShow, NEW e \in Event, Watched!emit(e),
           rows' = rows,
           ledger' \in [Shown -> Showable],
           \A r \in Shown : ledger'[r] = IF e.of = r THEN Watched!ShownAfter(ledger[r], e.is)
             ELSE ledger[r]
    PROVE  WillShow'
<1> SUFFICES ASSUME NEW r \in Shown \ lost' PROVE \E t : Shows(r, t)'
  BY DEF WillShow
<1>1. lost \subseteq lost' /\ r \in Shown \ lost
  BY Emission
<1>2. PICK t : Shows(r, t)
  BY <1>1 DEF WillShow
<1>3. Len(queue) \in Nat
  BY DEF Typed
<1>4. CASE queue' = queue /\ lost' = lost \cup {e.of}
  <2>1. e.of # r /\ ledger'[r] = ledger[r]
    BY <1>4
  <2> QED BY <1>2, <1>4, <2>1 DEF Shows
<1>5. CASE /\ Len(queue') = Len(queue) + 1
           /\ \A i \in 1 .. Len(queue) : queue'[i] = queue[i]
           /\ queue'[Len(queue) + 1] = e
  <2> PICK u : u = [i \in 0 .. Len(queue) + 1 |-> IF i = Len(queue) + 1 THEN ledger'[r] ELSE t[i]]
    OBVIOUS
  <2>1. u \in [0 .. Len(queue') -> Showable]
    BY <1>2, <1>3, <1>5 DEF Shows
  <2>2. u[0] = rows'[r] /\ u[Len(queue')] = ledger'[r]
    BY <1>2, <1>3, <1>5 DEF Shows
  <2>3. ASSUME NEW i \in 1 .. Len(queue')
        PROVE  u[i] = IF queue'[i].of = r THEN Watched!ShownAfter(u[i - 1], queue'[i].is)
                 ELSE u[i - 1]
    <3>1. CASE i \in 1 .. Len(queue)
      <4>1. u[i] = t[i] /\ u[i - 1] = t[i - 1] /\ queue'[i] = queue[i]
        BY <1>3, <1>5, <3>1
      <4> QED BY <1>2, <3>1, <4>1 DEF Shows
    <3>2. CASE i = Len(queue) + 1
      <4>1. u[i] = ledger'[r] /\ u[i - 1] = t[Len(queue)] /\ queue'[i] = e
        BY <1>3, <1>5, <3>2
      <4>2. t[Len(queue)] = ledger[r]
        BY <1>2 DEF Shows
      <4> QED BY <4>1, <4>2
    <3> QED BY <1>3, <1>5, <3>1, <3>2
  <2>4. Shows(r, u)'
    BY <2>1, <2>2, <2>3 DEF Shows
  <2> QED BY <2>4
<1> QED BY <1>4, <1>5, Emission

\* An emission keeps what is known of the accounting.
LEMMA EmissionAccounts ==
    ASSUME Watched!DashboardConstants, Typed, WillAccount, NEW e \in Event, Watched!emit(e),
           accounting' = accounting
    PROVE  WillAccount'
<1>0. e.of = "accounting" => e.is \in Nat
  BY DEF Watched!DashboardConstants, Event, RecordEvent, AccountingEvent
<1>1. /\ Len(queue) \in Nat /\ watch_published \in Nat /\ accounting \in Nat
      /\ e.of = "accounting" => e.is \in Nat
      /\ queue \in Seq(Event) /\ queue' \in Seq(Event)
  <2>0. queue' \in Seq(Event)
    BY Emission
  <2>1. queue \in Seq(Event) /\ queue' \in Seq(Event) /\ Len(queue) \in Nat
    BY <2>0 DEF Typed
  <2>2. watch_published \in Nat /\ accounting \in Nat
    BY DEF Typed, Watched!TypeOK, Watched!DashboardConstants
  <2> QED BY <1>0, <2>1, <2>2
<1>2. CASE queue' = queue /\ watch_published' = watch_published
  BY <1>2 DEF WillAccount
<1>3. CASE /\ Len(queue') = Len(queue) + 1
           /\ \A i \in 1 .. Len(queue) : queue'[i] = queue[i]
           /\ queue'[Len(queue) + 1] = e
           /\ watch_published' = IF e.of = "accounting" THEN Watched!Max({watch_published, e.is})
              ELSE watch_published
  <2>1. /\ watch_published <= watch_published' /\ watch_published' \in Nat
        /\ e.of = "accounting" => /\ watch_published' >= e.is
                                  /\ watch_published' \in {watch_published, e.is}
        /\ e.of # "accounting" => watch_published' = watch_published
    BY <1>1, <1>3, MaxOfTwo
  <2>2. DOMAIN queue = 1 .. Len(queue) /\ DOMAIN queue' = 1 .. Len(queue) + 1
    BY <1>1, <1>3
  <2>3. \A i \in DOMAIN queue : queue[i].of = "accounting" => queue[i].is \in Nat
    BY <1>1 DEF Event, RecordEvent, AccountingEvent, Watched!DashboardConstants
  <2>4. accounting' <= watch_published'
    BY <1>1, <2>1 DEF WillAccount
  <2>5. ASSUME NEW i \in DOMAIN queue', queue'[i].of = "accounting"
        PROVE  queue'[i].is <= watch_published'
    <3>1. CASE i \in DOMAIN queue
      <4>1. queue'[i] = queue[i]
        BY <1>3, <2>2, <3>1
      <4> QED BY <1>1, <2>1, <2>3, <2>5, <3>1, <4>1 DEF WillAccount
    <3>2. CASE i = Len(queue) + 1
      BY <1>1, <1>3, <2>1, <2>5, <3>2
    <3> QED BY <2>2, <3>1, <3>2, <1>1
  <2>6. watch_published' = accounting' \/ \E i \in DOMAIN queue' : queue'[i].of = "accounting"
          /\ queue'[i].is = watch_published'
    <3>1. CASE watch_published' = watch_published
      <4>1. CASE watch_published = accounting
        BY <3>1, <4>1
      <4>2. CASE \E i \in DOMAIN queue : queue[i].of = "accounting" /\ queue[i].is = watch_published
        <5>1. PICK i \in DOMAIN queue : queue[i].of = "accounting" /\ queue[i].is = watch_published
          BY <4>2
        <5>2. i \in DOMAIN queue' /\ queue'[i] = queue[i]
          BY <1>1, <1>3, <2>2
        <5> QED BY <3>1, <5>1, <5>2
      <4> QED BY <4>1, <4>2 DEF WillAccount
    <3>2. CASE watch_published' # watch_published
      <4>1. e.of = "accounting" /\ watch_published' = e.is /\ Len(queue) + 1 \in DOMAIN queue'
        BY <1>1, <2>1, <2>2, <3>2
      <4> QED BY <1>3, <4>1
    <3> QED BY <3>1, <3>2
  <2> QED BY <2>4, <2>5, <2>6 DEF WillAccount
<1> QED BY <1>2, <1>3, Emission

\* Advancing a record keeps the invariant.
LEMMA AdvanceKeeps ==
    ASSUME Watched!DashboardConstants, WatchInv, NEW r \in Shown, Watched!Advance(r)
    PROVE  WatchInv'
<1>1. PICK to \in Watched!Advances(ledger[r]) :
          ledger' = [ledger EXCEPT ![r] = to] /\ Watched!emit([of |-> r, is |-> to])
  BY DEF Watched!Advance
<1> DEFINE e == [of |-> r, is |-> to]
<1>2. to \in Watched!States /\ e \in Event /\ to # "fault"
  BY AdvancesAreStates DEF Event, RecordEvent, Watched!States
<1>3. /\ UNCHANGED <<rows, accounting, revision, read, engine, loop, token>>
      /\ ledger \in [Shown -> Showable]
  BY DEF Watched!Advance, Watched!app, WatchInv, Typed, Watched!TypeOK, Showable
<1>4. ledger' \in [Shown -> Showable]
  BY <1>1, <1>2, <1>3 DEF Showable
<1>5. \A q \in Shown : ledger'[q] = IF e.of = q THEN Watched!ShownAfter(ledger[q], e.is)
        ELSE ledger[q]
  BY <1>1, <1>2, <1>3 DEF Watched!ShownAfter
<1>6. Watched!emit(e)
  BY <1>1
<1> HIDE DEF e
<1>7. WillShow' /\ WillAccount'
  BY <1>2, <1>3, <1>4, <1>5, <1>6, EmissionShows, EmissionAccounts DEF WatchInv
<1>8. Typed'
  BY <1>2, <1>3, <1>4, <1>6, Emission DEF WatchInv, Typed, Watched!TypeOK, Showable
<1> QED BY <1>7, <1>8 DEF WatchInv

\* A fault of a record keeps the invariant.
LEMMA FaultKeeps ==
    ASSUME Watched!DashboardConstants, WatchInv, NEW r \in Shown, Watched!Fault(r)
    PROVE  WatchInv'
<1> DEFINE e == [of |-> r, is |-> "fault"]
<1>1. Watched!emit(e) /\ e \in Event
  BY DEF Watched!Fault, Event, RecordEvent
<1>2. /\ UNCHANGED <<rows, accounting, revision, read, engine, loop, token>>
      /\ ledger \in [Shown -> Showable]
  BY DEF Watched!Fault, Watched!app, WatchInv, Typed, Watched!TypeOK, Showable
<1>7. ledger' = IF Watched!is_decided(ledger[r]) THEN ledger ELSE [ledger EXCEPT ![r] = "error"]
  BY DEF Watched!Fault
<1>3. ledger' \in [Shown -> Showable]
  BY <1>2, <1>7 DEF Showable, Watched!States
<1>4. \A q \in Shown : ledger'[q] = IF e.of = q THEN Watched!ShownAfter(ledger[q], e.is)
        ELSE ledger[q]
  BY <1>2, <1>7 DEF Watched!ShownAfter
<1> HIDE DEF e
<1>5. WillShow' /\ WillAccount'
  BY <1>1, <1>2, <1>3, <1>4, EmissionShows, EmissionAccounts DEF WatchInv
<1>6. Typed'
  BY <1>1, <1>2, <1>3, Emission DEF WatchInv, Typed, Watched!TypeOK, Showable
<1> QED BY <1>5, <1>6 DEF WatchInv

\* Emitting a snapshot of the accounting keeps the invariant.
LEMMA EmitSnapshotKeeps ==
    ASSUME Watched!DashboardConstants, WatchInv, NEW p \in Watched!Publishers,
           Watched!EmitSnapshot(p)
    PROVE  WatchInv'
<1> DEFINE e == [of |-> "accounting", is |-> read[p]]
<1>1. Watched!emit(e) /\ e \in Event
  BY
     DEF Watched!EmitSnapshot, Event, AccountingEvent, WatchInv, Typed, Watched!TypeOK,
         Watched!DashboardConstants
<1>2. /\ UNCHANGED <<ledger, rows, accounting, revision, engine, loop, token>>
      /\ ledger \in [Shown -> Showable] /\ read' \in [Watched!Publishers -> 0 .. MaxRevision]
  BY
     DEF Watched!EmitSnapshot, Watched!app, WatchInv, Typed, Watched!TypeOK, Showable,
         Watched!DashboardConstants
<1>3. \A q \in Shown : ledger'[q] = IF e.of = q THEN Watched!ShownAfter(ledger[q], e.is)
        ELSE ledger[q]
  BY <1>2 DEF Watched!DashboardConstants
<1> HIDE DEF e
<1>4. WillShow' /\ WillAccount'
  BY <1>1, <1>2, <1>3, EmissionShows, EmissionAccounts DEF WatchInv
<1>5. Typed'
  BY <1>1, <1>2, Emission DEF WatchInv, Typed, Watched!TypeOK
<1> QED BY <1>4, <1>5 DEF WatchInv

\* Receiving an event keeps the invariant.
LEMMA RecvKeeps == ASSUME Watched!DashboardConstants, WatchInv, Watched!Recv PROVE WatchInv'
<1> DEFINE e == queue[1]
<1>1. /\ queue \in Seq(Event) /\ queue # <<>> /\ Len(queue) \in Nat \ {0}
      /\ queue' = Tail(queue) /\ Head(queue) = e /\ e \in Event
      /\ UNCHANGED <<ledger, revision, read, engine, lost, watch_published, loop, token>>
  BY DEF Watched!Recv, WatchInv, Typed, Watched!program
<1>2. /\ queue' \in Seq(Event) /\ Len(queue') = Len(queue) - 1
      /\ \A i \in 1 .. Len(queue) - 1 : queue'[i] = queue[i + 1]
  BY <1>1, HeadTailProperties
<1>3. IF e.of = "accounting"
      THEN accounting' = (IF e.is > accounting THEN e.is ELSE accounting) /\ rows' = rows
      ELSE rows' = [rows EXCEPT ![e.of] = Watched!ShownAfter(@, e.is)] /\ accounting' = accounting
  BY <1>1 DEF Watched!Recv
<1>4. /\ e.of = "accounting" => e.is \in 1 .. MaxRevision
      /\ e.of # "accounting" => e.of \in Shown /\ e.is \in Watched!States \cup {"fault"}
      /\ rows \in [Shown -> Showable] /\ ledger \in [Shown -> Showable]
      /\ accounting \in 0 .. MaxRevision /\ watch_published \in 0 .. MaxRevision
  BY <1>1
     DEF Event, RecordEvent, AccountingEvent, Watched!DashboardConstants, WatchInv, Typed,
         Watched!TypeOK, Showable
<1> HIDE DEF e
<1>5. \A s \in Showable : \A is \in Watched!States
        \cup {"fault"} : Watched!ShownAfter(s, is) \in Showable
  BY DEF Watched!ShownAfter, Showable, Watched!States
<1>6. rows' \in [Shown -> Showable] /\ accounting' \in 0 .. MaxRevision
  BY <1>3, <1>4, <1>5
<1>7. Typed'
  BY <1>1, <1>2, <1>6 DEF WatchInv, Typed, Watched!TypeOK, Showable, Watched!DashboardConstants
<1>8. WillShow'
  <2> SUFFICES ASSUME NEW r \in Shown \ lost PROVE \E t : Shows(r, t)'
    BY <1>1 DEF WillShow
  <2>1. PICK t : Shows(r, t)
    BY DEF WatchInv, WillShow
  <2> PICK u : u = [i \in 0 .. Len(queue) - 1 |-> t[i + 1]]
    OBVIOUS
  <2>2. t \in [0 .. Len(queue) -> Showable] /\ t[0] = rows[r] /\ t[Len(queue)] = ledger[r]
        /\ \A i \in 1 .. Len(queue) :
              t[i] = IF queue[i].of = r THEN Watched!ShownAfter(t[i - 1], queue[i].is) ELSE t[i - 1]
    BY <2>1 DEF Shows
  <2>3. t[1] = IF e.of = r THEN Watched!ShownAfter(rows[r], e.is) ELSE rows[r]
    BY <1>1, <2>2 DEF e
  <2>4. rows'[r] = t[1]
    BY <1>3, <1>4, <2>3 DEF Watched!DashboardConstants
  <2>5. u \in [0 .. Len(queue') -> Showable] /\ u[0] = rows'[r] /\ u[Len(queue')] = ledger'[r]
    BY <1>1, <1>2, <2>2, <2>4
  <2>6. ASSUME NEW i \in 1 .. Len(queue')
        PROVE  u[i] = IF queue'[i].of = r THEN Watched!ShownAfter(u[i - 1], queue'[i].is)
                 ELSE u[i - 1]
    <3>1. i + 1 \in 1 .. Len(queue) /\ (i + 1) - 1 = i /\ u[i] = t[i + 1] /\ u[i - 1] = t[i]
          /\ queue'[i] = queue[i + 1]
      BY <1>1, <1>2
    <3> QED BY <2>2, <3>1
  <2>7. Shows(r, u)'
    BY <2>5, <2>6 DEF Shows
  <2> QED BY <2>7
<1>9. WillAccount'
  <2>1. /\ accounting <= watch_published
        /\ \A i \in DOMAIN queue : queue[i].of = "accounting" => queue[i].is <= watch_published
    BY DEF WatchInv, WillAccount
  <2>2. e.of = "accounting" => e.is <= watch_published
    BY <1>1, <2>1 DEF e
  <2>3. accounting' <= watch_published'
    BY <1>1, <1>3, <1>4, <2>1, <2>2
  <2>4. \A i \in DOMAIN queue' : i \in 1 .. Len(queue) - 1 /\ i + 1 \in DOMAIN queue
          /\ queue'[i] = queue[i + 1]
    BY <1>1, <1>2
  <2>5. \A i \in DOMAIN queue' : queue'[i].of = "accounting" => queue'[i].is <= watch_published'
    BY <1>1, <2>1, <2>4
  <2>6. CASE watch_published = accounting
    BY <1>1, <1>3, <1>4, <2>2, <2>3, <2>5, <2>6 DEF WillAccount
  <2>7. CASE \E i \in DOMAIN queue : queue[i].of = "accounting" /\ queue[i].is = watch_published
    <3>1. PICK i \in DOMAIN queue : queue[i].of = "accounting" /\ queue[i].is = watch_published
      BY <2>7
    <3>2. CASE i = 1
      <4>1. accounting' = watch_published
        BY <1>3, <1>4, <2>1, <3>1, <3>2 DEF e
      <4> QED BY <1>1, <2>3, <2>5, <4>1 DEF WillAccount
    <3>3. CASE i # 1
      <4>1. i - 1 \in DOMAIN queue' /\ queue'[i - 1] = queue[i]
        BY <1>1, <1>2, <3>3
      <4> QED BY <1>1, <2>3, <2>5, <3>1, <4>1 DEF WillAccount
    <3> QED BY <3>2, <3>3
  <2> QED BY <2>6, <2>7 DEF WatchInv, WillAccount
<1> QED BY <1>7, <1>8, <1>9 DEF WatchInv

\* The steps that touch neither the channel nor what is shown.
LEMMA OthersKeep ==
    ASSUME Watched!DashboardConstants, WatchInv,
           \/ Watched!Account \/ Watched!EngineFinish \/ Watched!EngineCancels \/ Watched!Quit
              \/ Watched!CancelSeen \/ UNCHANGED Watched!vars
           \/ \E p \in Watched!Publishers : Watched!ReadSnapshot(p)
    PROVE  WatchInv'
<1>1. UNCHANGED <<ledger, queue, lost, watch_published, rows, accounting>>
  BY
     DEF Watched!Account, Watched!EngineFinish, Watched!EngineCancels, Watched!Quit,
         Watched!CancelSeen, Watched!vars, Watched!ReadSnapshot, Watched!program,
         Watched!channel, Watched!app
<1>2. /\ revision' \in 1 .. MaxRevision /\ read' \in [Watched!Publishers -> 0 .. MaxRevision]
      /\ engine' \in {"running", "finished"} /\ loop' \in {"running", "ended"}
  BY
     DEF Watched!Account, Watched!EngineFinish, Watched!EngineCancels, Watched!Quit,
         Watched!CancelSeen, Watched!vars, Watched!ReadSnapshot, Watched!program,
         Watched!channel, Watched!app, WatchInv, Typed, Watched!TypeOK, Watched!DashboardConstants
<1>3. Typed'
  BY <1>1, <1>2 DEF WatchInv, Typed, Watched!TypeOK
<1>4. WillShow' /\ WillAccount'
  BY <1>1 DEF WatchInv, WillShow, WillAccount, Shows
<1> QED BY <1>3, <1>4 DEF WatchInv

\* The channel leads the screen to the ledger, for any records and any channel.
THEOREM DashInvariance == ASSUME Watched!DashboardConstants PROVE Watched!Spec => []WatchInv
<1>1. Watched!Init => WatchInv
  <2> SUFFICES ASSUME Watched!Init PROVE WatchInv
    OBVIOUS
  <2>1. queue = <<>> /\ queue \in Seq(Event) /\ Len(queue) = 0
    BY EmptySeq DEF Watched!Init
  <2>2. Typed
    BY <2>1 DEF Watched!Init, Typed, Watched!TypeOK, Watched!DashboardConstants
  <2>3. WillAccount
    BY <2>1 DEF Watched!Init, WillAccount
  <2>4. ASSUME NEW r \in Shown PROVE Shows(r, [i \in 0 .. 0 |-> "none"])
    BY <2>1 DEF Watched!Init, Shows, Showable
  <2>5. WillShow
    BY <2>4 DEF WillShow
  <2> QED BY <2>2, <2>3, <2>5 DEF WatchInv
<1>2. WatchInv /\ [Watched!Next]_Watched!vars => WatchInv'
  BY AdvanceKeeps, FaultKeeps, EmitSnapshotKeeps, RecvKeeps, OthersKeep
     DEF Watched!Next, Watched!Engine, Watched!Loop
<1> QED BY <1>1, <1>2, PTL DEF Watched!Spec

\* When the channel is drained the screen shows the store, or says what it lost (EngineEvent,
\* App::apply).
THEOREM CatchesUp == ASSUME Watched!DashboardConstants
    PROVE  Watched!Spec => []Watched!ScreenCatchesUp
<1>1. WatchInv => Watched!ScreenCatchesUp
  <2> SUFFICES ASSUME WatchInv, queue = <<>>
               PROVE  (\A r \in Shown \ lost : rows[r] = ledger[r]) /\ accounting = watch_published
    BY DEF Watched!ScreenCatchesUp, WatchInv, Typed
  <2>1. Len(queue) = 0
    OBVIOUS
  <2>2. \A r \in Shown \ lost : rows[r] = ledger[r]
    BY <2>1 DEF WatchInv, WillShow, Shows
  <2>3. accounting = watch_published
    BY DEF WatchInv, WillAccount
  <2> QED BY <2>2, <2>3
<1> QED BY <1>1, DashInvariance, PTL

------------------------------------------------------------------------------
(* The components in the system that composes them.                        *)

\* A behaviour is about one component, and each of its steps is one of that component.
LEMMA Turns ==
    MCNext \/ UNCHANGED MCvars =>
        /\ scenario' = scenario
        /\ scenario = "launch" => [Next]_vars
        /\ scenario = "watch" => [Watched!Next]_Watched!vars
        /\ scenario = "sandbox" => [Supervisor!Next]_Supervisor!vars
<1>1. ASSUME MCNext PROVE /\ scenario' = scenario
                          /\ scenario = "launch" => Next
                          /\ scenario = "watch" => Watched!Next
                          /\ scenario = "sandbox" => Supervisor!Next
  BY <1>1 DEF MCNext, launch_step, start_step, watch_step, sandbox_step, Turn
<1>2. ASSUME UNCHANGED MCvars
      PROVE  /\ UNCHANGED scenario /\ UNCHANGED vars
             /\ UNCHANGED Watched!vars /\ UNCHANGED Supervisor!vars
  BY <1>2 DEF MCvars, watch_vars, sandbox_vars, Supervisor!vars, Watched!vars,
              Watched!program, Watched!channel, Watched!app
<1> QED BY <1>1, <1>2

\* A container that a supervisor reports as settled is gone, two rows never run at once,
\* and the report is one its reader accepts (container.rs, paired.rs), for requests and
\* tasks of every size.
THEOREM LeavesNothing == MCSpec => []SupervisorLeavesNothing
<1>1. MCInit => (scenario = "sandbox" => Supervisor!Init)
  BY DEF MCInit
<1>2. [MCNext]_MCvars => /\ scenario' = scenario
                         /\ scenario = "sandbox" => [Supervisor!Next]_Supervisor!vars
  BY Turns
<1>3. Supervisor!Spec => [](/\ Supervisor!SettledMeansGone
                            /\ Supervisor!OneContainerPerRow
                            /\ Supervisor!ReportIsAccepted)
  BY NothingLeft, SupervisorAssumption
<1>4. SupervisorLeavesNothing <=>
        (scenario = "sandbox" => /\ Supervisor!SettledMeansGone
                                 /\ Supervisor!OneContainerPerRow
                                 /\ Supervisor!ReportIsAccepted)
  BY DEF SupervisorLeavesNothing
<1>5. (scenario = "sandbox") /\ scenario' = scenario => (scenario = "sandbox")'
  OBVIOUS
<1>6. ~ (scenario = "sandbox") /\ scenario' = scenario => ~ (scenario = "sandbox")'
  OBVIOUS
<1> QED BY <1>1, <1>2, <1>3, <1>4, <1>5, <1>6, PTL DEF MCSpec, Supervisor!Spec

\* When the channel is drained the screen shows the store or says what it lost, and an
\* older accounting never replaces a newer one (EngineEvent, App::apply), for any records,
\* any channel and any number of revisions.
THEOREM ScreenShowsTheStore == MCSpec => []ScreenCatchesUp
<1>1. MCInit => (scenario = "watch" => Watched!Init)
  BY DEF MCInit
<1>2. [MCNext]_MCvars => /\ scenario' = scenario
                         /\ scenario = "watch" => [Watched!Next]_Watched!vars
  BY Turns
<1>3. Watched!Spec => []Watched!ScreenCatchesUp
  BY CatchesUp, WatchAssumption
<1>4. ScreenCatchesUp <=> (scenario = "watch" => Watched!ScreenCatchesUp)
  BY DEF ScreenCatchesUp
<1>5. (scenario = "watch") /\ scenario' = scenario => (scenario = "watch")'
  OBVIOUS
<1>6. ~ (scenario = "watch") /\ scenario' = scenario => ~ (scenario = "watch")'
  OBVIOUS
<1> QED BY <1>1, <1>2, <1>3, <1>4, <1>5, <1>6, PTL DEF MCSpec, Watched!Spec
==============================================================================

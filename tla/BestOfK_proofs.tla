--------------------------- MODULE BestOfK_proofs ---------------------------
(***************************************************************************)
(* Proofs about BestOfK, for every number of siblings, every set of judge  *)
(* aggregates and every number of launches.                                *)
(*                                                                         *)
(* IInv is the inductive invariant.  Its backbone is Discipline: where the *)
(* item is (pc) determines what every sibling future may be doing, and     *)
(* where a future is determines whether its record exists.  OneWinner and  *)
(* NoClobber need it because an election is only sound on a whole group,   *)
(* and because a model answer is only stored where nothing was stored.     *)
(*                                                                         *)
(* GInv says what the records of a group show of how it was decided.  The  *)
(* election itself may be followed by a crash, and another election by the *)
(* next launch, so it is stated without naming the elected one: whoever    *)
(* was rejected for another's sake was beaten by one that still stands.    *)
(***************************************************************************)
EXTENDS BestOfK, TLAPS

AfterFanout == {"elect", "finalize", "retain", "revise", "retry gate",
                "retry call", "retry drive", "settled"}

Retrying == {"retry gate", "retry call", "retry drive"}

Discipline ==
    /\ pc \in {"down", "start"} => \A i \in Siblings : task[i] = "todo"
    /\ pc \in AfterFanout => \A i \in Siblings : task[i] = "joined"
    /\ pc \in AfterFanout => \A i \in Siblings : rec[i] # None
    /\ \A i \in Siblings :
          /\ task[i] \in {"driving", "stepping", "ok", "parked"} => rec[i] # None
          /\ task[i] = "stepping" =>
                rec[i].state \in {"AssistantGenerated", "Verified"}
          /\ task[i] = "joined" => rec[i] # None \/ interrupted \/ first_fatal
    /\ pc = "finalize" => winner \in Siblings
    /\ pc \in Retrying => next \in Siblings
    /\ pc = "retry drive" => retry[next] # None

\* A record that was judged has a decision.
JudgedHasDecision ==
    \A i \in Siblings :
        /\ rec[i] # None /\ rec[i].state = "Judged" => rec[i].decision \in Decision
        /\ retry[i] # None /\ retry[i].state = "Judged" => retry[i].decision \in Decision

\* While a winner is being finalized no other sibling is established.
WinnerStandsAlone ==
    pc = "finalize" =>
        \A i \in Siblings : Has(rec[i], {"Admitted", "Formatted", "Revising"}) => i = winner

IInv == /\ TypeOK /\ Discipline /\ JudgedHasDecision /\ NeverRespend
        /\ WinnerStandsAlone /\ OneWinner

-----------------------------------------------------------------------------
(* What the operations on one record return                                *)

\* Nothing is a record and no record at once.
LEMMA NoneIsNoRecord == None \notin Record
BY NoneAssumption

\* A record whose state is replaced is a record in that state.
LEMMA MoveFacts ==
    ASSUME NEW r \in Record, NEW s \in State
    PROVE  /\ [r EXCEPT !.state = s] \in Record
           /\ [r EXCEPT !.state = s].state = s
           /\ [r EXCEPT !.state = s].decision = r.decision
BY DEF Record

\* A fresh answer is an undecided record.
LEMMA GeneratedFacts ==
    ASSUME NEW clean \in BOOLEAN
    PROVE  /\ Generated(clean) \in Record
           /\ Generated(clean).state = "AssistantGenerated"
BY DEF Generated, Record, State

\* Parking leaves a decided record alone and moves every other one to Error.
LEMMA ParkedFacts ==
    ASSUME NEW r \in Record \cup {None}
    PROVE  /\ Parked(r) \in Record
           /\ \/ Parked(r).state = "Error"
              \/ r \in Record /\ is_decided(r.state) /\ Parked(r) = r
<1>1. CASE r = None
  BY <1>1 DEF Parked, error_stub, Record, State
<1>2. CASE r # None /\ is_decided(r.state)
  BY <1>2 DEF Parked
<1>3. CASE r # None /\ ~ is_decided(r.state)
  BY <1>3, MoveFacts DEF Parked, State
<1> QED BY <1>1, <1>2, <1>3

\* Verification never decides, and judging always leaves a decision behind.
LEMMA GradedFacts ==
    ASSUME NEW r \in Record
    PROVE  /\ verify(r) \in Record
           /\ verify(r).state = "Verified"
           /\ \A d \in Decision, s \in Scores :
                 /\ judge(r, d, s) \in Record
                 /\ judge(r, d, s).state = "Judged"
                 /\ judge(r, d, s).decision = d
BY DEF verify, judge, Record, State

\* Reconciling decides; only an admissible record can become established, and a
\* retry cannot revise.
LEMMA ReconcileFacts ==
    ASSUME NEW r \in Record, r.decision \in Decision, NEW tagged \in BOOLEAN
    PROVE  /\ reconcile(r, tagged) \in Record
           /\ reconcile(r, tagged).state \in
                 {"Admitted", "Rejected", "Revising", "NeedsReview"}
           /\ ~ is_admissible(r) => reconcile(r, tagged).state \in
                                      {"Rejected", "NeedsReview"}
           /\ tagged => reconcile(r, tagged).state # "Revising"
<1> DEFINE s == IF tagged /\ r.decision = "Revise" THEN "Rejected"
               ELSE to_lifecycle(r.decision)
<1>1. /\ s \in {"Admitted", "Rejected", "Revising", "NeedsReview"}
      /\ ~ is_admissible(r) => s \in {"Rejected", "NeedsReview"}
      /\ tagged => s # "Revising"
  BY DEF to_lifecycle, Decision, is_admissible
<1>2. s \in State
  BY <1>1 DEF State
<1>3. reconcile(r, tagged) = [r EXCEPT !.state = s]
  BY DEF reconcile
<1> HIDE DEF s
<1> QED BY <1>1, <1>2, <1>3, MoveFacts

\* The index of the two loops over the siblings.
LEMMA LoopFacts ==
    /\ 0 \in 0 .. K /\ 0 \in Siblings
    /\ \A n \in 0 .. K : n < K => n \in Siblings /\ n + 1 \in 0 .. K
    /\ \A n \in Siblings : n \in 0 .. K /\ n + 0 = n /\ n + 1 \in 0 .. K
    /\ None \notin Siblings
BY KAssumption, NoneAssumption DEF Siblings

-----------------------------------------------------------------------------
(* What a step does to the records                                         *)

Winning == {"Admitted", "Formatted", "Revising"}

\* The moves of a stored record: it stays, it is replaced while undecided, or an
\* admitted record is formatted.
Moves(r, x) ==
    \/ x = r
    \/ /\ r = None \/ ~ is_decided(r.state)
       /\ x \in Record
       /\ x.state = "Judged" => x.decision \in Decision
    \/ /\ r # None /\ r.state = "Admitted"
       /\ x = [r EXCEPT !.state = "Formatted"]

\* A move keeps a record a record, and a judged one keeps its decision.
LEMMA MovesFacts ==
    ASSUME NEW r \in Record \cup {None}, NEW x, Moves(r, x)
    PROVE  /\ x \in Record \cup {None}
           /\ r # None => x # None
           /\ x # r /\ x # None /\ x.state = "Judged" => x.decision \in Decision
           /\ r # None /\ is_decided(r.state) =>
                 \/ x = r
                 \/ r.state = "Admitted" /\ x = [r EXCEPT !.state = "Formatted"]
<1>1. r # None /\ r.state = "Admitted" =>
         /\ [r EXCEPT !.state = "Formatted"] \in Record
         /\ [r EXCEPT !.state = "Formatted"].state = "Formatted"
  BY MoveFacts DEF State
<1> QED BY <1>1, NoneIsNoRecord DEF Moves

\* Parking is such a move, and it establishes nothing.
LEMMA ParkedMoves ==
    ASSUME NEW r \in Record \cup {None}
    PROVE  /\ Moves(r, Parked(r))
           /\ Has(Parked(r), Winning) => Has(r, Winning)
<1>1. CASE Parked(r) = r
  BY <1>1 DEF Moves
<1>2. CASE Parked(r) # r
  <2>1. Parked(r).state = "Error" /\ Parked(r) \in Record
    BY <1>2, ParkedFacts
  <2>2. r = None \/ ~ is_decided(r.state)
    BY <1>2 DEF Parked
  <2> QED BY <2>1, <2>2 DEF Moves, Has, Winning
<1> QED BY <1>1, <1>2

\* Every step moves the siblings' records, and the only record it can establish
\* is that of the winner being finalized.  NeverRespend is what makes storing
\* a fresh answer a move.
LEMMA RecStep ==
    ASSUME IInv, [Next]_vars
    PROVE  /\ rec' \in [Siblings -> Record \cup {None}]
           /\ \A i \in Siblings :
                 /\ Moves(rec[i], rec'[i])
                 /\ Has(rec'[i], Winning) =>
                       Has(rec[i], Winning) \/ (pc = "finalize" /\ i = winner)
<1> DEFINE Good(i, x) ==
              /\ Moves(rec[i], x)
              /\ Has(x, Winning) =>
                    Has(rec[i], Winning) \/ (pc = "finalize" /\ i = winner)
<1> DEFINE Goal == /\ rec' \in [Siblings -> Record \cup {None}]
                   /\ \A i \in Siblings : Good(i, rec'[i])
<1> SUFFICES Goal
  OBVIOUS
<1>a. TypeOK /\ Discipline /\ JudgedHasDecision /\ NeverRespend
  BY DEF IInv
<1>b. ASSUME rec' = rec PROVE Goal
  BY <1>a, <1>b DEF Moves, TypeOK
<1>c. ASSUME NEW i \in Siblings, NEW x, Good(i, x), rec' = [rec EXCEPT ![i] = x]
      PROVE  Goal
  <2>1. rec'[i] = x /\ \A j \in Siblings : j # i => rec'[j] = rec[j]
    BY <1>a, <1>c DEF TypeOK
  <2>2. ASSUME NEW j \in Siblings, j # i PROVE Good(j, rec'[j])
    BY <2>1, <2>2 DEF Moves
  <2>3. x \in Record \cup {None}
    BY <1>a, <1>c, MovesFacts DEF TypeOK
  <2>4. rec' \in [Siblings -> Record \cup {None}]
    BY <1>a, <1>c, <2>3 DEF TypeOK
  <2> QED BY <1>c, <2>1, <2>2, <2>4
<1>1. ASSUME NEW i \in Siblings, TeacherAnswers(i)
      PROVE  Goal
  <2>1. PICK clean \in BOOLEAN : rec' = [rec EXCEPT ![i] = Generated(clean)]
    BY <1>1 DEF TeacherAnswers
  <2>2. rec[i] = None
    BY <1>1, <1>a DEF TeacherAnswers, Task, NeverRespend
  <2>3. Good(i, Generated(clean))
    BY <2>2, GeneratedFacts DEF Moves, Has, Winning
  <2> QED BY <1>c, <2>1, <2>3
<1>2. ASSUME NEW i \in Siblings, rec' = [rec EXCEPT ![i] = Parked(rec[i])]
      PROVE  Goal
  <2>1. Good(i, Parked(rec[i]))
    BY <1>a, ParkedMoves DEF TypeOK
  <2> QED BY <1>c, <1>2, <2>1
<1>3. ASSUME NEW i \in Siblings, DriveStep(i)
      PROVE  Goal
  <2>1. rec[i] \in Record /\ rec[i].state \in {"AssistantGenerated", "Verified"}
    BY <1>3, <1>a DEF DriveStep, Task, TypeOK, Discipline
  <2>2. ~ is_decided(rec[i].state)
    BY <2>1 DEF is_decided
  <2>3. CASE rec' = [rec EXCEPT ![i] = verify(rec[i])]
    <3>1. Good(i, verify(rec[i]))
      BY <2>1, <2>2, GradedFacts DEF Moves, Has, Winning
    <3> QED BY <1>c, <2>3, <3>1
  <2>4. ASSUME NEW d \in Decision, NEW s \in Scores,
               rec' = [rec EXCEPT ![i] = judge(rec[i], d, s)]
        PROVE  Goal
    <3>1. Good(i, judge(rec[i], d, s))
      BY <2>1, <2>2, GradedFacts DEF Moves, Has, Winning
    <3> QED BY <1>c, <2>4, <3>1
  <2> QED BY <1>3, <2>3, <2>4 DEF DriveStep
<1>4. CASE FinalizeReconcile
  <2>1. /\ winner \in Siblings /\ rec[winner] \in Record
        /\ rec[winner].decision \in Decision /\ rec[winner].state = "Judged"
        /\ pc = "finalize"
    BY <1>4, <1>a DEF TypeOK, Discipline, AfterFanout, JudgedHasDecision,
                      FinalizeReconcile
  <2>2. Good(winner, reconcile(rec[winner], FALSE))
    BY <2>1, ReconcileFacts DEF Moves, is_decided
  <2> QED BY <1>4, <1>c, <2>1, <2>2 DEF FinalizeReconcile
<1>5. CASE FinalizeFormat
  <2>1. winner \in Siblings /\ pc = "finalize" /\ rec[winner] # None
    BY <1>5, <1>a DEF Discipline, AfterFanout, FinalizeFormat
  <2>2. Good(winner, [rec[winner] EXCEPT !.state = "Formatted"])
    BY <1>5, <2>1 DEF FinalizeFormat, Moves
  <2>3. rec' = [rec EXCEPT ![winner] = [rec[winner] EXCEPT !.state = "Formatted"]]
    BY <1>5 DEF FinalizeFormat
  <2> QED BY <1>c, <2>1, <2>2, <2>3
<1>6. CASE Retain
  <2>1. next \in Siblings /\ rec[next] \in Record
    BY <1>6, <1>a, LoopFacts DEF TypeOK, Discipline, AfterFanout, Retain
  <2>2. ASSUME rec[next].state = "Judged"
        PROVE  Good(next, [rec[next] EXCEPT !.state = "Rejected"])
    BY <2>1, <2>2, MoveFacts DEF Moves, Has, Winning, State, is_decided
  <2>3. ASSUME rec[next].state = "Judged", ~ is_admissible(rec[next])
        PROVE  Good(next, reconcile(rec[next], FALSE))
    <3>1. rec[next].decision \in Decision
      BY <1>a, <2>1, <2>3, NoneIsNoRecord DEF JudgedHasDecision
    <3> QED BY <2>1, <2>3, <3>1, ReconcileFacts DEF Moves, Has, Winning, is_decided
  <2>4. CASE rec[next].state = "Judged" /\ is_admissible(rec[next])
    <3>1. rec' = [rec EXCEPT ![next] = [rec[next] EXCEPT !.state = "Rejected"]]
             \/ rec' = rec
      BY <1>6, <2>4 DEF Retain
    <3> QED BY <1>b, <1>c, <2>1, <2>2, <2>4, <3>1
  <2>5. CASE rec[next].state = "Judged" /\ ~ is_admissible(rec[next])
    <3>1. rec' = [rec EXCEPT ![next] = reconcile(rec[next], FALSE)] \/ rec' = rec
      BY <1>6, <2>5 DEF Retain
    <3> QED BY <1>b, <1>c, <2>1, <2>3, <2>5, <3>1
  <2>6. CASE rec[next].state # "Judged"
    BY <1>6, <1>b, <2>6 DEF Retain
  <2> QED BY <2>4, <2>5, <2>6
<1>7. ASSUME NEW i \in Siblings, DriveSibling(i)
      PROVE  Goal
  BY <1>7, <1>b, <1>1, <1>2, <1>3
  DEF DriveSibling, FindOrGenerate, CallTeacher, TeacherTruncates, DriveCheck,
      RecordFault, SystemicFault, Join, durable
<1>8. CASE ReviseOnce
  BY <1>8, <1>b DEF ReviseOnce, ReviseNext, RetryCall, RetryAnswers, RetryDrive,
                    RetryFault, RetryCanFault, Revised, Revise, EndLaunch, durable
<1>9. CASE Launch \/ StartGroup \/ GroupJoined \/ Elect \/ FinalizeStop \/ Retained
           \/ CommitCursor \/ Disturbance \/ UNCHANGED vars
  BY <1>9, <1>b DEF Launch, StartGroup, GroupJoined, Elect, FinalizeStop, Retained,
                    CommitCursor, Disturbance, Crash, Cancel,
                    EndLaunch, durable, vars
<1> HIDE DEF Goal
<1> QED
  BY <1>4, <1>5, <1>6, <1>7, <1>8, <1>9 DEF Next, Progress, SelectAndFinalize

\* Every step moves the retries in the same way.
LEMMA RetryStep ==
    ASSUME IInv, [Next]_vars
    PROVE  /\ retry' \in [Siblings -> Record \cup {None}]
           /\ \A i \in Siblings : Moves(retry[i], retry'[i])
<1> DEFINE Goal == /\ retry' \in [Siblings -> Record \cup {None}]
                   /\ \A i \in Siblings : Moves(retry[i], retry'[i])
<1> SUFFICES Goal
  OBVIOUS
<1>a. TypeOK /\ Discipline /\ JudgedHasDecision /\ NeverRespend
  BY DEF IInv
<1>b. ASSUME retry' = retry PROVE Goal
  BY <1>a, <1>b DEF Moves, TypeOK
<1>c. ASSUME NEW x, next \in Siblings, Moves(retry[next], x),
             retry' = [retry EXCEPT ![next] = x]
      PROVE  Goal
  <2>1. x \in Record \cup {None}
    BY <1>a, <1>c, MovesFacts DEF TypeOK
  <2> QED BY <1>a, <1>c, <2>1 DEF TypeOK, Moves
<1>1. CASE RetryAnswers
  <2>1. next \in Siblings /\ retry[next] = None
    BY <1>1, <1>a DEF RetryAnswers, Discipline, Retrying, NeverRespend
  <2>2. PICK clean \in BOOLEAN : retry' = [retry EXCEPT ![next] = Generated(clean)]
    BY <1>1 DEF RetryAnswers
  <2>3. Moves(retry[next], Generated(clean))
    BY <2>1, GeneratedFacts DEF Moves
  <2> QED BY <1>c, <2>1, <2>2, <2>3
<1>2. CASE RetryFault
  <2>1. next \in Siblings
    BY <1>2, <1>a DEF RetryFault, RetryCanFault, Discipline, Retrying
  <2> QED BY <1>2, <1>a, <1>c, <2>1, ParkedMoves DEF RetryFault, RetryCanFault, TypeOK
<1>3. CASE RetryDrive
  <2>1. next \in Siblings /\ retry[next] \in Record
    BY <1>3, <1>a DEF TypeOK, Discipline, Retrying, RetryDrive
  <2>2. CASE /\ retry[next].state = "AssistantGenerated"
             /\ retry' = [retry EXCEPT ![next] = verify(retry[next])]
    <3>1. Moves(retry[next], verify(retry[next]))
      BY <2>1, <2>2, GradedFacts DEF Moves, is_decided
    <3> QED BY <1>c, <2>1, <2>2, <3>1
  <2>3. ASSUME retry[next].state = "Verified", NEW d \in Decision, NEW s \in Scores,
               retry' = [retry EXCEPT ![next] = judge(retry[next], d, s)]
        PROVE  Goal
    <3>1. Moves(retry[next], judge(retry[next], d, s))
      BY <2>1, <2>3, GradedFacts DEF Moves, is_decided
    <3> QED BY <1>c, <2>1, <2>3, <3>1
  <2>4. CASE /\ retry[next].state = "Judged"
             /\ retry' = [retry EXCEPT ![next] = reconcile(retry[next], TRUE)]
    <3>1. retry[next].decision \in Decision
      BY <1>a, <2>1, <2>4, NoneIsNoRecord DEF JudgedHasDecision
    <3>2. Moves(retry[next], reconcile(retry[next], TRUE))
      BY <2>1, <2>4, <3>1, ReconcileFacts DEF Moves, is_decided
    <3> QED BY <1>c, <2>1, <2>4, <3>2
  <2>5. CASE /\ retry[next].state = "Admitted"
             /\ retry' = [retry EXCEPT ![next].state = "Formatted"]
    <3>1. Moves(retry[next], [retry[next] EXCEPT !.state = "Formatted"])
      BY <2>1, <2>5, NoneIsNoRecord DEF Moves
    <3>2. retry' = [retry EXCEPT ![next] = [retry[next] EXCEPT !.state = "Formatted"]]
      BY <2>5
    <3> QED BY <1>c, <2>1, <3>1, <3>2
  <2> QED
    BY <1>3, <1>b, <2>2, <2>3, <2>4, <2>5 DEF RetryDrive, EndLaunch, durable
<1>4. ASSUME NEW i \in Siblings, DriveSibling(i) PROVE Goal
  BY <1>4, <1>b
  DEF DriveSibling, FindOrGenerate, CallTeacher, TeacherAnswers, TeacherTruncates,
      DriveCheck, DriveStep, RecordFault, SystemicFault, Task, Join, durable
<1>5. CASE SelectAndFinalize \/ ReviseNext \/ RetryCall \/ Revised
  BY <1>5, <1>b DEF SelectAndFinalize, Elect, FinalizeStop, FinalizeReconcile,
                    FinalizeFormat, Retain, Retained, Goto, ReviseNext, RetryCall,
                    Revised, EndLaunch, durable
<1>6. CASE Launch \/ StartGroup \/ GroupJoined \/ CommitCursor
           \/ Disturbance \/ UNCHANGED vars
  BY <1>6, <1>b DEF Launch, StartGroup, GroupJoined, Goto,
                    CommitCursor, Disturbance, Crash, Cancel, EndLaunch, durable, vars
<1> HIDE DEF Goal
<1> QED
  BY <1>1, <1>2, <1>3, <1>4, <1>5, <1>6 DEF Next, Progress, ReviseOnce

-----------------------------------------------------------------------------
(* The conjuncts of IInv                                                   *)

\* Every variable keeps its shape.
LEMMA TypeStep ==
    ASSUME IInv, [Next]_vars PROVE TypeOK'
<1> DEFINE ControlOK ==
             /\ committed \in BOOLEAN /\ cancelled \in BOOLEAN
             /\ interrupted \in BOOLEAN /\ first_fatal \in BOOLEAN
             /\ launches \in Nat /\ pc \in Label
             /\ task \in [Siblings -> TaskState]
             /\ winner \in Siblings \cup {None} /\ next \in 0 .. K
<1> SUFFICES ControlOK'
  BY RecStep, RetryStep DEF TypeOK
<1>a. TypeOK /\ Discipline
  BY DEF IInv
<1>1. CASE EndLaunch
  BY <1>1, <1>a, LoopFacts
  DEF TypeOK, EndLaunch, Ended, AllTasks, durable, Label, TaskState
<1>2. CASE Launch
  BY <1>2, <1>a DEF TypeOK, Launch, durable, Label
<1>3. CASE Cancel
  BY <1>3, <1>a DEF TypeOK, Cancel, durable
<1>4. CASE StartGroup \/ GroupJoined
  <2>1. CASE EndLaunch
    BY <1>1, <2>1
  <2>2. CASE ~ EndLaunch
    BY <1>4, <1>a, <2>2 DEF TypeOK, StartGroup, GroupJoined, durable, Label
  <2> QED BY <2>1, <2>2
<1>5. CASE Elect \/ FinalizeStop \/ FinalizeReconcile \/ FinalizeFormat \/ Revised
          
  BY <1>5, <1>a DEF TypeOK, Elect, FinalizeStop, FinalizeReconcile, FinalizeFormat,
                    Revised, Goto, First, Best, durable, Label
<1>6. CASE Retain \/ Retained
  BY <1>1, <1>6, <1>a, LoopFacts DEF TypeOK, Retain, Retained, durable, Label
<1>7. ASSUME NEW label \in Label, NEW advance \in {0, 1}, next \in Siblings,
             Revise(label, advance)
      PROVE  ControlOK'
  BY <1>7, <1>a, LoopFacts DEF TypeOK, Revise
<1>8. CASE ReviseNext
  BY <1>1, <1>7, <1>8, <1>a, LoopFacts DEF TypeOK, ReviseNext, Label
<1>9. CASE RetryCall \/ RetryAnswers \/ RetryDrive \/ RetryFault
  <2>1. next \in Siblings
    BY <1>9, <1>a DEF Discipline, Retrying, RetryCall, RetryAnswers, RetryDrive, RetryFault,
                      RetryCanFault
  <2> QED BY <1>1, <1>7, <1>9, <2>1
          DEF RetryCall, RetryAnswers, RetryDrive, RetryFault, RetryCanFault, Label
<1>10. CASE CommitCursor
  BY <1>10, <1>a, LoopFacts DEF TypeOK, CommitCursor, Ended, AllTasks, Label, TaskState
<1>11. ASSUME NEW i \in Siblings, NEW from, NEW to \in TaskState, Task(i, from, to)
      PROVE  ControlOK'
  BY <1>11, <1>a DEF TypeOK, Task
<1>12. ASSUME NEW i \in Siblings, DriveSibling(i) PROVE ControlOK'
  <2>1. CASE Join(i)
    BY <2>1, <1>a DEF Join, TypeOK, TaskState, durable
  <2>2. CASE ~ Join(i)
    BY <1>11, <1>12, <2>2
    DEF DriveSibling, FindOrGenerate, CallTeacher, TeacherAnswers, TeacherTruncates,
        DriveCheck, DriveStep, RecordFault, SystemicFault, TaskState
  <2> QED BY <2>1, <2>2
<1>13. CASE UNCHANGED vars
  BY <1>13, <1>a DEF TypeOK, vars, durable, volatile
<1> HIDE DEF ControlOK
<1> QED
  BY <1>1, <1>2, <1>5, <1>6, <1>8, <1>9, <1>10, <1>12, <1>13, <1>4, <1>3
  DEF Next, Progress, Disturbance, SelectAndFinalize, ReviseOnce, Crash


\* Where the item and its futures are still determines what is stored.
LEMMA DisciplineStep ==
    ASSUME IInv, [Next]_vars PROVE Discipline'
<1>a. TypeOK /\ Discipline
  BY DEF IInv
<1>b. /\ \A i \in Siblings : rec[i] # None => rec'[i] # None
      /\ \A i \in Siblings : retry[i] # None => retry'[i] # None
  BY <1>a, RecStep, RetryStep, MovesFacts DEF TypeOK
<1>1. CASE Ended
  BY <1>1 DEF Ended, AllTasks, Discipline, AfterFanout, Retrying
<1>2. CASE Launch
  BY <1>2, <1>a DEF Launch, durable, Discipline, AfterFanout, Retrying
<1>3. CASE Cancel
  BY <1>3, <1>a DEF Cancel, durable, Discipline, AfterFanout, Retrying
<1>4. CASE UNCHANGED vars
  BY <1>4, <1>a DEF vars, durable, volatile, Discipline, AfterFanout, Retrying
<1>5. CASE StartGroup /\ ~ EndLaunch
  BY <1>5, <1>a DEF StartGroup, durable, Discipline, AfterFanout, Retrying
<1>6. CASE GroupJoined /\ ~ EndLaunch
  BY <1>6, <1>a DEF GroupJoined, durable, Discipline, AfterFanout, Retrying
<1>7. ASSUME pc \in AfterFanout, pc' \in AfterFanout, task' = task,
             pc' = "finalize" => winner' \in Siblings,
             pc' \in Retrying => next' \in Siblings,
             pc' = "retry drive" => retry'[next'] # None
      PROVE  Discipline'
  BY <1>7, <1>a, <1>b DEF Discipline, AfterFanout
<1>8. CASE Elect
  BY <1>7, <1>8 DEF Elect, First, Best, AfterFanout, Retrying
<1>9. CASE FinalizeStop \/ FinalizeReconcile \/ FinalizeFormat \/ Revised
          
  BY <1>7, <1>9, <1>a DEF FinalizeStop, FinalizeReconcile, FinalizeFormat, Revised,
                          Goto, AfterFanout, Retrying, Discipline
<1>10. CASE Retain \/ (Retained /\ ~ EndLaunch)
  BY <1>7, <1>10 DEF Retain, Retained, AfterFanout, Retrying
<1>11. CASE ReviseNext /\ ~ EndLaunch
  BY <1>7, <1>11, <1>a, <1>b, LoopFacts
  DEF ReviseNext, Revise, AfterFanout, Retrying, TypeOK
<1>12. CASE (RetryCall \/ RetryAnswers \/ RetryDrive \/ RetryFault) /\ ~ EndLaunch
  <2>1. next \in Siblings /\ next + 0 = next /\ pc \in AfterFanout
    BY <1>12, <1>a, LoopFacts DEF Discipline, Retrying, AfterFanout, RetryCall,
                                  RetryAnswers, RetryDrive, RetryFault, RetryCanFault
  <2>2. CASE RetryCall
    BY <1>7, <1>12, <2>1, <2>2 DEF RetryCall, Revise, AfterFanout, Retrying
  <2>3. CASE RetryAnswers
    <3>1. retry'[next] # None
      BY <1>a, <2>1, <2>3, GeneratedFacts, NoneIsNoRecord DEF RetryAnswers, TypeOK
    <3> QED BY <1>7, <2>1, <2>3, <3>1 DEF RetryAnswers, Revise, AfterFanout, Retrying
  <2>4. CASE RetryDrive
    <3>1. retry'[next] # None
      BY <1>a, <1>b, <2>1, <2>4 DEF RetryDrive, Discipline
    <3>2. Revise("revise", 1) \/ Revise("retry drive", 0)
      BY <1>12, <2>4 DEF RetryDrive
    <3> QED BY <1>7, <2>1, <3>1, <3>2 DEF Revise, AfterFanout, Retrying
  <2>5. CASE RetryFault
    BY <1>7, <2>1, <2>5 DEF RetryFault, RetryCanFault, Revise, AfterFanout, Retrying
  <2> QED BY <1>12, <2>2, <2>3, <2>4, <2>5
<1>13. ASSUME NEW i \in Siblings, NEW from, NEW to \in TaskState \ {"joined"},
              Task(i, from, to),
              \A j \in Siblings \ {i} : rec'[j] = rec[j],
              to \in {"driving", "stepping", "ok", "parked"} => rec'[i] # None,
              to = "stepping" => rec'[i].state \in {"AssistantGenerated", "Verified"}
       PROVE  Discipline'
  <2>1. /\ task'[i] = to
        /\ \A j \in Siblings \ {i} : task'[j] = task[j]
    BY <1>13, <1>a DEF Task, TypeOK
  <2> QED BY <1>13, <1>a, <1>b, <2>1
          DEF Task, Discipline, AfterFanout, Retrying, TaskState
<1>14. ASSUME NEW i \in Siblings, DriveSibling(i) PROVE Discipline'
  <2>1. CASE FindOrGenerate(i) \/ CallTeacher(i)
    BY <1>13, <2>1 DEF FindOrGenerate, CallTeacher, TaskState
  <2>2. CASE DriveCheck(i)
    <3>1. rec' = rec /\ rec[i] # None
      BY <2>2, <1>a DEF DriveCheck, Discipline
    <3>2. CASE Task(i, "driving", "stepping")
               /\ rec[i].state \in {"AssistantGenerated", "Verified"}
      BY <1>13, <3>1, <3>2 DEF TaskState
    <3>3. CASE Task(i, "driving", "ok")
      BY <1>13, <3>1, <3>3 DEF TaskState
    <3> QED BY <2>2, <3>2, <3>3 DEF DriveCheck
  <2>3. CASE TeacherAnswers(i)
    <3>1. PICK clean \in BOOLEAN : rec' = [rec EXCEPT ![i] = Generated(clean)]
      BY <2>3 DEF TeacherAnswers
    <3>2. rec'[i] # None
      BY <1>a, <3>1, GeneratedFacts, NoneIsNoRecord DEF TypeOK
    <3> QED BY <1>13, <1>a, <2>3, <3>1, <3>2 DEF TeacherAnswers, TaskState, TypeOK
  <2>4. ASSUME rec' = [rec EXCEPT ![i] = Parked(rec[i])]
        PROVE  rec'[i] # None /\ \A j \in Siblings \ {i} : rec'[j] = rec[j]
    BY <2>4, <1>a, ParkedFacts, NoneIsNoRecord DEF TypeOK
  <2>5. CASE TeacherTruncates(i)
    BY <1>13, <2>4, <2>5 DEF TeacherTruncates, TaskState
  <2>6. CASE DriveStep(i)
    <3>1. rec'[i] # None
      BY <1>a, <1>b, <2>6 DEF DriveStep, Task, Discipline
    <3>2. \A j \in Siblings \ {i} : rec'[j] = rec[j]
      BY <2>6, <1>a DEF DriveStep, TypeOK
    <3> QED BY <1>13, <2>6, <3>1, <3>2 DEF DriveStep, TaskState
  <2>7. CASE RecordFault(i)
    BY <1>13, <2>4, <2>7 DEF RecordFault, TaskState
  <2>8. CASE SystemicFault(i)
    BY <1>13, <2>8 DEF SystemicFault, TaskState
  <2>9. CASE Join(i)
    BY <2>9, <1>a DEF Join, durable, TypeOK, Discipline, AfterFanout, Retrying
  <2> QED BY <1>14, <2>1, <2>3, <2>5, <2>6, <2>7, <2>8, <2>9, <2>2 DEF DriveSibling
<1> QED
  BY <1>1, <1>2, <1>5, <1>6, <1>8, <1>9, <1>10, <1>11, <1>12, <1>14, <1>3, <1>4
  DEF Next, Progress, Disturbance, SelectAndFinalize, ReviseOnce, Crash, CommitCursor,
      EndLaunch


\* A judged record always has its decision.
LEMMA JudgedStep ==
    ASSUME IInv, [Next]_vars PROVE JudgedHasDecision'
<1>1. TypeOK /\ JudgedHasDecision
  BY DEF IInv
<1>2. ASSUME NEW i \in Siblings
      PROVE  rec'[i] # None /\ rec'[i].state = "Judged" => rec'[i].decision \in Decision
  <2>1. rec[i] \in Record \cup {None} /\ Moves(rec[i], rec'[i])
    BY <1>1, RecStep DEF TypeOK
  <2>2. rec'[i] = rec[i] \/ rec'[i].decision \in Decision \/ rec'[i].state # "Judged"
             \/ rec'[i] = None
    BY <2>1, MovesFacts
  <2> QED BY <1>1, <2>2 DEF JudgedHasDecision
<1>3. ASSUME NEW i \in Siblings
      PROVE  retry'[i] # None /\ retry'[i].state = "Judged"
                => retry'[i].decision \in Decision
  <2>1. retry[i] \in Record \cup {None} /\ Moves(retry[i], retry'[i])
    BY <1>1, RetryStep DEF TypeOK
  <2>2. retry'[i] = retry[i] \/ retry'[i].decision \in Decision \/ retry'[i].state # "Judged"
             \/ retry'[i] = None
    BY <2>1, MovesFacts
  <2> QED BY <1>1, <2>2 DEF JudgedHasDecision
<1> QED BY <1>2, <1>3 DEF JudgedHasDecision

\* A second winner would need a second election, and an election looks first for
\* an established winner.
LEMMA OneWinnerStep ==
    ASSUME IInv, [Next]_vars PROVE OneWinner'
<1>1. /\ WinnerStandsAlone /\ OneWinner
      /\ pc = "finalize" => winner \in Siblings
  BY DEF IInv, Discipline
<1>2. \A i \in Siblings :
         Has(rec'[i], Winning) =>
            Has(rec[i], Winning) \/ (pc = "finalize" /\ i = winner)
  BY RecStep
<1>3. ASSUME NEW i \in Siblings, NEW j \in Siblings,
             Has(rec'[i], Winning), Has(rec'[j], Winning)
      PROVE  i = j
  <2>1. CASE pc = "finalize"
    BY <1>1, <1>2, <1>3, <2>1 DEF WinnerStandsAlone, Winning
  <2>2. CASE pc # "finalize"
    BY <1>1, <1>2, <1>3, <2>2 DEF OneWinner, Winning
  <2> QED BY <2>1, <2>2
<1>4. \A i \in Siblings : Has(rec'[i], Winning) <=>
                              Has(rec[i], {"Admitted", "Formatted", "Revising"})'
  BY DEF Has, Winning
<1> QED BY <1>3, <1>4 DEF OneWinner

\* Elect enters "finalize" only with the one established record, or with none.
LEMMA WinnerStep ==
    ASSUME IInv, [Next]_vars PROVE WinnerStandsAlone'
<1>1. /\ WinnerStandsAlone /\ OneWinner /\ Discipline
  BY DEF IInv
<1>2. SUFFICES ASSUME pc' = "finalize", NEW i \in Siblings, Has(rec'[i], Winning)
               PROVE  i = winner'
  BY DEF WinnerStandsAlone, Has, Winning
<1>3. Has(rec[i], Winning) \/ (pc = "finalize" /\ i = winner)
  BY <1>2, RecStep
<1>4. CASE pc = "finalize" /\ winner' = winner
  BY <1>1, <1>3, <1>4 DEF WinnerStandsAlone, Winning
<1>5. CASE Elect
  <2>1. Has(rec[i], Winning)
    BY <1>3, <1>5 DEF Elect
  <2>2. i \in Established
    BY <1>1, <1>5, <2>1 DEF Elect, Established, is_established_winner, Has, Winning
  <2>3. winner' \in Siblings /\ winner' \in Established /\ rec[winner'] # None
    BY <1>1, <1>2, <1>5, <2>2 DEF Elect, First, Established, Discipline, AfterFanout
  <2>4. Has(rec[winner'], Winning)
    BY <2>3 DEF Established, is_established_winner, Has, Winning
  <2> QED BY <1>1, <2>1, <2>3, <2>4 DEF OneWinner, Winning
<1>6. (pc = "finalize" /\ winner' = winner) \/ Elect
  <2>1. CASE UNCHANGED vars
    BY <1>2, <2>1 DEF vars, volatile
  <2>2. CASE SelectAndFinalize
    BY <1>2, <2>2 DEF SelectAndFinalize, FinalizeStop, FinalizeReconcile,
                      FinalizeFormat, Retain, Retained, Goto, EndLaunch, Ended
  <2>3. ASSUME NEW j \in Siblings, DriveSibling(j) PROVE FALSE
    BY <1>2, <2>3 DEF DriveSibling, FindOrGenerate, CallTeacher, TeacherAnswers,
                      TeacherTruncates, DriveCheck, DriveStep, RecordFault,
                      SystemicFault, Task, Join
  <2>4. CASE ReviseOnce
    BY <1>2, <2>4 DEF ReviseOnce, ReviseNext, RetryCall, RetryAnswers, RetryDrive,
                      RetryFault, RetryCanFault, Revised, Revise, Goto, EndLaunch, Ended
  <2>5. CASE Launch \/ StartGroup \/ GroupJoined \/ CommitCursor
             \/ Disturbance
    BY <1>2, <2>5 DEF Launch, StartGroup, GroupJoined, Goto,
                      CommitCursor, Disturbance, Crash, Cancel, EndLaunch, Ended
  <2> QED BY <2>1, <2>2, <2>3, <2>4, <2>5 DEF Next, Progress
<1> QED BY <1>4, <1>5, <1>6

\* A request is only issued after nothing was found stored, and what it waits for
\* is stored by its own answer.
LEMMA NeverRespendStep ==
    ASSUME IInv, [Next]_vars PROVE NeverRespend'
<1>a. TypeOK /\ Discipline /\ NeverRespend
  BY DEF IInv
<1> DEFINE Asking == {"gate", "calling", "calling again"}
<1>1. CASE Ended
  BY <1>1 DEF Ended, AllTasks, NeverRespend
<1>2. CASE /\ rec' = rec /\ retry' = retry /\ task' = task
           /\ pc' \in {"retry gate", "retry call"} => pc' = pc /\ next' = next
  BY <1>2, <1>a DEF NeverRespend
<1>3. CASE UNCHANGED vars \/ Launch \/ Cancel
  BY <1>2, <1>3 DEF vars, durable, volatile, Launch, Cancel
<1>4. CASE (StartGroup \/ GroupJoined \/ Retained) /\ ~ EndLaunch
  BY <1>2, <1>4 DEF StartGroup, GroupJoined, Retained, durable
<1>5. CASE Elect \/ FinalizeStop \/ Revised
  BY <1>2, <1>5 DEF Elect, FinalizeStop, Revised, Goto, durable
<1>6. CASE FinalizeReconcile \/ FinalizeFormat \/ Retain
  <2>1. /\ pc \in AfterFanout /\ task' = task
        /\ pc' \notin {"retry gate", "retry call"}
    BY <1>6 DEF FinalizeReconcile, FinalizeFormat, Retain, Goto, AfterFanout
  <2> QED BY <1>a, <2>1 DEF Discipline, NeverRespend
<1>7. CASE ReviseNext /\ ~ EndLaunch
  <2>1. retry' = retry /\ rec' = rec /\ task' = task
    BY <1>7 DEF ReviseNext, Revise
  <2>2. CASE pc' \in {"retry gate", "retry call"}
    <3>1. next' = next /\ retry[next] = None
      BY <1>7, <1>a, <2>2, LoopFacts DEF ReviseNext, Revise, TypeOK
    <3> QED BY <1>a, <2>1, <3>1 DEF NeverRespend
  <2> QED BY <1>a, <2>1, <2>2 DEF NeverRespend
<1>8. CASE RetryCall /\ ~ EndLaunch
  <2>1. next \in Siblings /\ next + 0 = next
    BY <1>8, <1>a, LoopFacts DEF RetryCall, Discipline, Retrying
  <2> QED BY <1>8, <1>a, <2>1 DEF RetryCall, Revise, NeverRespend
<1>9. CASE (RetryAnswers \/ RetryDrive \/ RetryFault) /\ ~ EndLaunch
  BY <1>9, <1>a DEF RetryAnswers, RetryDrive, RetryFault, RetryCanFault, Revise, NeverRespend
<1>10. ASSUME NEW i \in Siblings, NEW from, NEW to, Task(i, from, to),
              \A j \in Siblings \ {i} : rec'[j] = rec[j],
              to \in Asking => rec'[i] = None
       PROVE  NeverRespend'
  <2>1. /\ task'[i] = to
        /\ \A j \in Siblings \ {i} : task'[j] = task[j]
    BY <1>10, <1>a DEF Task, TypeOK
  <2> QED BY <1>10, <1>a, <2>1 DEF Task, NeverRespend
<1>11. ASSUME NEW i \in Siblings, DriveSibling(i) PROVE NeverRespend'
  <2>1. CASE FindOrGenerate(i)
    BY <1>10, <2>1 DEF FindOrGenerate
  <2>2. CASE CallTeacher(i)
    BY <1>10, <1>a, <2>2 DEF CallTeacher, Task, NeverRespend
  <2>3. CASE TeacherAnswers(i)
    BY <1>10, <2>3, <1>a DEF TeacherAnswers, TypeOK
  <2>4. CASE TeacherTruncates(i)
    <3>1. rec[i] = None
      BY <1>a, <2>4 DEF TeacherTruncates, Task, NeverRespend
    <3> QED BY <1>10, <2>4, <1>a, <3>1 DEF TeacherTruncates, TypeOK
  <2>5. CASE DriveCheck(i)
    BY <1>10, <2>5 DEF DriveCheck
  <2>6. CASE DriveStep(i)
    <3>1. \A j \in Siblings \ {i} : rec'[j] = rec[j]
      BY <1>a, <2>6 DEF DriveStep, TypeOK
    <3> QED BY <1>10, <2>6, <3>1 DEF DriveStep
  <2>7. CASE RecordFault(i)
    BY <1>10, <1>a, <2>7 DEF RecordFault, TypeOK
  <2>8. CASE SystemicFault(i)
    BY <1>10, <2>8 DEF SystemicFault
  <2>9. CASE Join(i)
    BY <1>a, <2>9 DEF Join, durable, TypeOK, NeverRespend
  <2> QED BY <1>11, <2>1, <2>2, <2>3, <2>4, <2>5, <2>6, <2>7, <2>8, <2>9 DEF DriveSibling
<1> QED
  BY <1>1, <1>3, <1>4, <1>5, <1>6, <1>7, <1>8, <1>9, <1>11
  DEF Next, Progress, Disturbance, SelectAndFinalize, ReviseOnce, Crash, CommitCursor,
      EndLaunch

-----------------------------------------------------------------------------
(* The theorems                                                            *)

\* Nothing is stored and nobody runs when the item is first launched.
LEMMA InitIInv == Init => IInv
<1> SUFFICES ASSUME Init PROVE IInv
  OBVIOUS
<1>1. TypeOK
  BY LoopFacts DEF Init, TypeOK, AllTasks, Label, TaskState
<1>2. Discipline /\ JudgedHasDecision /\ NeverRespend /\ WinnerStandsAlone /\ OneWinner
  BY DEF Init, AllTasks, Discipline, AfterFanout, Retrying, JudgedHasDecision,
         NeverRespend, WinnerStandsAlone, OneWinner, Has
<1> QED BY <1>1, <1>2 DEF IInv

\* IInv holds throughout every run.
THEOREM Invariance == Spec => []IInv
<1>1. IInv /\ [Next]_vars => IInv'
  BY TypeStep, DisciplineStep, JudgedStep, NeverRespendStep, WinnerStep, OneWinnerStep
  DEF IInv
<1> QED BY InitIInv, <1>1, PTL DEF Spec

\* Every variable has its declared shape (TypeOK).
THEOREM TypeCorrect == Spec => []TypeOK
<1>1. IInv => TypeOK
  BY DEF IInv
<1> QED BY Invariance, <1>1, PTL

\* A best-of-k group never has two winners, whatever the scheduling of its
\* siblings and wherever crashes, cancellations and faults end its launches.
THEOREM NeverTwoWinners == Spec => []OneWinner
<1>1. IInv => OneWinner
  BY DEF IInv
<1> QED BY Invariance, <1>1, PTL

\* The teacher is never asked for a record that is already stored.
THEOREM TeacherNeverRespent == Spec => []NeverRespend
<1>1. IInv => NeverRespend
  BY DEF IInv
<1> QED BY Invariance, <1>1, PTL

\* No step clobbers a decided record or loses a record (NoClobber), whichever
\* fault, retry or relaunch it belongs to.
THEOREM DecidedRecordsAreKept == Spec => NoClobber
<1> DEFINE Kept ==
      \A i \in Siblings :
          /\ rec[i] # None => rec'[i] # None
          /\ rec[i] # None /\ is_decided(rec[i].state) =>
                \/ rec'[i] = rec[i]
                \/ /\ rec[i].state = "Admitted"
                   /\ rec'[i] = [rec[i] EXCEPT !.state = "Formatted"]
          /\ retry[i] # None /\ is_decided(retry[i].state) =>
                \/ retry'[i] = retry[i]
                \/ /\ retry[i].state = "Admitted"
                   /\ retry'[i] = [retry[i] EXCEPT !.state = "Formatted"]
<1>1. ASSUME IInv, [Next]_vars PROVE Kept
  <2> SUFFICES ASSUME NEW i \in Siblings
               PROVE  Kept!(i)
    OBVIOUS
  <2>1. rec[i] \in Record \cup {None} /\ retry[i] \in Record \cup {None}
    BY <1>1 DEF IInv, TypeOK
  <2>2. Moves(rec[i], rec'[i]) /\ Moves(retry[i], retry'[i])
    BY <1>1, RecStep, RetryStep
  <2> QED BY <2>1, <2>2, MovesFacts
<1>2. IInv /\ [Next]_vars => [Kept]_vars
  BY <1>1
<1> HIDE DEF Kept
<1>3. Spec => [][Kept]_vars
  BY Invariance, <1>2, PTL DEF Spec
<1> QED BY <1>3 DEF NoClobber, Kept

-----------------------------------------------------------------------------
(* The group as a whole                                                    *)

Driven(i) == rec[i] # None /\ rec[i].state \notin {"AssistantGenerated", "Verified"}

\* A fan-out that was not cut short leaves every sibling judged, decided or parked; that is
\* what the records of a decided group still show.
GroupDriven ==
    /\ \A i \in Siblings :
          /\ task[i] = "ok" => cancelled \/ Driven(i)
          /\ task[i] = "parked" => Driven(i)
          /\ task[i] = "joined" => interrupted \/ first_fatal \/ Driven(i)
    /\ pc \in AfterFanout => \A i \in Siblings : Driven(i)
    /\ DecideTogether

\* Only a judged record has a decision, and only an admissible one is established.
Graded ==
    \A i \in Siblings : rec[i] # None =>
        /\ rec[i].decision # None =>
              /\ rec[i].decision \in Decision /\ rec[i].score \in Scores
              /\ rec[i].state \notin {"AssistantGenerated", "Verified", "Error"}
        /\ rec[i].state \in Winning => is_admissible(rec[i])
        /\ rec[i].state = "NeedsReview" => ~ is_admissible(rec[i])

Admissible(i) == rec[i] # None /\ rec[i].decision \in {"Accept", "Revise"}

\* A sibling that has won or may still win.
Stands(i) == Admissible(i) /\ rec[i].state \in {"Judged"} \cup Winning

Beats(r, i, q, j) == q.score < r.score \/ (q.score = r.score /\ i <= j)

\* Whoever was rejected for another's sake was beaten by one that still stands, also if
\* the launch that elected that one ended before it was decided.
RunnersUp ==
    /\ \A j \in Siblings :
          Admissible(j) /\ rec[j].state = "Rejected" =>
              \E i \in Siblings : Stands(i) /\ Beats(rec[i], i, rec[j], j)
    /\ \A i, j \in Siblings :
          Has(rec[i], Winning) /\ Admissible(j) => Beats(rec[i], i, rec[j], j)
    /\ pc \in {"finalize", "retain"} /\ winner # None =>
          /\ Stands(winner)
          /\ \A j \in Siblings : Admissible(j) => Beats(rec[winner], winner, rec[j], j)
    /\ pc = "retain" /\ winner = None => \A i \in Siblings : ~ Stands(i)

\* The retry of sibling i needs nothing more.
RetryDone(i) == retry[i] # None /\ is_terminal(retry[i].state)

\* What the loops after the election have dealt with so far.
Settling ==
    /\ pc \in {"down", "start", "fanout", "elect", "finalize"} => next = 0
    /\ pc = "retain" =>
          /\ \A i \in Siblings : Has(rec[i], Winning) => i = winner
          /\ cancelled \/ \A i \in Siblings : i < next \/ i = winner => is_terminal(rec[i].state)
    /\ pc \in {"revise"} \cup Retrying =>
          /\ \A i \in Siblings : is_terminal(rec[i].state)
          /\ \A i \in Siblings : i < next /\ rec[i].state = "Revising" => RetryDone(i)
    /\ pc \in Retrying => rec[next].state = "Revising"
    /\ pc = "settled" => \A i \in Siblings : Done(i)
    /\ committed => pc = "down" /\ \A i \in Siblings : Done(i)

\* Only what renders has, or gets, an admissible decision.
Renders(r) == r # None =>
                 /\ is_admissible(r) => r.clean
                 /\ r.state \in {"Admitted", "Formatted"} => r.clean

AllRender == \A i \in Siblings : Renders(rec[i]) /\ Renders(retry[i])

GInv == GroupDriven /\ Graded /\ RunnersUp /\ SingleRevise /\ Settling /\ AllRender

\* What a step may do to the record of one sibling: the fan-out creates it, verifies it,
\* parks it or judges it; the finalization decides the winner; retaining decides the others.
Edge(i) ==
    \/ rec'[i] = rec[i]
    \/ /\ pc = "fanout" /\ rec[i] = None
       /\ rec'[i] \in Record /\ rec'[i].decision = None
       /\ rec'[i].state \in {"AssistantGenerated", "Error"}
    \/ /\ pc = "fanout" /\ rec[i] # None /\ rec'[i] \in Record
       /\ rec[i].state \in {"AssistantGenerated", "Verified"}
       /\ \/ rec'[i].state \in {"Verified", "Error"} /\ rec'[i].decision = rec[i].decision
          \/ /\ rec[i].state = "Verified" /\ rec'[i].state = "Judged"
             /\ rec'[i].decision \in Decision /\ rec'[i].score \in Scores
    \/ /\ rec[i] # None /\ rec'[i] \in Record
       /\ rec'[i].decision = rec[i].decision /\ rec'[i].score = rec[i].score
       /\ \/ /\ pc = "finalize" /\ i = winner /\ rec[i].state = "Judged"
             /\ is_admissible(rec[i]) => rec'[i].state \in {"Admitted", "Revising"}
             /\ ~ is_admissible(rec[i]) => rec'[i].state \in {"Rejected", "NeedsReview"}
          \/ /\ pc = "finalize" /\ i = winner
             /\ rec[i].state = "Admitted" /\ rec'[i].state = "Formatted"
          \/ /\ pc = "retain" /\ i = next /\ i # winner /\ rec[i].state = "Judged"
             /\ rec'[i].state \in {"Rejected", "NeedsReview"}
             /\ is_admissible(rec[i]) => rec'[i].state = "Rejected"

\* Replacing the state leaves the judgment; reconciling follows it.
LEMMA ReconcileKeeps ==
    ASSUME NEW r \in Record, r.decision \in Decision
    PROVE  /\ reconcile(r, FALSE) \in Record
           /\ reconcile(r, FALSE).decision = r.decision
           /\ reconcile(r, FALSE).score = r.score
           /\ is_admissible(r) => reconcile(r, FALSE).state \in {"Admitted", "Revising"}
           /\ ~ is_admissible(r) => reconcile(r, FALSE).state \in {"Rejected", "NeedsReview"}
<1>1. reconcile(r, FALSE) \in Record
  BY ReconcileFacts
<1>2. reconcile(r, FALSE) = [r EXCEPT !.state = to_lifecycle(r.decision)]
  BY DEF reconcile
<1>3. /\ is_admissible(r) => to_lifecycle(r.decision) \in {"Admitted", "Revising"}
      /\ ~ is_admissible(r) => to_lifecycle(r.decision) \in {"Rejected", "NeedsReview"}
  BY DEF to_lifecycle, is_admissible, Decision
<1> DEFINE s == to_lifecycle(r.decision)
<1> HIDE DEF s
<1>4. /\ [r EXCEPT !.state = s].decision = r.decision /\ [r EXCEPT !.state = s].score = r.score
      /\ [r EXCEPT !.state = s].state = s
  BY DEF Record
<1> QED BY <1>1, <1>2, <1>3, <1>4 DEF s

\* Setting the state of a record changes nothing else of it.
LEMMA StateKeeps ==
    ASSUME NEW r \in Record, NEW s \in State
    PROVE  /\ [r EXCEPT !.state = s] \in Record /\ [r EXCEPT !.state = s].state = s
           /\ [r EXCEPT !.state = s].decision = r.decision
           /\ [r EXCEPT !.state = s].score = r.score
BY DEF Record

\* Every step leaves a record alone or takes it along one of these edges.
LEMMA EdgeStep ==
    ASSUME IInv, [Next]_vars
    PROVE  \A i \in Siblings : Edge(i)
<1> DEFINE Goal == \A i \in Siblings : Edge(i)
<1> SUFFICES Goal
  OBVIOUS
<1>a. TypeOK /\ Discipline /\ JudgedHasDecision /\ NeverRespend
  BY DEF IInv
<1>b. ASSUME rec' = rec PROVE Goal
  BY <1>b DEF Edge
<1>c. ASSUME NEW i \in Siblings, NEW x, rec' = [rec EXCEPT ![i] = x], rec'[i] = x => Edge(i)
      PROVE  Goal
  <2>1. rec'[i] = x /\ \A j \in Siblings : j # i => rec'[j] = rec[j]
    BY <1>a, <1>c DEF TypeOK
  <2>2. ASSUME NEW j \in Siblings, j # i PROVE Edge(j)
    BY <2>1, <2>2 DEF Edge
  <2> QED BY <1>c, <2>1, <2>2
<1> HIDE DEF Goal
<1>d. ASSUME NEW r \in Record, NEW s \in {"Verified", "Error", "Formatted", "Rejected"},
             NEW x, x = [r EXCEPT !.state = s]
      PROVE  /\ x \in Record /\ x.state = s
             /\ x.decision = r.decision /\ x.score = r.score
  <2>1. s \in State
    BY DEF State
  <2> QED BY <1>d, <2>1, StateKeeps
<1>1. ASSUME NEW i \in Siblings, TeacherAnswers(i) PROVE Goal
  <2>1. PICK clean \in BOOLEAN : rec' = [rec EXCEPT ![i] = Generated(clean)]
    BY <1>1 DEF TeacherAnswers
  <2>2. rec[i] = None /\ pc = "fanout"
    BY <1>1, <1>a DEF TeacherAnswers, Task, NeverRespend
  <2>3. Generated(clean).decision = None
    BY DEF Generated
  <2>4. rec'[i] = Generated(clean) => Edge(i)
    BY <2>2, <2>3, GeneratedFacts DEF Edge
  <2> QED BY <1>c, <2>1, <2>4
<1>2. ASSUME NEW i \in Siblings, rec' = [rec EXCEPT ![i] = Parked(rec[i])], pc = "fanout",
             rec[i] = None \/ rec[i].state \in {"AssistantGenerated", "Verified"}
      PROVE  Goal
  <2>1. CASE rec[i] = None
    <3>1. error_stub \in Record /\ error_stub.decision = None /\ error_stub.state = "Error"
      BY DEF error_stub, Record, State
    <3>2. rec'[i] = Parked(rec[i]) => Edge(i)
      BY <1>2, <2>1, <3>1 DEF Edge, Parked
    <3> QED BY <1>c, <1>2, <3>2
  <2>2. CASE rec[i] # None
    <3>1. rec[i] \in Record /\ ~ is_decided(rec[i].state)
      BY <1>2, <1>a, <2>2 DEF TypeOK, is_decided
    <3>2. Parked(rec[i]) = [rec[i] EXCEPT !.state = "Error"]
      BY <2>2, <3>1 DEF Parked
    <3>3. ASSUME rec'[i] = Parked(rec[i]) PROVE Edge(i)
      <4>1. /\ rec'[i] \in Record /\ rec'[i].state = "Error"
            /\ rec'[i].decision = rec[i].decision
        BY <1>d, <3>1, <3>2, <3>3
      <4> QED BY <1>2, <2>2, <4>1 DEF Edge
    <3> QED BY <1>c, <1>2, <3>3
  <2> QED BY <2>1, <2>2
<1>3. ASSUME NEW i \in Siblings, DriveStep(i) PROVE Goal
  <2>1. /\ rec[i] \in Record /\ rec[i] # None /\ pc = "fanout"
        /\ rec[i].state \in {"AssistantGenerated", "Verified"}
    BY <1>3, <1>a DEF DriveStep, Task, TypeOK, Discipline
  <2>2. CASE rec' = [rec EXCEPT ![i] = verify(rec[i])]
    <3>1. verify(rec[i]) = [rec[i] EXCEPT !.state = "Verified"]
      BY DEF verify
    <3>2. ASSUME rec'[i] = verify(rec[i]) PROVE Edge(i)
      <4>1. /\ rec'[i] \in Record /\ rec'[i].state = "Verified"
            /\ rec'[i].decision = rec[i].decision
        BY <1>d, <2>1, <3>1, <3>2
      <4> QED BY <2>1, <4>1 DEF Edge
    <3> QED BY <1>c, <2>2, <3>2
  <2>3. ASSUME NEW d \in Decision, NEW s \in Scores, rec[i].state = "Verified",
               rec' = [rec EXCEPT ![i] = judge(rec[i], d, s)]
        PROVE  Goal
    <3>1. judge(rec[i], d, s).score = s
      BY <2>1 DEF judge, Record
    <3>2. rec'[i] = judge(rec[i], d, s) => Edge(i)
      BY <2>1, <2>3, <3>1, GradedFacts DEF Edge
    <3> QED BY <1>c, <2>3, <3>2
  <2> QED BY <1>3, <2>2, <2>3 DEF DriveStep
<1>4. CASE FinalizeReconcile
  <2>1. /\ winner \in Siblings /\ rec[winner] \in Record /\ rec[winner] # None
        /\ rec[winner].decision \in Decision /\ rec[winner].state = "Judged"
        /\ pc = "finalize" /\ rec' = [rec EXCEPT ![winner] = reconcile(rec[winner], FALSE)]
    BY <1>4, <1>a DEF TypeOK, Discipline, AfterFanout, JudgedHasDecision, FinalizeReconcile
  <2>2. rec'[winner] = reconcile(rec[winner], FALSE) => Edge(winner)
    BY <2>1, ReconcileKeeps DEF Edge
  <2> QED BY <1>c, <2>1, <2>2
<1>5. CASE FinalizeFormat
  <2>1. /\ winner \in Siblings /\ pc = "finalize" /\ rec[winner] # None /\ rec[winner] \in Record
        /\ rec[winner].state = "Admitted"
        /\ rec' = [rec EXCEPT ![winner] = [rec[winner] EXCEPT !.state = "Formatted"]]
    BY <1>5, <1>a DEF Discipline, AfterFanout, FinalizeFormat, TypeOK
  <2>2. ASSUME rec'[winner] = [rec[winner] EXCEPT !.state = "Formatted"] PROVE Edge(winner)
    <3>1. /\ rec'[winner] \in Record /\ rec'[winner].state = "Formatted"
          /\ rec'[winner].decision = rec[winner].decision
          /\ rec'[winner].score = rec[winner].score
      BY <1>d, <2>1, <2>2
    <3> QED BY <2>1, <3>1 DEF Edge
  <2> QED BY <1>c, <2>1, <2>2
<1>6. CASE Retain
  <2>1. next \in Siblings /\ rec[next] \in Record /\ rec[next] # None /\ pc = "retain"
    BY <1>6, <1>a, LoopFacts DEF TypeOK, Discipline, AfterFanout, Retain
  <2>2. CASE next = winner \/ rec[next].state # "Judged"
    BY <1>6, <1>b, <2>2 DEF Retain
  <2>3. CASE next # winner /\ rec[next].state = "Judged" /\ is_admissible(rec[next])
    <3>1. rec' = [rec EXCEPT ![next] = [rec[next] EXCEPT !.state = "Rejected"]]
      BY <1>6, <2>3 DEF Retain
    <3>2. ASSUME rec'[next] = [rec[next] EXCEPT !.state = "Rejected"] PROVE Edge(next)
      <4>1. /\ rec'[next] \in Record /\ rec'[next].state = "Rejected"
            /\ rec'[next].decision = rec[next].decision /\ rec'[next].score = rec[next].score
        BY <1>d, <2>1, <3>2
      <4> QED BY <2>1, <2>3, <4>1 DEF Edge
    <3> QED BY <1>c, <2>1, <3>1, <3>2
  <2>4. CASE next # winner /\ rec[next].state = "Judged" /\ ~ is_admissible(rec[next])
    <3>1. rec' = [rec EXCEPT ![next] = reconcile(rec[next], FALSE)] \/ rec' = rec
      BY <1>6, <2>4 DEF Retain
    <3>2. rec[next].decision \in Decision
      BY <1>a, <2>1, <2>4 DEF JudgedHasDecision
    <3>3. rec'[next] = reconcile(rec[next], FALSE) => Edge(next)
      BY <2>1, <2>4, <3>2, ReconcileKeeps DEF Edge
    <3> QED BY <1>b, <1>c, <2>1, <3>1, <3>3
  <2> QED BY <2>2, <2>3, <2>4
<1>7. ASSUME NEW i \in Siblings, TeacherTruncates(i) \/ RecordFault(i) PROVE Goal
  <2>1. CASE rec' = rec
    BY <1>b, <2>1
  <2>2. CASE /\ rec' = [rec EXCEPT ![i] = Parked(rec[i])] /\ pc = "fanout"
             /\ task[i] \in Working
    <3>1. rec[i] = None \/ rec[i].state \in {"AssistantGenerated", "Verified"}
      BY <1>a, <2>2 DEF Working, NeverRespend, Discipline
    <3> QED BY <1>2, <2>2, <3>1
  <2> QED BY <1>7, <2>1, <2>2 DEF TeacherTruncates, RecordFault, Task, Working
<1>8. ASSUME NEW i \in Siblings, DriveSibling(i) PROVE Goal
  BY <1>8, <1>b, <1>1, <1>3, <1>7
  DEF DriveSibling, FindOrGenerate, CallTeacher, DriveCheck, SystemicFault, Join, durable
<1>9. CASE ReviseOnce
  BY <1>9, <1>b DEF ReviseOnce, ReviseNext, RetryCall, RetryAnswers, RetryDrive,
                    RetryFault, RetryCanFault, Revised, Revise, Goto, EndLaunch, durable
<1>10. CASE Launch \/ StartGroup \/ GroupJoined \/ Elect \/ FinalizeStop \/ Retained
            \/ CommitCursor \/ Disturbance \/ UNCHANGED vars
  BY <1>10, <1>b DEF Launch, StartGroup, GroupJoined, Elect, FinalizeStop, Retained,
                     CommitCursor, Disturbance, Crash, Cancel,
                     EndLaunch, durable, vars
<1> QED
  BY <1>4, <1>5, <1>6, <1>8, <1>9, <1>10 DEF Next, Progress, SelectAndFinalize

\* Only a judged record has a decision, and deciding follows it.
LEMMA GradedStep ==
    ASSUME IInv, Graded, [Next]_vars
    PROVE  Graded'
<1> SUFFICES ASSUME NEW i \in Siblings, rec'[i] # None
             PROVE  /\ rec'[i].decision # None =>
                          /\ rec'[i].decision \in Decision /\ rec'[i].score \in Scores
                          /\ rec'[i].state \notin {"AssistantGenerated", "Verified", "Error"}
                    /\ rec'[i].state \in Winning => is_admissible(rec'[i])
                    /\ rec'[i].state = "NeedsReview" => ~ is_admissible(rec'[i])
  BY DEF Graded
<1>1. Edge(i)
  BY EdgeStep
<1>2. rec[i] # None =>
        /\ rec[i].decision # None =>
              /\ rec[i].decision \in Decision /\ rec[i].score \in Scores
              /\ rec[i].state \notin {"AssistantGenerated", "Verified", "Error"}
        /\ rec[i].state \in Winning => is_admissible(rec[i])
        /\ rec[i].state = "NeedsReview" => ~ is_admissible(rec[i])
  BY DEF Graded
<1>3. "Judged" \notin Winning /\ "Error" \notin Winning /\ "AssistantGenerated" \notin Winning
      /\ "Verified" \notin Winning /\ "Admitted" \in Winning
      /\ "Rejected" \notin Winning /\ "NeedsReview" \notin Winning
  BY DEF Winning
<1> QED BY <1>1, <1>2, <1>3 DEF Edge, is_admissible

\* A driven sibling stays driven, with the judgment it has.
LEMMA DrivenKeeps ==
    ASSUME IInv, [Next]_vars, NEW i \in Siblings, Driven(i)
    PROVE  /\ Driven(i)' /\ rec'[i].decision = rec[i].decision /\ rec'[i].score = rec[i].score
           /\ Admissible(i)' <=> Admissible(i)
<1>1. Edge(i)
  BY EdgeStep
<1>2. /\ rec'[i] # None /\ rec'[i].state \notin {"AssistantGenerated", "Verified"}
      /\ rec'[i].decision = rec[i].decision /\ rec'[i].score = rec[i].score
  BY <1>1, NoneIsNoRecord DEF Driven, Edge
<1> QED BY <1>2 DEF Driven, Admissible

Final == {"Admitted", "Formatted", "Revising", "Rejected", "NeedsReview"}

\* A sibling is decided only in a group that was driven.
LEMMA DecidedLate ==
    ASSUME IInv, GroupDriven, [Next]_vars, NEW i \in Siblings, Has(rec'[i], Final)
    PROVE  \A j \in Siblings : Driven(j)
<1>1. Edge(i)
  BY EdgeStep
<1>2. Has(rec[i], Final) \/ pc \in {"finalize", "retain"}
  BY <1>1 DEF Edge, Has, Final
<1> QED BY <1>2 DEF GroupDriven, DecideTogether, Driven, Has, Final, AfterFanout

\* The whole group is driven before anyone is decided, whatever the step.
LEMMA GroupDrivenStep ==
    ASSUME IInv, GroupDriven, [Next]_vars
    PROVE  GroupDriven'
<1>a. TypeOK /\ Discipline
  BY DEF IInv
<1>b. \A i \in Siblings : Driven(i) => Driven(i)'
  BY DrivenKeeps
<1>1. DecideTogether'
  <2> SUFFICES ASSUME NEW i \in Siblings, Has(rec'[i], Final)
               PROVE  \A j \in Siblings : Driven(j)'
    BY DEF DecideTogether, Has, Final, Driven
  <2> QED BY <1>b, DecidedLate
<1> DEFINE Tasks == /\ \A i \in Siblings :
                         /\ task[i] = "ok" => cancelled \/ Driven(i)
                         /\ task[i] = "parked" => Driven(i)
                         /\ task[i] = "joined" => interrupted \/ first_fatal \/ Driven(i)
                    /\ pc \in AfterFanout => \A i \in Siblings : Driven(i)
<1>2. SUFFICES Tasks'
  BY <1>1 DEF GroupDriven
<1>c. Tasks
  BY DEF GroupDriven
<1>3. CASE Ended
  BY <1>3 DEF Ended, AllTasks, AfterFanout
<1>4. ASSUME task' = task, cancelled => cancelled', interrupted => interrupted',
             first_fatal => first_fatal', pc' \in AfterFanout => pc \in AfterFanout
      PROVE  Tasks'
  BY <1>4, <1>b, <1>c
<1>5. CASE UNCHANGED vars \/ Launch \/ Cancel \/ (StartGroup /\ ~ EndLaunch)
  <2>1. CASE UNCHANGED vars
    BY <1>4, <2>1 DEF vars, volatile
  <2>2. CASE Launch \/ (StartGroup /\ ~ EndLaunch)
    BY <1>4, <2>2 DEF Launch, StartGroup, AfterFanout
  <2>3. CASE Cancel
    BY <1>4, <2>3 DEF Cancel
  <2> QED BY <1>5, <2>1, <2>2, <2>3
<1>6. CASE GroupJoined /\ ~ EndLaunch
  <2>1. /\ task' = task /\ cancelled' = cancelled /\ interrupted' = interrupted
        /\ first_fatal' = first_fatal /\ rec' = rec
        /\ ~ first_fatal /\ ~ interrupted /\ \A i \in Siblings : task[i] = "joined"
    BY <1>6 DEF GroupJoined, durable
  <2>2. \A i \in Siblings : Driven(i)
    BY <2>1, <1>c
  <2> QED BY <1>b, <1>c, <2>1, <2>2
<1>7. CASE SelectAndFinalize /\ ~ EndLaunch
  <2>1. pc \in AfterFanout
    BY <1>7 DEF SelectAndFinalize, Elect, FinalizeStop, FinalizeReconcile, FinalizeFormat,
                Retain, Retained, AfterFanout
  <2>2. /\ task' = task /\ cancelled' = cancelled /\ interrupted' = interrupted
        /\ first_fatal' = first_fatal
    BY <1>7 DEF SelectAndFinalize, Elect, FinalizeStop, FinalizeReconcile, FinalizeFormat,
                Retain, Retained, Goto
  <2> QED BY <1>4, <2>1, <2>2
<1>8. CASE ReviseOnce /\ ~ EndLaunch
  <2>1. pc \in AfterFanout
    BY <1>8 DEF ReviseOnce, ReviseNext, RetryCall, RetryAnswers, RetryDrive, RetryFault,
                RetryCanFault, Revised, AfterFanout
  <2>2. /\ task' = task /\ cancelled' = cancelled /\ interrupted' = interrupted
        /\ first_fatal' = first_fatal
    BY <1>8 DEF ReviseOnce, ReviseNext, RetryCall, RetryAnswers, RetryDrive, RetryFault,
                RetryCanFault, Revised, Revise, Goto
  <2> QED BY <1>4, <2>1, <2>2
<1>10. ASSUME NEW i \in Siblings, NEW from, NEW to, Task(i, from, to),
              to = "ok" => cancelled \/ Driven(i)',
              to = "parked" => Driven(i)', to # "joined"
       PROVE  Tasks'
  <2>1. /\ task'[i] = to /\ \A j \in Siblings : j # i => task'[j] = task[j]
        /\ pc' = "fanout" /\ cancelled' = cancelled /\ interrupted' = interrupted
        /\ first_fatal' = first_fatal
    BY <1>10, <1>a DEF Task, TypeOK
  <2>2. pc' \notin AfterFanout
    BY <2>1 DEF AfterFanout
  <2> QED BY <1>10, <1>b, <1>c, <2>1, <2>2
<1>11. ASSUME NEW i \in Siblings, DriveSibling(i) PROVE Tasks'
  <2>1. CASE FindOrGenerate(i) \/ CallTeacher(i) \/ TeacherAnswers(i) \/ DriveStep(i)
             \/ SystemicFault(i)
    BY <1>10, <2>1 DEF FindOrGenerate, CallTeacher, TeacherAnswers, DriveStep, SystemicFault
  <2>2. ASSUME rec' = [rec EXCEPT ![i] = Parked(rec[i])], task[i] \in Working
        PROVE  Driven(i)'
    <3>1. rec'[i] = Parked(rec[i]) /\ rec[i] \in Record \cup {None}
      BY <1>a, <2>2 DEF TypeOK
    <3>2. /\ Parked(rec[i]) \in Record
          /\ Parked(rec[i]).state \notin {"AssistantGenerated", "Verified"}
      BY <3>1, ParkedFacts DEF is_decided
    <3> QED BY <3>1, <3>2, NoneIsNoRecord DEF Driven
  <2>3. CASE TeacherTruncates(i) \/ RecordFault(i)
    <3>1. CASE Task(i, "calling", "calling again")
      BY <1>10, <3>1
    <3>2. CASE /\ rec' = [rec EXCEPT ![i] = Parked(rec[i])]
               /\ \E from \in Working : Task(i, from, "parked")
      BY <1>10, <2>2, <3>2 DEF Task
    <3> QED BY <2>3, <3>1, <3>2 DEF TeacherTruncates, RecordFault, Working
  <2>4. CASE DriveCheck(i)
    <3>1. rec' = rec /\ rec[i] # None
      BY <2>4, <1>a DEF DriveCheck, Discipline
    <3>2. \/ Task(i, "driving", "stepping")
          \/ Task(i, "driving", "ok") /\ (cancelled \/ Driven(i)')
      BY <2>4, <3>1 DEF DriveCheck, Driven
    <3> QED BY <1>10, <3>2
  <2>5. CASE Join(i)
    <3>1. /\ task'[i] = "joined" /\ \A j \in Siblings : j # i => task'[j] = task[j]
          /\ task[i] \in {"ok", "interrupted", "parked", "halt", "fatal"}
          /\ interrupted' = \/ interrupted
                            \/ task[i] \in {"interrupted", "halt"}
                            \/ task[i] = "ok" /\ cancelled
          /\ cancelled' = (cancelled \/ task[i] \in {"halt", "fatal"})
          /\ first_fatal' = (first_fatal \/ task[i] = "fatal")
          /\ pc' = "fanout"
      BY <2>5, <1>a DEF Join, TypeOK
    <3>2. interrupted' \/ first_fatal' \/ Driven(i)'
      BY <1>b, <1>c, <3>1
    <3>3. pc' \notin AfterFanout
      BY <3>1 DEF AfterFanout
    <3> QED BY <1>b, <1>c, <3>1, <3>2, <3>3
  <2> QED BY <1>11, <2>1, <2>3, <2>4, <2>5 DEF DriveSibling
<1> QED
  BY <1>3, <1>5, <1>6, <1>7, <1>8, <1>11
  DEF Next, Progress, Disturbance, Crash, CommitCursor, EndLaunch, StartGroup, GroupJoined

\* The order of the election is transitive.
LEMMA BeatsTransitive ==
    ASSUME NEW p, NEW q, NEW r, p.score \in Scores, q.score \in Scores, r.score \in Scores,
           NEW i \in Siblings, NEW j \in Siblings, NEW k \in Siblings,
           Beats(p, i, q, j), Beats(q, j, r, k)
    PROVE  Beats(p, i, r, k)
<1>1. p.score \in Int /\ q.score \in Int /\ r.score \in Int
  BY ScoresAssumption
<1>2. i \in Int /\ j \in Int /\ k \in Int
  BY KAssumption DEF Siblings
<1> QED BY <1>1, <1>2 DEF Beats

\* Where the loops of select_and_finalize come from.
LEMMA Finalizing ==
    ASSUME [Next]_vars, pc' \in {"finalize", "retain"}
    PROVE  \/ Elect
           \/ /\ pc \in {"finalize", "retain"} /\ winner' = winner
              /\ pc = "retain" => pc' = "retain"
<1>1. CASE UNCHANGED vars
  BY <1>1 DEF vars, volatile
<1>2. CASE SelectAndFinalize
  BY <1>2 DEF SelectAndFinalize, FinalizeStop, FinalizeReconcile, FinalizeFormat, Retain,
              Retained, Goto, EndLaunch, Ended
<1>3. ASSUME NEW j \in Siblings, DriveSibling(j) PROVE FALSE
  BY <1>3 DEF DriveSibling, FindOrGenerate, CallTeacher, TeacherAnswers, TeacherTruncates,
              DriveCheck, DriveStep, RecordFault, SystemicFault, Task, Join
<1>4. CASE ReviseOnce
  BY <1>4 DEF ReviseOnce, ReviseNext, RetryCall, RetryAnswers, RetryDrive, RetryFault,
                RetryCanFault, Revised, Revise, Goto, EndLaunch, Ended
<1>5. CASE Launch \/ StartGroup \/ GroupJoined \/ CommitCursor \/ Disturbance
  BY <1>5 DEF Launch, StartGroup, GroupJoined, Goto, CommitCursor,
              Disturbance, Crash, Cancel, EndLaunch, Ended
<1> QED BY <1>1, <1>2, <1>3, <1>4, <1>5 DEF Next, Progress

\* Who may win is settled once: the best of the siblings that still stand beats every
\* sibling that could have won.
LEMMA RunnersUpStep ==
    ASSUME IInv, GroupDriven, Graded, RunnersUp, [Next]_vars
    PROVE  RunnersUp'
<1>a. TypeOK /\ Discipline
  BY DEF IInv
<1>b. \A i \in Siblings : Edge(i)
  BY EdgeStep
<1>c. ASSUME NEW i \in Siblings, Admissible(i) PROVE rec[i].score \in Scores
  BY <1>c, NoneAssumption DEF Graded, Admissible, Decision
<1>d. pc \in {"finalize", "retain"} /\ winner # None => winner \in Siblings
  BY <1>a DEF TypeOK
<1>e. winner \in Siblings => winner # None
  BY LoopFacts
<1>f. ASSUME \A k \in Siblings : Driven(k)
      PROVE  /\ \A i \in Siblings : /\ Admissible(i)' <=> Admissible(i)
                                    /\ rec'[i].score = rec[i].score
             /\ \A i, j \in Siblings :
                    Beats(rec[i], i, rec[j], j) => Beats(rec'[i], i, rec'[j], j)
  BY <1>f, DrivenKeeps DEF Beats
<1>g. ASSUME NEW w \in Siblings, w = winner, pc \in {"finalize", "retain"}
      PROVE  Stands(w)' /\ \A j \in Siblings : Admissible(j)' => Beats(rec'[w], w, rec'[j], j)
  <2>1. /\ Stands(w) /\ Edge(w) /\ \A k \in Siblings : Driven(k)
        /\ \A j \in Siblings : Admissible(j) => Beats(rec[w], w, rec[j], j)
    BY <1>b, <1>e, <1>g DEF RunnersUp, GroupDriven, AfterFanout
  <2>2. Admissible(w)' /\ \A j \in Siblings : Admissible(j)' => Beats(rec'[w], w, rec'[j], j)
    BY <1>f, <2>1 DEF Stands
  <2>3. is_admissible(rec[w]) /\ rec[w].state \in {"Judged"} \cup Winning /\ rec[w] # None
    BY <2>1 DEF Stands, Admissible, is_admissible
  <2>4. rec'[w].state \in {"Judged"} \cup Winning
    BY <1>g, <2>1, <2>3 DEF Edge, Winning
  <2> QED BY <2>2, <2>4 DEF Stands
\* the best that stands for those rejected before, and for the one rejected now
<1>1. ASSUME NEW j \in Siblings, Admissible(j)', rec'[j].state = "Rejected"
      PROVE  \E i \in Siblings : Stands(i)' /\ Beats(rec'[i], i, rec'[j], j)
  <2>1. Has(rec'[j], Final)
    BY <1>1 DEF Has, Final, Admissible
  <2>2. /\ \A k \in Siblings : Driven(k)
        /\ \A k \in Siblings : Admissible(k) => rec[k].score \in Scores
    BY <2>1, <1>c, DecidedLate
  <2>3. Admissible(j) /\ Edge(j) /\ rec[j] # None
    BY <1>1, <1>b, <1>f, <2>2 DEF Admissible
  <2>4. CASE pc \in {"finalize", "retain"} /\ winner # None
    BY <1>1, <1>d, <1>g, <2>4
  <2>5. CASE ~ (pc \in {"finalize", "retain"} /\ winner # None)
    <3>1. rec[j].state = "Rejected" \/ (pc = "retain" /\ rec[j].state = "Judged")
      BY <1>1, <1>a, <1>e, <2>3, <2>2, <2>5 DEF Edge, Driven, Discipline
    <3>2. rec[j].state = "Rejected"
      <4> SUFFICES ASSUME pc = "retain", rec[j].state = "Judged" PROVE FALSE
        BY <3>1
      <4>1. winner = None /\ ~ Stands(j)
        BY <2>5 DEF RunnersUp
      <4> QED BY <2>3, <4>1 DEF Stands
    <3>3. PICK i \in Siblings : Stands(i) /\ Beats(rec[i], i, rec[j], j)
      BY <2>3, <3>2 DEF RunnersUp
    <3>4. Edge(i) /\ rec[i] # None /\ rec[i].state \in {"Judged"} \cup Winning
      BY <1>b, <3>3 DEF Stands, Admissible
    <3>5. rec'[i].state = rec[i].state
      BY <1>a, <1>e, <2>2, <2>5, <3>3, <3>4 DEF Edge, Driven, Discipline, RunnersUp
    <3>6. Stands(i)'
      BY <1>f, <2>2, <3>3, <3>5 DEF Stands
    <3> QED BY <1>f, <2>2, <3>3, <3>6
  <2> QED BY <2>4, <2>5
<1>2. ASSUME NEW i \in Siblings, NEW j \in Siblings, Has(rec'[i], Winning), Admissible(j)'
      PROVE  Beats(rec'[i], i, rec'[j], j)
  <2>1. \A k \in Siblings : Driven(k)
    <3>1. Has(rec'[i], Final)
      BY <1>2 DEF Has, Final, Winning
    <3> QED BY <3>1, DecidedLate
  <2>2. Has(rec[i], Winning) \/ (pc = "finalize" /\ i = winner)
    BY <1>2, RecStep
  <2>3. CASE Has(rec[i], Winning)
    BY <1>2, <1>f, <2>1, <2>3 DEF RunnersUp
  <2>4. CASE pc = "finalize" /\ i = winner
    BY <1>2, <1>g, <2>4
  <2> QED BY <2>2, <2>3, <2>4
<1>3. CASE Elect
  <2>1. rec' = rec /\ pc = "elect" /\ \A k \in Siblings : Driven(k)
    BY <1>3 DEF Elect, durable, GroupDriven, AfterFanout
  <2>2. ASSUME NEW i \in Siblings, i \in Established
        PROVE  Stands(i) /\ \A j \in Siblings : Admissible(j) => Beats(rec[i], i, rec[j], j)
    <3>1. Has(rec[i], Winning)
      BY <2>1, <2>2 DEF Established, is_established_winner, Has, Winning, Driven
    <3>2. Stands(i)
      BY <3>1 DEF Graded, Has, Stands, Admissible, is_admissible
    <3> QED BY <3>1, <3>2 DEF RunnersUp
  <2>3. ASSUME NEW i \in Siblings, Established = {}, Best(i)
        PROVE  Stands(i) /\ \A j \in Siblings : Admissible(j) => Beats(rec[i], i, rec[j], j)
    <3>1. \A k \in Siblings : Stands(k) <=> k \in Candidates
      BY <2>1, <2>3 DEF Stands, Candidates, Established, is_established_winner, Winning,
                        Admissible, is_admissible, Driven
    <3>2. \A k \in Siblings : Stands(k) => Beats(rec[i], i, rec[k], k)
      BY <2>3, <3>1 DEF Best, Beats
    <3>3. Stands(i)
      BY <2>3, <3>1 DEF Best
    <3>4. ASSUME NEW j \in Siblings, Admissible(j) PROVE Beats(rec[i], i, rec[j], j)
      <4>1. CASE Stands(j)
        BY <3>2, <4>1
      <4>2. CASE ~ Stands(j)
        <5>1. rec[j].state = "Rejected"
          <6>1. rec[j] \in Record /\ rec[j].decision # None /\ is_admissible(rec[j])
            BY <1>a, <3>4, NoneAssumption DEF TypeOK, Admissible, is_admissible, Decision
          <6>2. /\ rec[j].state \notin {"AssistantGenerated", "Verified", "Error", "NeedsReview"}
                /\ rec[j].state \notin {"Judged"} \cup Winning
            BY <3>4, <4>2, <6>1 DEF Graded, Stands, Admissible
          <6> QED BY <6>1, <6>2 DEF Record, State, Winning
        <5>2. PICK k \in Siblings : Stands(k) /\ Beats(rec[k], k, rec[j], j)
          BY <3>4, <5>1 DEF RunnersUp
        <5>3. Beats(rec[i], i, rec[k], k)
          BY <3>2, <5>2
        <5>4. rec[i].score \in Scores /\ rec[j].score \in Scores /\ rec[k].score \in Scores
          BY <1>c, <3>3, <3>4, <5>2 DEF Stands
        <5> QED BY <5>2, <5>3, <5>4, BeatsTransitive
      <4> QED BY <4>1, <4>2
    <3> QED BY <3>3, <3>4
  <2>4. ASSUME pc' = "retain", winner' = None PROVE \A i \in Siblings : ~ Stands(i)
    <3>1. Established = {} /\ Candidates = {}
      BY <1>3, <2>4, LoopFacts DEF Elect, First, Best
    <3> QED BY <2>1, <3>1 DEF Stands, Candidates, Established, is_established_winner, Winning,
                              Admissible, is_admissible, Driven
  <2>5. \/ winner' = None
        \/ \E i \in Siblings :
              winner' = i /\ (i \in Established \/ (Established = {} /\ Best(i)))
    BY <1>3 DEF Elect, First
  <2>6. winner' # None =>
           \E i \in Siblings :
              /\ winner' = i /\ Stands(i)
              /\ \A j \in Siblings : Admissible(j) => Beats(rec[i], i, rec[j], j)
    BY <2>2, <2>3, <2>5
  <2>7. \A i \in Siblings : (Stands(i)' <=> Stands(i)) /\ (Admissible(i)' <=> Admissible(i))
    BY <2>1 DEF Stands, Admissible
  <2>8. winner' # None =>
           /\ Admissible(winner)' /\ rec'[winner'].state \in {"Judged"} \cup Winning
           /\ \A j \in Siblings : Admissible(j)' => Beats(rec'[winner'], winner', rec'[j], j)
    BY <2>1, <2>6, <2>7 DEF Stands, Admissible
  <2> QED BY <1>1, <1>2, <2>4, <2>7, <2>8 DEF RunnersUp, Stands
<1>4. CASE /\ pc \in {"finalize", "retain"} /\ winner' = winner
           /\ pc = "retain" => pc' = "retain"
  <2>1. winner' # None =>
           /\ Admissible(winner)' /\ rec'[winner'].state \in {"Judged"} \cup Winning
           /\ \A j \in Siblings : Admissible(j)' => Beats(rec'[winner'], winner', rec'[j], j)
    BY <1>d, <1>g, <1>4 DEF Stands, Admissible
  <2>2. ASSUME winner' = None, NEW i \in Siblings PROVE ~ Stands(i)'
    <3>1. pc = "retain" /\ ~ Stands(i) /\ Edge(i) /\ \A k \in Siblings : Driven(k)
      BY <1>a, <1>b, <1>e, <1>4, <2>2 DEF RunnersUp, Discipline, GroupDriven, AfterFanout
    <3>2. Admissible(i)' <=> Admissible(i)
      BY <1>f, <3>1
    <3>3. rec'[i].state \in {"Judged"} \cup Winning => rec'[i] = rec[i]
      BY <3>1 DEF Edge, Winning
    <3> QED BY <3>1, <3>2, <3>3 DEF Stands
  <2> QED BY <1>1, <1>2, <2>1, <2>2 DEF RunnersUp, Stands
<1>5. CASE pc' \notin {"finalize", "retain"}
  BY <1>1, <1>2, <1>5 DEF RunnersUp
<1> QED BY <1>3, <1>4, <1>5, Finalizing

\* Only the retry of the sibling at Revising changes, and it never revises itself.
LEMMA RetryEdge ==
    ASSUME IInv, [Next]_vars, NEW i \in Siblings
    PROVE  \/ retry'[i] = retry[i]
           \/ /\ pc \in Retrying /\ i = next
              /\ \/ retry[i] # None /\ retry[i].state = "Revising"
                 \/ retry'[i].state # "Revising"
<1>a. TypeOK /\ Discipline /\ JudgedHasDecision /\ NeverRespend
  BY DEF IInv
<1> DEFINE Goal == \/ retry'[i] = retry[i]
                   \/ /\ pc \in Retrying /\ i = next
                      /\ \/ retry[i] # None /\ retry[i].state = "Revising"
                         \/ retry'[i].state # "Revising"
<1> SUFFICES Goal
  OBVIOUS
<1>b. ASSUME NEW x, next \in Siblings, retry' = [retry EXCEPT ![next] = x], pc \in Retrying,
             x = retry[next] \/ x.state # "Revising"
      PROVE  Goal
  <2>1. retry'[next] = x /\ \A j \in Siblings : j # next => retry'[j] = retry[j]
    BY <1>a, <1>b DEF TypeOK
  <2> QED BY <1>b, <2>1
<1>c. ASSUME retry' = retry PROVE Goal
  BY <1>c
<1> HIDE DEF Goal
<1>1. CASE RetryAnswers
  <2>1. next \in Siblings /\ pc \in Retrying
    BY <1>1, <1>a DEF RetryAnswers, Discipline, Retrying
  <2>2. PICK clean \in BOOLEAN : retry' = [retry EXCEPT ![next] = Generated(clean)]
    BY <1>1 DEF RetryAnswers
  <2> QED BY <1>b, <2>1, <2>2, GeneratedFacts
<1>2. CASE RetryFault
  <2>1. next \in Siblings /\ pc \in Retrying /\ retry[next] \in Record \cup {None}
    BY <1>2, <1>a DEF RetryFault, RetryCanFault, Discipline, Retrying, TypeOK
  <2>2. Parked(retry[next]) = retry[next] \/ Parked(retry[next]).state # "Revising"
    BY <2>1, ParkedFacts
  <2> QED BY <1>2, <1>b, <2>1, <2>2 DEF RetryFault, RetryCanFault
<1>3. CASE RetryDrive
  <2>1. next \in Siblings /\ pc \in Retrying /\ retry[next] \in Record /\ retry[next] # None
    BY <1>3, <1>a DEF RetryDrive, Discipline, Retrying, TypeOK
  <2>2. CASE retry' = [retry EXCEPT ![next] = verify(retry[next])]
    BY <1>b, <2>1, <2>2, GradedFacts
  <2>3. ASSUME NEW d \in Decision, NEW s \in Scores,
               retry' = [retry EXCEPT ![next] = judge(retry[next], d, s)]
        PROVE  Goal
    BY <1>b, <2>1, <2>3, GradedFacts
  <2>4. CASE /\ retry[next].state = "Judged"
             /\ retry' = [retry EXCEPT ![next] = reconcile(retry[next], TRUE)]
    <3>1. retry[next].decision \in Decision
      BY <1>a, <2>1, <2>4 DEF JudgedHasDecision
    <3>2. reconcile(retry[next], TRUE).state # "Revising"
      BY <2>1, <3>1, ReconcileFacts
    <3> QED BY <1>b, <2>1, <2>4, <3>2
  <2>5. CASE retry' = [retry EXCEPT ![next].state = "Formatted"]
    <3>1. retry' = [retry EXCEPT ![next] = [retry[next] EXCEPT !.state = "Formatted"]]
      BY <2>5
    <3>2. [retry[next] EXCEPT !.state = "Formatted"].state # "Revising"
      <4>1. "Formatted" \in State
        BY DEF State
      <4> QED BY <2>1, <4>1, StateKeeps
    <3> QED BY <1>b, <2>1, <3>1, <3>2
  <2> QED BY <1>3, <1>c, <2>2, <2>3, <2>4, <2>5 DEF RetryDrive, EndLaunch, durable
<1>4. CASE ReviseNext \/ RetryCall \/ Revised
  BY <1>4, <1>c DEF ReviseNext, RetryCall, Revised, Goto, EndLaunch, durable
<1>5. ASSUME NEW j \in Siblings, DriveSibling(j) PROVE Goal
  BY <1>5, <1>c DEF DriveSibling, FindOrGenerate, CallTeacher, TeacherAnswers, TeacherTruncates,
                    DriveCheck, DriveStep, RecordFault, SystemicFault, Task, Join, durable
<1>6. CASE Launch \/ StartGroup \/ GroupJoined \/ SelectAndFinalize
           \/ CommitCursor \/ Disturbance \/ UNCHANGED vars
  BY <1>6, <1>c DEF Launch, StartGroup, GroupJoined, SelectAndFinalize, Elect, FinalizeStop,
                    FinalizeReconcile, FinalizeFormat, Retain, Retained, Goto,
                    CommitCursor, Disturbance, Crash, Cancel, EndLaunch, durable, vars
<1> QED BY <1>1, <1>2, <1>3, <1>4, <1>5, <1>6 DEF Next, Progress, ReviseOnce

\* A retry belongs to a sibling at Revising, and nothing takes that sibling from there.
LEMMA SingleReviseStep ==
    ASSUME IInv, SingleRevise, Settling, [Next]_vars
    PROVE  SingleRevise'
<1> SUFFICES ASSUME NEW i \in Siblings, retry'[i] # None
             PROVE  Has(rec'[i], {"Revising"}) /\ retry'[i].state # "Revising"
  BY DEF SingleRevise, Has
<1>1. Has(rec[i], {"Revising"}) => Has(rec'[i], {"Revising"})
  <2>1. Edge(i)
    BY EdgeStep
  <2> QED BY <2>1 DEF Edge, Has
<1>2. CASE retry'[i] = retry[i]
  BY <1>1, <1>2 DEF SingleRevise
<1>3. CASE retry'[i] # retry[i]
  <2>1. /\ pc \in Retrying /\ i = next
        /\ \/ retry[i] # None /\ retry[i].state = "Revising"
           \/ retry'[i].state # "Revising"
    BY <1>3, RetryEdge
  <2>2. Has(rec[i], {"Revising"})
    BY <2>1 DEF Settling, IInv, Discipline, Has, AfterFanout, Retrying
  <2> QED BY <1>1, <2>1, <2>2 DEF SingleRevise
<1> QED BY <1>2, <1>3

\* A lower index is another one.
LEMMA LowerIsOther == \A i, n \in Siblings : i < n => i # n
BY KAssumption DEF Siblings

\* What the loops after the election dealt with stays dealt with, up to the cursor.
LEMMA SettlingStep ==
    ASSUME IInv, GroupDriven, RunnersUp, SingleRevise, Settling, [Next]_vars
    PROVE  Settling'
<1>a. TypeOK /\ Discipline /\ WinnerStandsAlone
  BY DEF IInv
<1>b. pc # "down" => ~ committed
  BY DEF Settling
<1>2. CASE EndLaunch
  <2>1. pc' = "down" /\ next' = 0 /\ committed' = committed /\ rec' = rec /\ retry' = retry
    BY <1>2 DEF EndLaunch, Ended, durable
  <2> QED BY <2>1 DEF Settling, Retrying, Done
<1>3. CASE CommitCursor
  <2>1. pc = "settled" /\ pc' = "down" /\ next' = 0 /\ rec' = rec /\ retry' = retry
    BY <1>3 DEF CommitCursor, Ended
  <2> QED BY <2>1 DEF Settling, Retrying, Done
<1>4. CASE UNCHANGED vars \/ Cancel
  <2>1. /\ pc' = pc /\ next' = next /\ winner' = winner /\ rec' = rec /\ retry' = retry
        /\ committed' = committed /\ (cancelled => cancelled')
    BY <1>4 DEF vars, volatile, durable, Cancel
  <2>2. \A i \in Siblings : (RetryDone(i)' <=> RetryDone(i)) /\ (Done(i)' <=> Done(i))
    BY <2>1 DEF Done, RetryDone
  <2> QED BY <2>1, <2>2 DEF Settling
<1>5. CASE \/ Launch \/ (StartGroup /\ ~ EndLaunch) \/ (GroupJoined /\ ~ EndLaunch)
           \/ \E i \in Siblings : DriveSibling(i)
  <2>1. /\ pc' \in {"start", "fanout", "elect"} /\ pc \in {"down", "start", "fanout"}
        /\ next' = next /\ committed' = committed /\ (pc = "down" => ~ committed)
    BY <1>5 DEF Launch, StartGroup, GroupJoined, durable,
                DriveSibling, FindOrGenerate, CallTeacher, TeacherAnswers, TeacherTruncates,
                DriveCheck, DriveStep, RecordFault, SystemicFault, Task, Join
  <2> QED BY <1>b, <2>1 DEF Settling, Retrying
<1>6. CASE Elect
  <2>1. /\ pc = "elect" /\ next = 0 /\ next' = 0 /\ rec' = rec /\ ~ committed'
        /\ \/ pc' = "finalize"
           \/ pc' = "retain" /\ winner' = None /\ Established = {}
    BY <1>6, <1>b DEF Elect, durable, Settling
  <2>2. pc' = "retain" => \A i \in Siblings : ~ Has(rec'[i], Winning)
    BY <2>1 DEF Established, is_established_winner, Has, Winning
  <2>3. \A i \in Siblings : ~ (i < 0) /\ i # None
    BY LoopFacts, KAssumption DEF Siblings
  <2> QED BY <2>1, <2>2, <2>3 DEF Settling, Retrying
<1>7. CASE FinalizeStop
  <2>1. /\ pc = "finalize" /\ pc' = "retain" /\ next = 0 /\ next' = 0 /\ rec' = rec
        /\ winner' = winner /\ cancelled' = cancelled /\ ~ committed'
        /\ winner \in Siblings /\ (is_terminal(rec[winner].state) \/ cancelled)
    BY <1>7, <1>a, <1>b DEF FinalizeStop, Goto, Settling, Discipline
  <2>2. \A i \in Siblings : Has(rec'[i], Winning) => i = winner'
    BY <1>a, <2>1 DEF WinnerStandsAlone, Winning
  <2>3. \A i \in Siblings : ~ (i < 0)
    BY KAssumption DEF Siblings
  <2> QED BY <2>1, <2>2, <2>3 DEF Settling, Retrying
<1>8. CASE FinalizeReconcile
  BY <1>8, <1>b DEF FinalizeReconcile, Goto, Settling, Retrying
<1>9. CASE FinalizeFormat
  BY <1>9, <1>b DEF FinalizeFormat, Goto, Settling, Retrying
<1>10. CASE Retain
  <2>1. /\ pc = "retain" /\ pc' = "retain" /\ next \in Siblings /\ next' = next + 1
        /\ winner' = winner /\ cancelled' = cancelled /\ ~ committed'
    BY <1>10, <1>a, <1>b, LoopFacts DEF Retain, TypeOK
  <2>2. \A i \in Siblings : Has(rec'[i], Winning) => i = winner
    BY <2>1, RecStep DEF Settling
  <2>3. ASSUME ~ cancelled, NEW i \in Siblings, i < next + 1 \/ i = winner
        PROVE  is_terminal(rec'[i].state)
    <3>1. Edge(i) /\ Driven(i) /\ rec[i] \in Record
      BY <1>a, <2>1, EdgeStep DEF GroupDriven, AfterFanout, Driven, TypeOK
    <3>2. CASE i < next \/ i = winner
      <4>1. is_terminal(rec[i].state)
        BY <2>1, <2>3, <3>2 DEF Settling
      <4> QED BY <2>1, <3>1, <4>1 DEF Edge, is_terminal, Driven
    <3>3. CASE i = next /\ i # winner
      <4>1. ~ Has(rec[i], Winning)
        BY <2>1, <3>3 DEF Settling
      <4>2. rec[i].state # "Judged" => is_terminal(rec[i].state)
        BY <3>1, <4>1 DEF Driven, Has, Winning, Record, State, is_terminal
      <4>3. rec[i].state = "Judged" =>
               rec' = [rec EXCEPT ![i] = [rec[i] EXCEPT !.state = "Rejected"]]
               \/ (~ is_admissible(rec[i]) /\ rec' = [rec EXCEPT ![i] = reconcile(rec[i], FALSE)])
        BY <1>10, <2>3, <3>3 DEF Retain
      <4>4. CASE rec[i].state # "Judged"
        BY <2>1, <3>1, <4>2, <4>4 DEF Edge, Driven
      <4>5. CASE /\ rec[i].state = "Judged"
                 /\ rec' = [rec EXCEPT ![i] = [rec[i] EXCEPT !.state = "Rejected"]]
        <5>1. "Rejected" \in State
          BY DEF State
        <5>2. rec'[i] = [rec[i] EXCEPT !.state = "Rejected"]
          BY <1>a, <4>5 DEF TypeOK
        <5> QED BY <3>1, <5>1, <5>2, StateKeeps DEF is_terminal
      <4>6. CASE /\ rec[i].state = "Judged" /\ ~ is_admissible(rec[i])
                 /\ rec' = [rec EXCEPT ![i] = reconcile(rec[i], FALSE)]
        <5>1. rec'[i] = reconcile(rec[i], FALSE) /\ rec[i].decision \in Decision
          BY <1>a, <3>1, <4>6 DEF TypeOK, IInv, JudgedHasDecision, Driven
        <5> QED BY <3>1, <4>6, <5>1, ReconcileKeeps DEF is_terminal
      <4> QED BY <4>3, <4>4, <4>5, <4>6
    <3>4. i < next \/ i = next \/ i = winner
      BY <2>1, <2>3, KAssumption DEF Siblings
    <3> QED BY <3>2, <3>3, <3>4
  <2> QED BY <2>1, <2>2, <2>3 DEF Settling, Retrying
<1>11. CASE Retained /\ ~ EndLaunch
  <2>1. /\ pc = "retain" /\ next = K /\ ~ cancelled /\ pc' = "revise" /\ next' = 0
        /\ rec' = rec /\ ~ committed'
    BY <1>11, <1>b DEF Retained, durable
  <2>2. \A i \in Siblings : i < K /\ ~ (i < 0)
    BY KAssumption DEF Siblings
  <2>3. \A i \in Siblings : is_terminal(rec'[i].state)
    BY <2>1, <2>2 DEF Settling
  <2> QED BY <2>1, <2>2, <2>3 DEF Settling, Retrying
<1>12. ASSUME pc \in {"revise"} \cup Retrying,
              NEW label \in {"revise", "retry gate", "retry call", "retry drive"},
              Revise(label, 0), next \in Siblings,
              \A i \in Siblings : i # next => retry'[i] = retry[i],
              rec[next].state = "Revising"
       PROVE  Settling'
  <2>1. /\ pc' = label /\ next' = next /\ rec' = rec /\ ~ committed'
    BY <1>12, <1>b, LoopFacts DEF Revise, Retrying
  <2>2. \A i \in Siblings : i < next => i # next
    BY <1>12, LowerIsOther
  <2>3. \A i \in Siblings : i < next /\ rec[i].state = "Revising" => RetryDone(i)'
    BY <1>12, <2>2 DEF Settling, RetryDone
  <2>4. \A i \in Siblings : is_terminal(rec[i].state)
    BY <1>12 DEF Settling
  <2> QED BY <1>12, <2>1, <2>3, <2>4 DEF Settling, Retrying
<1>13. ASSUME pc \in {"revise"} \cup Retrying, Revise("revise", 1),
              NEW n \in Siblings, n = next,
              \A i \in Siblings : i # n => retry'[i] = retry[i],
              rec[n].state = "Revising" => RetryDone(n)'
       PROVE  Settling'
  <2>1. /\ pc' = "revise" /\ next' = next + 1 /\ rec' = rec /\ ~ committed'
    BY <1>13, <1>b DEF Revise, Retrying
  <2>2. \A i \in Siblings : (i < n => i # n) /\ (i < n + 1 => i < n \/ i = n)
    BY KAssumption DEF Siblings
  <2>3. \A i \in Siblings : i < n /\ rec[i].state = "Revising" => RetryDone(i)'
    BY <1>13, <2>2 DEF Settling, RetryDone
  <2>4. \A i \in Siblings : i < n + 1 /\ rec[i].state = "Revising" => RetryDone(i)'
    BY <1>13, <2>2, <2>3
  <2>5. \A i \in Siblings : is_terminal(rec[i].state)
    BY <1>13 DEF Settling
  <2> QED BY <1>13, <2>1, <2>4, <2>5 DEF Settling, Retrying
<1>14. CASE ReviseNext /\ ~ EndLaunch
  <2>1. pc = "revise" /\ next \in Siblings /\ retry' = retry
    BY <1>14, <1>a, LoopFacts DEF ReviseNext, TypeOK
  <2> QED BY <1>12, <1>13, <1>14, <2>1 DEF ReviseNext
<1>15. ASSUME RetryCall \/ RetryAnswers \/ RetryDrive \/ RetryFault
       PROVE  /\ pc \in Retrying /\ next \in Siblings /\ rec[next].state = "Revising"
              /\ \A i \in Siblings : i # next => retry'[i] = retry[i]
  <2>1. pc \in Retrying /\ next \in Siblings /\ rec[next].state = "Revising"
    BY <1>15, <1>a DEF RetryCall, RetryAnswers, RetryDrive, RetryFault, RetryCanFault, Retrying,
                       Discipline,
                       Settling
  <2> QED BY <2>1, RetryEdge
<1>16. CASE RetryCall /\ ~ EndLaunch
  BY <1>12, <1>15, <1>16 DEF RetryCall
<1>17. CASE RetryAnswers
  BY <1>12, <1>15, <1>17 DEF RetryAnswers
<1>18. CASE RetryFault
  <2>1. /\ retry[next] \in Record \cup {None} /\ retry'[next] = Parked(retry[next])
        /\ retry[next] = None \/ retry[next].state \in {"AssistantGenerated", "Verified"}
    BY <1>15, <1>18, <1>a DEF RetryFault, RetryCanFault, TypeOK, IInv, NeverRespend
  <2>2. Parked(retry[next]).state = "Error" /\ Parked(retry[next]) # None
    BY <2>1, ParkedFacts, NoneIsNoRecord DEF Parked, is_decided
  <2>3. PICK n \in Siblings : n = next
    BY <1>15, <1>18
  <2>4. RetryDone(n)'
    BY <2>1, <2>2, <2>3 DEF RetryDone, is_terminal
  <2>5. Revise("revise", 1)
    BY <1>18 DEF RetryFault, RetryCanFault
  <2> QED BY <1>13, <1>15, <1>18, <2>3, <2>4, <2>5
<1>19. CASE RetryDrive /\ ~ EndLaunch
  <2>1. PICK n \in Siblings : n = next
    BY <1>15, <1>19
  <2>2. \/ Revise("retry drive", 0)
        \/ Revise("revise", 1) /\ retry' = retry /\ is_terminal(retry[n].state)
    BY <1>19, <2>1 DEF RetryDrive
  <2>3. pc = "retry drive" /\ retry[n] # None
    BY <1>19, <1>a, <2>1 DEF RetryDrive, Discipline
  <2>4. CASE Revise("retry drive", 0)
    BY <1>12, <1>15, <1>19, <2>4
  <2>5. CASE Revise("revise", 1) /\ retry' = retry /\ is_terminal(retry[n].state)
    <3>1. RetryDone(n)'
      BY <2>3, <2>5 DEF RetryDone
    <3> QED BY <1>13, <1>15, <1>19, <2>1, <2>5, <3>1
  <2> QED BY <2>2, <2>4, <2>5
<1>20. CASE Revised
  <2>1. /\ pc = "revise" /\ next = K /\ pc' = "settled" /\ rec' = rec /\ retry' = retry
        /\ ~ committed'
    BY <1>20, <1>b DEF Revised, Goto
  <2>2. ASSUME NEW i \in Siblings PROVE Done(i)'
    <3>1. i < K
      BY KAssumption DEF Siblings
    <3>2. /\ is_terminal(rec[i].state) /\ rec[i] # None
          /\ rec[i].state = "Revising" => RetryDone(i)
      BY <2>1, <3>1, <1>a DEF Settling, Discipline, AfterFanout
    <3> QED BY <2>1, <3>2 DEF Done, RetryDone
  <2> QED BY <2>1, <2>2 DEF Settling, Retrying
<1> QED
  BY <1>2, <1>3, <1>4, <1>5, <1>6, <1>7, <1>8, <1>9, <1>10, <1>11, <1>14, <1>16, <1>17, <1>18,
     <1>19, <1>20
  DEF Next, Progress, Disturbance, Crash, SelectAndFinalize, ReviseOnce

-----------------------------------------------------------------------------
(* What renders                                                            *)

\* Setting the state of a record that renders to anything leaves one that renders, unless
\* it is admitted without an admissible decision.
LEMMA StateRenders ==
    ASSUME NEW r \in Record, Renders(r), NEW s \in State,
           s \in {"Admitted", "Formatted"} => is_admissible(r) \/ r.state = "Admitted"
    PROVE  Renders([r EXCEPT !.state = s])
<1>1. /\ [r EXCEPT !.state = s].state = s
      /\ [r EXCEPT !.state = s].decision = r.decision
      /\ [r EXCEPT !.state = s].clean = r.clean
  BY DEF Record
<1>2. r # None
  BY NoneIsNoRecord
<1> QED BY <1>1, <1>2 DEF Renders, is_admissible

\* Neither a fresh answer nor a stub is decided, and only what renders is judged admissible.
LEMMA JudgeRenders ==
    ASSUME NEW r \in Record, Renders(r)
    PROVE  /\ Renders(verify(r))
           /\ \A d \in Decision, s \in Scores : CanJudge(r, d) => Renders(judge(r, d, s))
<1>1. Renders(verify(r))
  BY StateRenders DEF verify, State
<1>2. ASSUME NEW d \in Decision, NEW s \in Scores, CanJudge(r, d)
      PROVE  Renders(judge(r, d, s))
  <2>1. /\ judge(r, d, s).state = "Judged" /\ judge(r, d, s).decision = d
        /\ judge(r, d, s).clean = r.clean
    BY DEF judge, Record
  <2> QED BY <1>2, <2>1 DEF Renders, is_admissible, CanJudge
<1> QED BY <1>1, <1>2

\* A fresh answer is undecided.
LEMMA GeneratedRenders ==
    ASSUME NEW clean \in BOOLEAN PROVE Renders(Generated(clean))
BY NoneAssumption DEF Renders, Generated, is_admissible, Decision

\* Parking leaves what renders rendering.
LEMMA ParkedRenders ==
    ASSUME NEW r \in Record \cup {None}, Renders(r) PROVE Renders(Parked(r))
<1>1. CASE r = None
  BY <1>1, NoneAssumption DEF Parked, error_stub, Renders, is_admissible, Decision
<1>2. CASE r # None /\ is_decided(r.state)
  BY <1>2 DEF Parked
<1>3. CASE r # None /\ ~ is_decided(r.state)
  BY <1>3, StateRenders DEF Parked, State
<1> QED BY <1>1, <1>2, <1>3

\* Reconciling admits only an admissible record.
LEMMA ReconcileRenders ==
    ASSUME NEW r \in Record, Renders(r), r.decision \in Decision, NEW tagged \in BOOLEAN
    PROVE  Renders(reconcile(r, tagged))
<1> DEFINE s == IF tagged /\ r.decision = "Revise" THEN "Rejected"
               ELSE to_lifecycle(r.decision)
<1>1. /\ s \in State /\ s # "Formatted"
      /\ s = "Admitted" => is_admissible(r)
  BY DEF to_lifecycle, Decision, is_admissible, State
<1>2. reconcile(r, tagged) = [r EXCEPT !.state = s]
  BY DEF reconcile
<1> HIDE DEF s
<1> QED BY <1>1, <1>2, StateRenders

\* No step decides in favour of a record that does not render, sibling or retry.
LEMMA RendersStep ==
    ASSUME IInv, AllRender, [Next]_vars
    PROVE  AllRender'
<1>a. TypeOK /\ Discipline /\ JudgedHasDecision
  BY DEF IInv
<1> DEFINE Members == \A i \in Siblings : Renders(rec'[i])
           Retried == \A i \in Siblings : Renders(retry'[i])
<1>b. ASSUME NEW i \in Siblings, NEW x, rec' = [rec EXCEPT ![i] = x], Renders(x)
      PROVE  Members
  BY <1>a, <1>b DEF AllRender, TypeOK
<1>c. ASSUME NEW x, next \in Siblings, retry' = [retry EXCEPT ![next] = x], Renders(x)
      PROVE  Retried
  BY <1>a, <1>c DEF AllRender, TypeOK
<1>d. /\ rec' = rec => Members
      /\ retry' = retry => Retried
  BY DEF AllRender
<1>e. \A i \in Siblings : /\ rec[i] \in Record \cup {None} /\ Renders(rec[i])
                          /\ retry[i] \in Record \cup {None} /\ Renders(retry[i])
  BY <1>a DEF TypeOK, AllRender
<1> HIDE DEF Members, Retried
<1>1. ASSUME NEW i \in Siblings, TeacherAnswers(i) PROVE Members
  BY <1>1, <1>b, GeneratedRenders DEF TeacherAnswers
<1>2. ASSUME NEW i \in Siblings, TeacherTruncates(i) \/ RecordFault(i) PROVE Members
  BY <1>2, <1>b, <1>d, <1>e, ParkedRenders DEF TeacherTruncates, RecordFault
<1>3. ASSUME NEW i \in Siblings, DriveStep(i) PROVE Members
  <2>1. rec[i] \in Record /\ Renders(rec[i])
    BY <1>3, <1>a, <1>e DEF DriveStep, Task, Discipline
  <2>2. ASSUME rec' = [rec EXCEPT ![i] = verify(rec[i])]
        PROVE  Members
    BY <1>b, <2>1, <2>2, JudgeRenders
  <2>3. ASSUME NEW d \in Decision, NEW s \in Scores, CanJudge(rec[i], d),
               rec' = [rec EXCEPT ![i] = judge(rec[i], d, s)]
        PROVE  Members
    BY <1>b, <2>1, <2>3, JudgeRenders
  <2> QED BY <1>3, <2>2, <2>3 DEF DriveStep
<1>4. ASSUME FinalizeReconcile PROVE Members
  <2>1. /\ winner \in Siblings /\ rec[winner] \in Record /\ Renders(rec[winner])
        /\ rec[winner].decision \in Decision
        /\ rec' = [rec EXCEPT ![winner] = reconcile(rec[winner], FALSE)]
    BY <1>4, <1>a, <1>e DEF FinalizeReconcile, Discipline, AfterFanout, JudgedHasDecision
  <2> QED BY <1>b, <2>1, ReconcileRenders
<1>5. ASSUME FinalizeFormat PROVE Members
  <2>1. /\ winner \in Siblings /\ rec[winner] \in Record /\ Renders(rec[winner])
        /\ rec[winner].state = "Admitted"
        /\ rec' = [rec EXCEPT ![winner] = [rec[winner] EXCEPT !.state = "Formatted"]]
    BY <1>5, <1>a, <1>e DEF FinalizeFormat, Discipline, AfterFanout
  <2> QED BY <1>b, <2>1, StateRenders DEF State
<1>6. ASSUME Retain PROVE Members
  <2>1. next \in Siblings /\ rec[next] \in Record /\ Renders(rec[next])
    BY <1>6, <1>a, <1>e, LoopFacts DEF Retain, TypeOK, Discipline, AfterFanout
  <2>2. ASSUME rec' = [rec EXCEPT ![next] = [rec[next] EXCEPT !.state = "Rejected"]]
        PROVE  Members
    BY <1>b, <2>1, <2>2, StateRenders DEF State
  <2>3. ASSUME rec[next].state = "Judged",
               rec' = [rec EXCEPT ![next] = reconcile(rec[next], FALSE)]
        PROVE  Members
    <3>1. rec[next].decision \in Decision
      BY <1>a, <2>1, <2>3, NoneIsNoRecord DEF JudgedHasDecision
    <3> QED BY <1>b, <2>1, <2>3, <3>1, ReconcileRenders
  <2> QED BY <1>6, <1>d, <2>2, <2>3 DEF Retain
<1>7. ASSUME RetryAnswers PROVE Retried
  <2>1. next \in Siblings
    BY <1>7, <1>a DEF RetryAnswers, Discipline, Retrying
  <2> QED BY <1>7, <1>c, <2>1, GeneratedRenders DEF RetryAnswers
<1>8. ASSUME RetryFault PROVE Retried
  <2>1. next \in Siblings
    BY <1>8, <1>a DEF RetryFault, RetryCanFault, Discipline, Retrying
  <2> QED BY <1>8, <1>c, <1>e, <2>1, ParkedRenders DEF RetryFault
<1>9. ASSUME RetryDrive PROVE Retried
  <2>1. next \in Siblings /\ retry[next] \in Record /\ Renders(retry[next])
    BY <1>9, <1>a, <1>e DEF RetryDrive, Discipline, Retrying
  <2>2. ASSUME retry' = [retry EXCEPT ![next] = verify(retry[next])]
        PROVE  Retried
    BY <1>c, <2>1, <2>2, JudgeRenders
  <2>3. ASSUME NEW d \in Decision, NEW s \in Scores, CanJudge(retry[next], d),
               retry' = [retry EXCEPT ![next] = judge(retry[next], d, s)]
        PROVE  Retried
    BY <1>c, <2>1, <2>3, JudgeRenders
  <2>4. ASSUME retry[next].state = "Judged",
               retry' = [retry EXCEPT ![next] = reconcile(retry[next], TRUE)]
        PROVE  Retried
    <3>1. retry[next].decision \in Decision
      BY <1>a, <2>1, <2>4, NoneIsNoRecord DEF JudgedHasDecision
    <3> QED BY <1>c, <2>1, <2>4, <3>1, ReconcileRenders
  <2>5. ASSUME retry[next].state = "Admitted",
               retry' = [retry EXCEPT ![next].state = "Formatted"]
        PROVE  Retried
    <3>1. retry' = [retry EXCEPT ![next] = [retry[next] EXCEPT !.state = "Formatted"]]
      BY <2>5
    <3>2. Renders([retry[next] EXCEPT !.state = "Formatted"])
      BY <2>1, <2>5, StateRenders DEF State
    <3> QED BY <1>c, <2>1, <3>1, <3>2
  <2> QED BY <1>9, <1>d, <2>2, <2>3, <2>4, <2>5 DEF RetryDrive, EndLaunch, durable
<1>10. ASSUME NEW i \in Siblings, DriveSibling(i) PROVE Members /\ Retried
  <2>1. Retried
    BY <1>10, <1>d DEF DriveSibling, FindOrGenerate, CallTeacher, TeacherAnswers,
       TeacherTruncates, DriveCheck, DriveStep, RecordFault, SystemicFault, Task, Join, durable
  <2>2. Members
    BY <1>10, <1>d, <1>1, <1>2, <1>3
    DEF DriveSibling, FindOrGenerate, CallTeacher, DriveCheck, SystemicFault, Join, durable
  <2> QED BY <2>1, <2>2
<1>11. ASSUME SelectAndFinalize PROVE Members /\ Retried
  <2>1. Retried
    BY <1>11, <1>d DEF SelectAndFinalize, Elect, FinalizeStop, FinalizeReconcile,
       FinalizeFormat, Retain, Retained, Goto, EndLaunch, durable
  <2>2. Members
    BY <1>11, <1>d, <1>4, <1>5, <1>6
    DEF SelectAndFinalize, Elect, FinalizeStop, Retained, Goto, EndLaunch, durable
  <2> QED BY <2>1, <2>2
<1>12. ASSUME ReviseOnce PROVE Members /\ Retried
  <2>1. Members
    BY <1>12, <1>d DEF ReviseOnce, ReviseNext, RetryCall, RetryAnswers, RetryDrive,
       RetryFault, Revised, Revise, Goto, EndLaunch, durable
  <2>2. Retried
    BY <1>12, <1>d, <1>7, <1>8, <1>9
    DEF ReviseOnce, ReviseNext, RetryCall, Revised, Goto, EndLaunch, durable
  <2> QED BY <2>1, <2>2
<1>13. ASSUME \/ Launch \/ StartGroup \/ GroupJoined \/ CommitCursor \/ Disturbance
              \/ UNCHANGED vars
       PROVE  Members /\ Retried
  <2>1. rec' = rec /\ retry' = retry
    BY <1>13 DEF Launch, StartGroup, GroupJoined, CommitCursor, Disturbance, Crash, Cancel,
                 EndLaunch, durable, vars
  <2> QED BY <1>d, <2>1
<1>14. Members /\ Retried
  BY <1>10, <1>11, <1>12, <1>13 DEF Next, Progress
<1> QED BY <1>14 DEF AllRender, Members, Retried

-----------------------------------------------------------------------------
(* The group                                                               *)

\* Nothing is stored when the item is first launched.
LEMMA InitGroup == Init => GInv
<1> SUFFICES ASSUME Init PROVE GInv
  OBVIOUS
<1>1. /\ \A i \in Siblings : rec[i] = None /\ retry[i] = None /\ task[i] = "todo"
      /\ pc = "down" /\ next = 0 /\ committed = FALSE
  BY DEF Init, AllTasks
<1>2. GroupDriven /\ Graded /\ SingleRevise
  BY <1>1 DEF GroupDriven, AfterFanout, DecideTogether, Graded, SingleRevise, Has
<1>3. RunnersUp
  BY <1>1 DEF RunnersUp, Admissible, Has
<1>4. Settling
  BY <1>1 DEF Settling, Retrying
<1>5. AllRender
  BY <1>1 DEF AllRender, Renders
<1> QED BY <1>2, <1>3, <1>4, <1>5 DEF GInv

\* What the records of a group show of how it was decided is inductive, given IInv.
THEOREM GroupInvariance == Spec => []GInv
<1>1. IInv /\ GInv /\ [Next]_vars => GInv'
  BY GroupDrivenStep, GradedStep, RunnersUpStep, SingleReviseStep, SettlingStep, RendersStep
  DEF GInv
<1> QED BY Invariance, InitGroup, <1>1, PTL DEF Spec

\* The group is decided as one and once: the best sibling wins, it or its retry alone can
\* enter the dataset and renders, nobody is decided before all were driven, and the cursor
\* passes nothing unfinished.
THEOREM GroupsAreDecidedOnce == Spec => []GroupIsDecided
<1>1. ASSUME IInv, GInv PROVE GroupIsDecided
  <2>1. WinnerIsBest
    BY <1>1 DEF GInv, RunnersUp, WinnerIsBest, Admissible, Beats, Winning
  <2>2. OneDatasetRecord
    <3>1. SingleRevise /\ OneWinner
      BY <1>1 DEF IInv, GInv
    <3>2. ASSUME NEW i \in Siblings, NEW j \in Siblings, Has(retry[j], {"Admitted", "Formatted"}),
                 Has(rec[i], {"Admitted", "Formatted"})
          PROVE  FALSE
      BY <3>1, <3>2 DEF SingleRevise, OneWinner, Has
    <3>3. ASSUME NEW i \in Siblings, NEW j \in Siblings, Has(retry[j], {"Admitted", "Formatted"}),
                 Has(retry[i], {"Admitted", "Formatted"})
          PROVE  i = j
      BY <3>1, <3>3 DEF SingleRevise, OneWinner, Has
    <3> QED BY <3>1, <3>2, <3>3 DEF OneDatasetRecord
  <2>3. DecideTogether
    BY <1>1 DEF GInv, GroupDriven
  <2>4. CursorPastDoneOnly
    BY <1>1 DEF GInv, Settling, CursorPastDoneOnly
  <2>5. AdmittedRenders
    BY <1>1 DEF GInv, AllRender, Renders, AdmittedRenders, Has
  <2> QED BY <2>1, <2>2, <2>3, <2>4, <2>5 DEF GroupIsDecided
<1> QED BY Invariance, GroupInvariance, <1>1, PTL

=============================================================================

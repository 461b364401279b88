------------------------- MODULE CachedPanel_proofs -------------------------
(***************************************************************************)
(* Proofs about CachedPanel, for any number of panels, any judges in any   *)
(* positions, and any number of grades and launches.                       *)
(*                                                                         *)
(* IInv is the inductive invariant, a part per panel: what a panel is at   *)
(* determines what each of its requests may have come to (Course), what a  *)
(* request came to determines what there is of it in the panel and in the  *)
(* cache (Backed), and the failure kept is the gravest seen (Gravest).     *)
(***************************************************************************)
EXTENDS CachedPanel, SequenceTheorems, TLAPS

\* The failure kept of a history of failures is the first of the gravest class.
Gravest(seen, kept) ==
    /\ seen = <<>> <=> kept = None
    /\ seen # <<>> =>
          \E i \in DOMAIN seen :
              /\ kept = seen[i]
              /\ \A j \in DOMAIN seen : /\ Rank(seen[j].class) <= Rank(kept.class)
                                        /\ j < i => Rank(seen[j].class) < Rank(kept.class)

\* Where a panel is determines what its requests may have come to.
Course(p) ==
    /\ pc[p] = "lookup" => /\ failure[p] = None /\ ~ stopped[p]
                           /\ \A k \in Keys : op[p][k] \in {"none", "hit", "pending"}
    /\ pc[p] = "drain" => \A k \in Keys : op[p][k] # "none"
    /\ pc[p] \in {"ok", "failed"} => \A k \in Keys : op[p][k] \notin Started

\* What became of a request determines what there is of it.
Backed(p) ==
    /\ stopped[p] => failure[p] # None
    /\ \A k \in Keys :
          /\ op[p][k] \in {"hit", "done"} => grade[p][k] # None /\ cache[k] # None
          /\ op[p][k] = "graded" => grade[p][k] # None
          /\ op[p][k] = "failed" => failure[p] # None
          /\ op[p][k] = "skipped" => stopped[p]

\* A panel that returned grades has them all, and met no failure.
Complete(p) == pc[p] = "ok" => /\ failure[p] = None
                               /\ \A k \in Keys : op[p][k] \in {"hit", "done"}

PanelInv(p) == Course(p) /\ Backed(p) /\ Complete(p) /\ Gravest(observed[p], failure[p])

\* A failure of the launch cancelled it.
Sealed == \A p \in Panels : \A i \in DOMAIN observed[p] :
              observed[p][i].class # "Record" => cancelled

IInv == TypeOK /\ Sealed /\ \A p \in Panels : PanelInv(p)

-----------------------------------------------------------------------------
(* What the operators do                                                   *)

\* The classes of a failure.
LEMMA ClassNames == Range(Classes) = {"Cancelled", "Record", "Halt", "Fatal"}
<1>1. DOMAIN Classes = {1, 2, 3, 4}
  BY DEF Classes
<1>2. /\ Classes[1] = "Cancelled" /\ Classes[2] = "Record"
      /\ Classes[3] = "Halt" /\ Classes[4] = "Fatal"
  BY DEF Classes
<1> QED BY <1>1, <1>2 DEF Range

\* Every class has a rank.
LEMMA RankType == \A class \in Range(Classes) : Rank(class) \in Nat
<1> SUFFICES ASSUME NEW class \in Range(Classes) PROVE Rank(class) \in Nat
  OBVIOUS
<1>1. \E n \in DOMAIN Classes : Classes[n] = class
  BY DEF Range
<1>2. Rank(class) \in DOMAIN Classes
  BY <1>1 DEF Rank
<1>3. DOMAIN Classes = 1 .. 4
  BY DEF Classes
<1> QED BY <1>2, <1>3

\* The precedence of Keeps keeps the first of the gravest.
LEMMA KeepingGravest ==
    ASSUME NEW seen \in Seq(Failure), NEW kept \in Failure \cup {None}, Gravest(seen, kept),
           NEW new \in Failure
    PROVE  Gravest(Append(seen, new),
                   IF kept = None \/ Rank(new.class) > Rank(kept.class) THEN new ELSE kept)
<1> DEFINE all == Append(seen, new)
           n == Len(seen)
<1>1. /\ n \in Nat /\ DOMAIN seen = 1 .. n /\ DOMAIN all = 1 .. n + 1
      /\ all[n + 1] = new /\ \A i \in 1 .. n : all[i] = seen[i]
      /\ all # <<>>
  OBVIOUS
<1>2. \A f \in Failure : Rank(f.class) \in Nat
  BY RankType DEF Failure
<1>3. None \notin Failure
  BY PanelAssumption
<1>4. \A i \in 1 .. n : seen[i] \in Failure
  BY <1>1
<1> HIDE DEF all, n
<1>5. CASE kept = None
  <2>1. seen = <<>>
    BY <1>5 DEF Gravest
  <2>2. n = 0
    BY <2>1 DEF n
  <2>3. Gravest(all, new)
    BY <1>1, <1>2, <1>3, <2>2 DEF Gravest
  <2> QED BY <1>5, <2>3 DEF all
<1>6. CASE kept # None
  <2>1. seen # <<>> /\ kept \in Failure
    BY <1>6 DEF Gravest
  <2>2. PICK i \in 1 .. n :
            /\ kept = seen[i]
            /\ \A j \in 1 .. n : /\ Rank(seen[j].class) <= Rank(kept.class)
                                 /\ j < i => Rank(seen[j].class) < Rank(kept.class)
    BY <1>1, <2>1 DEF Gravest
  <2>3. \A j \in 1 .. n + 1 : j \in 1 .. n \/ j = n + 1
    BY <1>1
  <2>4. Rank(kept.class) \in Nat /\ Rank(new.class) \in Nat
        /\ \A j \in 1 .. n : Rank(seen[j].class) \in Nat
    BY <1>2, <1>4, <2>1
  <2>5. CASE Rank(new.class) > Rank(kept.class)
    <3>1. \A j \in 1 .. n : Rank(all[j].class) < Rank(new.class)
      BY <1>1, <2>2, <2>4, <2>5
    <3>2. \A j \in 1 .. n + 1 : Rank(all[j].class) <= Rank(new.class)
      BY <1>1, <2>3, <2>4, <3>1
    <3>3. n + 1 \in DOMAIN all /\ \A j \in DOMAIN all : j < n + 1 => j \in 1 .. n
      BY <1>1
    <3>4. Gravest(all, new)
      BY <1>1, <1>3, <3>1, <3>2, <3>3 DEF Gravest
    <3> QED BY <2>5, <3>4 DEF all
  <2>6. CASE ~ (Rank(new.class) > Rank(kept.class))
    <3>1. i \in DOMAIN all /\ kept = all[i]
      BY <1>1, <2>2
    <3>2. \A j \in 1 .. n + 1 : Rank(all[j].class) <= Rank(kept.class)
      BY <1>1, <2>2, <2>3, <2>4, <2>6
    <3>3. \A j \in 1 .. n + 1 : j < i => Rank(all[j].class) < Rank(kept.class)
      BY <1>1, <2>2, <2>3
    <3>4. Gravest(all, kept)
      BY <1>1, <1>3, <1>6, <3>1, <3>2, <3>3 DEF Gravest
    <3> QED BY <1>6, <2>6, <3>4 DEF all
  <2> QED BY <2>5, <2>6
<1> QED BY <1>5, <1>6

\* A panel that met nothing yet keeps the first failure it meets.
LEMMA FirstGravest ==
    ASSUME NEW new \in Failure, Gravest(<<>>, None)
    PROVE  Gravest(Append(<<>>, new), new)
<1>1. <<>> \in Seq(Failure) /\ None \in Failure \cup {None}
  OBVIOUS
<1> QED BY <1>1, KeepingGravest

-----------------------------------------------------------------------------
(* What a step of a panel can do                                           *)

Ops == Started \cup {"none", "hit", "pending", "done", "failed", "skipped"}

\* A step of a panel leaves the others alone, and no cached grade is lost by it.
Frame(p) ==
    /\ \A q \in Panels \ {p} :
          /\ pc'[q] = pc[q] /\ op'[q] = op[q] /\ grade'[q] = grade[q]
          /\ stopped'[q] = stopped[q] /\ failure'[q] = failure[q] /\ observed'[q] = observed[q]
    /\ \A k \in Keys : cache[k] # None => cache'[k] # None

\* A panel's failure: its history is extended, and what it keeps follows from Keeps.
LEMMA FailureSeen ==
    ASSUME TypeOK, NEW p \in Panels, Gravest(observed[p], failure[p]),
           NEW k \in Keys, NEW class \in Range(Classes), Fails(p, k, class)
    PROVE  LET new == [class |-> class, key |-> k] IN
           /\ new \in Failure
           /\ observed' = [observed EXCEPT ![p] = Append(observed[p], new)]
           /\ \A q \in Panels : observed'[q] \in Seq(Failure)
           /\ failure' \in [Panels -> Failure \cup {None}] /\ failure'[p] # None
           /\ Gravest(observed'[p], failure'[p])
           /\ cancelled' = (cancelled \/ class # "Record")
           /\ \A q \in Panels : q # p => failure'[q] = failure[q]
<1> DEFINE new == [class |-> class, key |-> k]
<1>1. new \in Failure /\ new.class = class
  BY DEF Failure
<1>2. /\ observed' = [observed EXCEPT ![p] = Append(observed[p], new)]
      /\ cancelled' = (cancelled \/ class # "Record")
      /\ failure' = IF failure[p] = None \/ Rank(class) > Rank(failure[p].class)
                    THEN [failure EXCEPT ![p] = new] ELSE failure
  BY DEF Fails, OnError, Keeps
<1>3. failure \in [Panels -> Failure \cup {None}] /\ observed[p] \in Seq(Failure)
      /\ DOMAIN observed = Panels /\ \A q \in Panels : observed[q] \in Seq(Failure)
  BY DEF TypeOK
<1> HIDE DEF new
<1>4. Gravest(Append(observed[p], new),
              IF failure[p] = None \/ Rank(new.class) > Rank(failure[p].class)
              THEN new ELSE failure[p])
  BY <1>1, <1>3, KeepingGravest
<1>5. /\ failure' \in [Panels -> Failure \cup {None}]
      /\ failure'[p] = IF failure[p] = None \/ Rank(new.class) > Rank(failure[p].class)
                       THEN new ELSE failure[p]
      /\ \A q \in Panels : q # p => failure'[q] = failure[q]
  BY <1>1, <1>2, <1>3
<1>6. None \notin Failure
  BY PanelAssumption
<1>7. failure'[p] # None
  BY <1>1, <1>5, <1>6
<1>8. /\ observed'[p] = Append(observed[p], new) /\ observed'[p] \in Seq(Failure)
      /\ \A q \in Panels : q # p => observed'[q] = observed[q]
  BY <1>1, <1>2, <1>3
<1>9. \A q \in Panels : observed'[q] \in Seq(Failure)
  BY <1>3, <1>8
<1> QED BY <1>1, <1>2, <1>4, <1>5, <1>7, <1>8, <1>9 DEF new

\* A step of a request changes that request, of that panel, and no cached grade is lost.
RequestStep(p, k, to) ==
    /\ op' = [op EXCEPT ![p][k] = to]
    /\ \A j \in Keys : j # k => grade'[p][j] = grade[p][j] /\ cache'[j] = cache[j]
    /\ cache[k] # None => cache'[k] # None
    /\ cache' \in [Keys -> Nat \cup {None}] /\ grades' \in 0 .. MaxGrades
    /\ grade' \in [Panels -> [Keys -> Nat \cup {None}]]
    /\ \A q \in Panels \ {p} : /\ grade'[q] = grade[q] /\ stopped'[q] = stopped[q]
                               /\ failure'[q] = failure[q] /\ observed'[q] = observed[q]
    /\ pc' = pc /\ launches' = launches /\ stopped' \in [Panels -> BOOLEAN]

Calm == UNCHANGED <<cancelled, stopped, failure, observed>>

\* What a request comes to keeps the invariant if there is of it what there should be.
LEMMA RequestKeeps ==
    ASSUME TypeOK, NEW p \in Panels, PanelInv(p), NEW k \in Keys,
           NEW to \in Ops, RequestStep(p, k, to),
           \/ pc[p] = "lookup" /\ to \in {"hit", "pending"} /\ Calm
           \/ pc[p] = "drain" /\ to # "none",
           Gravest(observed'[p], failure'[p]),
           stopped'[p] => failure'[p] # None,
           failure[p] # None => failure'[p] # None,
           stopped[p] => stopped'[p],
           to \in {"hit", "done"} => grade'[p][k] # None /\ cache'[k] # None,
           to = "graded" => grade'[p][k] # None,
           to = "failed" => failure'[p] # None,
           to = "skipped" => stopped'[p]
    PROVE  PanelInv(p)'
<1>1. op \in [Panels -> [Keys -> Ops]]
  BY DEF TypeOK, Ops
<1>2. op'[p][k] = to /\ \A j \in Keys : j # k => op'[p][j] = op[p][j]
  BY <1>1 DEF RequestStep
<1>3. pc' = pc /\ pc[p] \notin {"ok", "failed"}
  BY DEF RequestStep
<1>4. Course(p)'
  <2>1. CASE pc[p] = "lookup"
    <3>1. Calm /\ to \in {"hit", "pending"}
      BY <2>1
    <3> QED BY <1>2, <1>3, <2>1, <3>1 DEF PanelInv, Course, Calm
  <2>2. CASE pc[p] = "drain"
    BY <1>2, <1>3, <2>2 DEF PanelInv, Course
  <2> QED BY <2>1, <2>2
<1>5. Complete(p)'
  BY <1>3 DEF Complete
<1>6. Backed(p)'
  <2>1. Backed(p)
    BY DEF PanelInv
  <2>2. \A j \in Keys : j # k =>
            /\ grade'[p][j] = grade[p][j] /\ cache'[j] = cache[j] /\ op'[p][j] = op[p][j]
    BY <1>2 DEF RequestStep
  <2> QED BY <1>2, <2>1, <2>2 DEF Backed
<1> QED BY <1>4, <1>5, <1>6 DEF PanelInv

\* A hit takes the cached grade; a miss finds none.
LEMMA LookupStep ==
    ASSUME TypeOK, NEW p \in Panels, PanelInv(p), NEW k \in Keys, Hit(p, k) \/ Miss(p, k)
    PROVE  /\ \E to \in Ops : RequestStep(p, k, to)
           /\ Calm /\ PanelInv(p)'
<1>1. Hit(p, k) => RequestStep(p, k, "hit") /\ grade'[p][k] = cache[k] /\ cache[k] # None
  BY DEF Hit, RequestStep, TypeOK, process
<1>2. Miss(p, k) => RequestStep(p, k, "pending")
  BY DEF Miss, RequestStep, TypeOK, process
<1>3. pc[p] = "lookup" /\ cache' = cache /\ Calm
  BY DEF Hit, Miss, Looking, Calm, process
<1>4. Gravest(observed'[p], failure'[p]) /\ (stopped'[p] => failure'[p] # None)
      /\ (stopped[p] => stopped'[p]) /\ (failure[p] # None => failure'[p] # None)
  BY <1>3 DEF Calm, PanelInv, Backed
<1>5. {"hit", "pending"} \subseteq Ops
  BY DEF Ops, Started
<1>6. CASE Hit(p, k)
  <2>1. RequestStep(p, k, "hit") /\ grade'[p][k] # None /\ cache'[k] # None
    BY <1>1, <1>3, <1>6
  <2> QED BY <1>3, <1>4, <1>5, <2>1, RequestKeeps
<1>7. CASE Miss(p, k)
  <2>1. RequestStep(p, k, "pending")
    BY <1>2, <1>7
  <2> QED BY <1>3, <1>4, <1>5, <2>1, RequestKeeps
<1> QED BY <1>6, <1>7

\* A miss that calls, sends, is answered, stored or skipped.
LEMMA DrainStep ==
    ASSUME TypeOK, NEW p \in Panels, PanelInv(p), NEW k \in Keys,
           Call(p, k) \/ Skip(p, k) \/ Send(p, k) \/ Answer(p, k) \/ Put(p, k)
    PROVE  /\ \E to \in Ops : RequestStep(p, k, to)
           /\ Calm /\ PanelInv(p)'
<1>1. pc[p] = "drain"
  BY DEF Call, Skip, Send, Answer, Put, Draining
<1>2. Calm
  BY DEF Call, Skip, Send, Answer, Put, Calm, process
<1>3. Gravest(observed'[p], failure'[p]) /\ (stopped'[p] => failure'[p] # None)
      /\ (stopped[p] => stopped'[p]) /\ (failure[p] # None => failure'[p] # None)
  BY <1>2 DEF Calm, PanelInv, Backed
<1>4. {"called", "skipped", "sent", "graded", "done"} \subseteq Ops
  BY DEF Ops, Started
<1>5. CASE Call(p, k)
  <2>1. RequestStep(p, k, "called")
    BY <1>5 DEF Call, RequestStep, TypeOK, process
  <2> QED BY <1>1, <1>2, <1>3, <1>4, <2>1, RequestKeeps
<1>6. CASE Skip(p, k)
  <2>1. RequestStep(p, k, "skipped") /\ stopped'[p]
    BY <1>6 DEF Skip, RequestStep, TypeOK, process
  <2> QED BY <1>1, <1>2, <1>3, <1>4, <2>1, RequestKeeps
<1>7. CASE Send(p, k)
  <2>1. RequestStep(p, k, "sent")
    BY <1>7 DEF Send, RequestStep, TypeOK, process
  <2> QED BY <1>1, <1>2, <1>3, <1>4, <2>1, RequestKeeps
<1>8. CASE Answer(p, k)
  <2>1. grades + 1 \in 0 .. MaxGrades /\ grades + 1 \in Nat
    BY <1>8, PanelAssumption DEF Answer, TypeOK
  <2>2. RequestStep(p, k, "graded") /\ grade'[p][k] = grades + 1
    BY <1>8, <2>1 DEF Answer, RequestStep, TypeOK, process
  <2>3. grade'[p][k] # None
    BY <2>1, <2>2, PanelAssumption
  <2> QED BY <1>1, <1>2, <1>3, <1>4, <2>2, <2>3, RequestKeeps
<1>9. CASE Put(p, k)
  <2>1. grade[p][k] # None
    BY <1>9 DEF Put, Draining, PanelInv, Backed
  <2>2. /\ op' = [op EXCEPT ![p][k] = "done"] /\ cache' = [cache EXCEPT ![k] = grade[p][k]]
        /\ UNCHANGED <<grades, launches, pc, grade, stopped, failure, observed>>
    BY <1>9 DEF Put, process
  <2>3. grade[p][k] \in Nat
    BY <2>1 DEF TypeOK
  <2>4. RequestStep(p, k, "done") /\ grade'[p][k] # None /\ cache'[k] # None
    BY <2>1, <2>2, <2>3 DEF RequestStep, TypeOK, process
  <2> QED BY <1>1, <1>2, <1>3, <1>4, <2>4, RequestKeeps
<1> QED BY <1>5, <1>6, <1>7, <1>8, <1>9

\* A miss that fails.
LEMMA FailStep ==
    ASSUME TypeOK, NEW p \in Panels, PanelInv(p),
           NEW k \in Keys, CallFails(p, k) \/ PutFails(p, k)
    PROVE  /\ RequestStep(p, k, "failed") /\ PanelInv(p)'
           /\ \E class \in Range(Classes) : Fails(p, k, class)
<1>1. pc[p] = "drain" /\ cache' \in {cache, [cache EXCEPT ![k] = grade[p][k]]}
      /\ (cache' # cache => op[p][k] = "graded")
  BY DEF CallFails, PutFails, Draining
<1>2. PICK class \in Range(Classes) : Fails(p, k, class)
  BY ClassNames DEF CallFails, PutFails
<1>3. Gravest(observed[p], failure[p])
  BY DEF PanelInv
<1>4. /\ failure'[p] # None /\ Gravest(observed'[p], failure'[p])
      /\ \A q \in Panels : q # p => failure'[q] = failure[q]
      /\ \E new : observed' = [observed EXCEPT ![p] = Append(observed[p], new)]
  BY <1>2, <1>3, FailureSeen
<1>5. \A q \in Panels : q # p => observed'[q] = observed[q]
  BY <1>4 DEF TypeOK
<1>6. op[p][k] = "graded" => grade[p][k] # None
  BY DEF PanelInv, Backed
<1>7. /\ op' = [op EXCEPT ![p][k] = "failed"] /\ grade' = [grade EXCEPT ![p][k] = None]
      /\ stopped' = [stopped EXCEPT ![p] = TRUE] /\ UNCHANGED <<grades, launches, pc>>
  BY <1>2 DEF Fails
<1>8. /\ cache' \in [Keys -> Nat \cup {None}]
      /\ \A j \in Keys : j # k => cache'[j] = cache[j]
      /\ cache[k] # None => cache'[k] # None
  <2>1. CASE cache' = cache
    BY <2>1 DEF TypeOK
  <2>2. CASE cache' # cache
    BY <1>1, <1>6, <2>2 DEF TypeOK
  <2> QED BY <2>1, <2>2
<1>9. RequestStep(p, k, "failed")
  BY <1>4, <1>5, <1>7, <1>8 DEF RequestStep, TypeOK, process
<1>10. stopped'[p] /\ "failed" \in Ops
  BY <1>7 DEF TypeOK, Ops
<1>11. PanelInv(p)'
  BY <1>1, <1>4, <1>9, <1>10, RequestKeeps
<1> QED BY <1>2, <1>9, <1>11

-----------------------------------------------------------------------------
(* The invariant                                                           *)

\* Another panel keeps its part of the invariant.
LEMMA OtherPanel ==
    ASSUME NEW p \in Panels, Frame(p), NEW q \in Panels, q # p, PanelInv(q)
    PROVE  PanelInv(q)'
BY DEF Frame, PanelInv, Course, Backed, Complete

\* A panel that starts afresh knows nothing yet.
LEMMA FreshPanel ==
    ASSUME NEW p \in Panels, op'[p] = [k \in Keys |-> "none"], failure'[p] = None,
           observed'[p] = <<>>, ~ stopped'[p], pc'[p] \in {"idle", "lookup"}
    PROVE  PanelInv(p)'
BY DEF PanelInv, Course, Backed, Complete, Gravest

\* The steps of a request keep the invariant of its panel, and the shapes.
LEMMA RequestInv ==
    ASSUME TypeOK, Sealed, NEW p \in Panels, PanelInv(p), NEW k \in Keys,
           Request(p, k), ~ LookupFails(p, k)
    PROVE  TypeOK' /\ Sealed' /\ PanelInv(p)' /\ Frame(p)
<1>1. PICK to \in Ops : RequestStep(p, k, to)
  BY LookupStep, DrainStep, FailStep DEF Request, Ops
<1>2. PanelInv(p)'
  BY LookupStep, DrainStep, FailStep DEF Request
<1>3. Calm \/ \E class \in Range(Classes) : Fails(p, k, class)
  BY LookupStep, DrainStep, FailStep DEF Request
<1>4. Frame(p)
  <2>1. \A q \in Panels \ {p} : op'[q] = op[q]
    BY <1>1 DEF RequestStep, TypeOK
  <2>2. \A j \in Keys : cache[j] # None => cache'[j] # None
    BY <1>1 DEF RequestStep
  <2> QED BY <1>1, <2>1, <2>2 DEF RequestStep, Frame
<1>5. op' \in [Panels -> [Keys -> Ops]]
  BY <1>1 DEF RequestStep, TypeOK, Ops
<1>6. /\ cancelled' \in BOOLEAN /\ failure' \in [Panels -> Failure \cup {None}]
      /\ observed' \in [Panels -> Seq(Failure)] /\ Sealed'
  <2>1. CASE Calm
    BY <2>1 DEF Calm, TypeOK, Sealed
  <2>2. ASSUME NEW class \in Range(Classes), Fails(p, k, class)
        PROVE  /\ cancelled' \in BOOLEAN /\ failure' \in [Panels -> Failure \cup {None}]
               /\ observed' \in [Panels -> Seq(Failure)] /\ Sealed'
    <3> DEFINE new == [class |-> class, key |-> k]
    <3>1. Gravest(observed[p], failure[p])
      BY DEF PanelInv
    <3>2. /\ new \in Failure /\ new.class = class
          /\ observed' = [observed EXCEPT ![p] = Append(observed[p], new)]
          /\ failure' \in [Panels -> Failure \cup {None}]
          /\ cancelled' = (cancelled \/ class # "Record")
      BY <2>2, <3>1, FailureSeen
    <3> HIDE DEF new
    <3>3. observed[p] \in Seq(Failure) /\ cancelled \in BOOLEAN
          /\ observed \in [Panels -> Seq(Failure)]
      BY DEF TypeOK
    <3>4. Append(observed[p], new) \in Seq(Failure)
      BY <3>2, <3>3
    <3>5. \A i \in DOMAIN Append(observed[p], new) :
              Append(observed[p], new)[i].class # "Record" => cancelled'
      <4>1. \A i \in DOMAIN observed[p] : observed[p][i].class # "Record" => cancelled
        BY DEF Sealed
      <4>2. \A i \in DOMAIN Append(observed[p], new) :
                \/ i \in DOMAIN observed[p] /\ Append(observed[p], new)[i] = observed[p][i]
                \/ Append(observed[p], new)[i] = new
        BY <3>2, <3>3
      <4> QED BY <3>2, <4>1, <4>2
    <3>6. Sealed'
      <4>1. observed'[p] = Append(observed[p], new)
            /\ \A q \in Panels : q # p => observed'[q] = observed[q]
        BY <3>2, <3>3
      <4>2. cancelled => cancelled'
        BY <3>2
      <4> QED BY <3>5, <4>1, <4>2 DEF Sealed
    <3> QED BY <3>2, <3>3, <3>4, <3>6
  <2> QED BY <1>3, <2>1, <2>2
<1>7. TypeOK'
  BY <1>1, <1>5, <1>6 DEF RequestStep, TypeOK, Ops
<1> QED BY <1>2, <1>4, <1>6, <1>7

\* The cache cannot be read.
LEMMA LookupFailsInv ==
    ASSUME TypeOK, Sealed, NEW p \in Panels, PanelInv(p), NEW k \in Keys, LookupFails(p, k)
    PROVE  TypeOK' /\ Sealed' /\ PanelInv(p)' /\ Frame(p)
<1> DEFINE new == [class |-> "Fatal", key |-> k]
<1>1. new \in Failure /\ new.class = "Fatal" /\ None \notin Failure
  BY ClassNames, PanelAssumption DEF Failure
<1>2. /\ observed' = [observed EXCEPT ![p] = Append(observed[p], new)]
      /\ failure' = [failure EXCEPT ![p] = new] /\ cancelled' = TRUE
      /\ pc' = [pc EXCEPT ![p] = "failed"] /\ pc[p] = "lookup"
      /\ UNCHANGED <<cache, grades, launches, op, grade, stopped>>
  BY DEF LookupFails, OnError, Looking, TypeOK
<1>3. /\ failure[p] = None /\ ~ stopped[p] /\ Gravest(observed[p], failure[p])
      /\ \A j \in Keys : op[p][j] \in {"none", "hit", "pending"}
  BY <1>2 DEF PanelInv, Course
<1>4. observed[p] = <<>>
  BY <1>3 DEF Gravest
<1> HIDE DEF new
<1>5. Gravest(Append(observed[p], new), new)
  BY <1>1, <1>3, <1>4, FirstGravest
<1>6. /\ observed'[p] = Append(observed[p], new) /\ failure'[p] = new /\ pc'[p] = "failed"
      /\ \A q \in Panels \ {p} : /\ observed'[q] = observed[q] /\ failure'[q] = failure[q]
                                 /\ pc'[q] = pc[q]
  BY <1>2 DEF TypeOK
<1>7. Frame(p)
  BY <1>2, <1>6 DEF Frame
<1>8. Sealed'
  BY <1>2 DEF Sealed
<1>9. TypeOK'
  <2>1. Append(observed[p], new) \in Seq(Failure)
    BY <1>1 DEF TypeOK
  <2> QED BY <1>1, <1>2, <2>1 DEF TypeOK
<1>10. PanelInv(p)'
  <2>1. failure'[p] # None /\ op'[p] = op[p] /\ grade' = grade /\ cache' = cache
        /\ stopped' = stopped
    BY <1>1, <1>2, <1>6
  <2>2. Course(p)'
    BY <1>3, <1>6, <2>1 DEF Course, Started
  <2>3. Backed(p)'
    BY <1>3, <2>1 DEF PanelInv, Backed
  <2>4. Complete(p)'
    BY <1>6 DEF Complete
  <2> QED BY <1>5, <1>6, <2>2, <2>3, <2>4 DEF PanelInv
<1> QED BY <1>7, <1>8, <1>9, <1>10

\* A panel that starts, has looked everything up, or finished.
LEMMA MoveInv ==
    ASSUME TypeOK, Sealed, NEW p \in Panels, PanelInv(p), Start(p) \/ Collected(p) \/ Finish(p)
    PROVE  TypeOK' /\ Sealed' /\ PanelInv(p)' /\ Frame(p)
<1>1. CASE Start(p)
  <2>1. TypeOK' /\ Frame(p)
    BY <1>1 DEF Start, TypeOK, Frame, process
  <2>2. PanelInv(p)'
    <3>1. /\ op'[p] = [k \in Keys |-> "none"] /\ failure'[p] = None
          /\ observed'[p] = <<>> /\ ~ stopped'[p] /\ pc'[p] = "lookup"
      BY <1>1 DEF Start, TypeOK
    <3> QED BY <3>1, FreshPanel
  <2>3. Sealed'
    <3>1. cancelled' = cancelled /\ observed'[p] = <<>>
      BY <1>1 DEF Start, TypeOK, process
    <3>2. \A q \in Panels : q # p => observed'[q] = observed[q]
      BY <2>1 DEF Frame
    <3> QED BY <3>1, <3>2 DEF Sealed
  <2> QED BY <2>1, <2>2, <2>3
<1>2. CASE Collected(p)
  <2>1. TypeOK' /\ Sealed' /\ Frame(p)
    BY <1>2 DEF Collected, TypeOK, Frame, Sealed, process
  <2>2. /\ pc'[p] = "drain" /\ \A k \in Keys : op[p][k] # "none"
        /\ UNCHANGED <<cache, op, grade, stopped, failure, observed>>
    BY <1>2 DEF Collected, TypeOK
  <2>3. Course(p)' /\ Complete(p)'
    BY <2>2 DEF Course, Complete
  <2>4. Backed(p)'
    BY <2>2 DEF PanelInv, Backed
  <2>5. Gravest(observed'[p], failure'[p])
    BY <2>2 DEF PanelInv
  <2> QED BY <2>1, <2>3, <2>4, <2>5 DEF PanelInv
<1>3. CASE Finish(p)
  <2>1. /\ pc[p] = "drain" /\ \A k \in Keys : op[p][k] \notin Started \cup {"pending"}
        /\ UNCHANGED <<cache, grades, process, op, grade, stopped, failure, observed>>
        /\ pc'[p] = IF failure[p] # None THEN "failed"
                    ELSE IF \A i \in DOMAIN Judges : grade[p][Judges[i]] # None
                         THEN "ok" ELSE "omitted"
        /\ DOMAIN pc' = Panels /\ \A q \in Panels \ {p} : pc'[q] = pc[q]
    BY <1>3 DEF Finish, TypeOK
  <2>2. \A k \in Keys : op[p][k] \in Ops /\ op[p][k] # "none"
    BY <2>1 DEF TypeOK, Ops, PanelInv, Course
  <2>3. failure[p] = None => \A k \in Keys : op[p][k] \in {"hit", "done"}
    BY <2>1, <2>2 DEF PanelInv, Backed, Ops
  <2>4. failure[p] = None => \A i \in DOMAIN Judges : grade[p][Judges[i]] # None
    <3>1. \A i \in DOMAIN Judges : Judges[i] \in Keys
      BY DEF Keys, Range
    <3> QED BY <2>3, <3>1 DEF PanelInv, Backed
  <2>5. pc'[p] = IF failure[p] # None THEN "failed" ELSE "ok"
    BY <2>1, <2>4
  <2>6. pc' \in [Panels -> {"idle", "lookup", "drain", "ok", "failed"}]
    BY <1>3, <2>1, <2>5 DEF Finish, TypeOK
  <2>7. TypeOK' /\ Sealed' /\ Frame(p)
    BY <2>1, <2>6 DEF TypeOK, Sealed, Frame, process
  <2>8. PanelInv(p)'
    BY <2>1, <2>3, <2>5 DEF PanelInv, Course, Backed, Complete
  <2> QED BY <2>7, <2>8
<1> QED BY <1>1, <1>2, <1>3

\* Every step keeps the invariant.
LEMMA InvStep == IInv /\ [Next]_vars => IInv'
<1> SUFFICES ASSUME IInv, [Next]_vars PROVE IInv'
  OBVIOUS
<1>1. TypeOK /\ Sealed /\ \A q \in Panels : PanelInv(q)
  BY DEF IInv
<1>2. ASSUME UNCHANGED <<pc, op, grade, stopped, failure, observed, cache, grades, launches>>,
             cancelled' \in BOOLEAN, cancelled => cancelled'
      PROVE  IInv'
  BY <1>1, <1>2 DEF IInv, TypeOK, Sealed, PanelInv, Course, Backed, Complete
<1>3. CASE UNCHANGED vars \/ Cancel
  BY <1>1, <1>2, <1>3 DEF vars, Cancel, process, panel, TypeOK
<1>4. CASE Crash
  <2>1. TypeOK'
    <3>1. launches' \in 1 .. MaxLaunches
      BY <1>1, <1>4, PanelAssumption DEF Crash, TypeOK
    <3>2. <<>> \in Seq(Failure) /\ op' \in [Panels -> [Keys -> Ops]]
      BY <1>4 DEF Crash, Ops
    <3>3. grade' \in [Panels -> [Keys -> Nat \cup {None}]]
      BY <1>4 DEF Crash
    <3> QED BY <1>1, <1>4, <3>1, <3>2, <3>3 DEF Crash, TypeOK, Ops
  <2>2. Sealed'
    BY <1>4 DEF Crash, Sealed
  <2>3. ASSUME NEW q \in Panels PROVE PanelInv(q)'
    <3>1. /\ op'[q] = [k \in Keys |-> "none"] /\ failure'[q] = None
          /\ observed'[q] = <<>> /\ ~ stopped'[q] /\ pc'[q] = "idle"
      BY <1>4 DEF Crash
    <3> QED BY <3>1, FreshPanel
  <2> QED BY <2>1, <2>2, <2>3 DEF IInv
<1>5. ASSUME NEW p \in Panels, Start(p) \/ Panel(p) PROVE IInv'
  <2>1. TypeOK' /\ Sealed' /\ PanelInv(p)' /\ Frame(p)
    <3>1. CASE Start(p) \/ Collected(p) \/ Finish(p)
      BY <1>1, <3>1, MoveInv
    <3>2. ASSUME NEW k \in Keys, Request(p, k)
          PROVE  TypeOK' /\ Sealed' /\ PanelInv(p)' /\ Frame(p)
      BY <1>1, <3>2, RequestInv, LookupFailsInv
    <3> QED BY <1>5, <3>1, <3>2 DEF Panel
  <2>2. ASSUME NEW q \in Panels PROVE PanelInv(q)'
    BY <1>1, <2>1, OtherPanel
  <2> QED BY <2>1, <2>2 DEF IInv
<1> QED BY <1>3, <1>4, <1>5 DEF Next

\* Nothing was asked, cached or paid for at first.
LEMMA InitIInv == Init => IInv
<1> SUFFICES ASSUME Init PROVE IInv
  OBVIOUS
<1>1. TypeOK
  <2>1. 0 \in 0 .. MaxGrades /\ 1 \in 1 .. MaxLaunches /\ <<>> \in Seq(Failure)
    BY PanelAssumption
  <2>2. op \in [Panels -> [Keys -> Ops]] /\ cache \in [Keys -> Nat \cup {None}]
        /\ grade \in [Panels -> [Keys -> Nat \cup {None}]]
    BY DEF Init, Ops
  <2> QED BY <2>1, <2>2 DEF Init, TypeOK, Ops
<1>2. Sealed
  BY DEF Init, Sealed
<1>3. \A p \in Panels : PanelInv(p)
  BY DEF Init, PanelInv, Course, Backed, Complete, Gravest
<1> QED BY <1>1, <1>2, <1>3 DEF IInv

\* What a panel knows of its requests, what there is of them in the cache, and which failure
\* it keeps agree, over every interleaving of panels, cancellation and relaunch.
THEOREM Invariance == Spec => []IInv
BY InitIInv, InvStep, PTL DEF Spec

\* A panel ends with the first of its gravest failures, with nothing of it still running; if
\* it returns grades they are complete and durable.
THEOREM KeepsGravest == Spec => []PanelKeepsTheGravest
<1>1. IInv => PanelKeepsTheGravest
  <2> SUFFICES ASSUME IInv PROVE PanelKeepsTheGravest
    OBVIOUS
  <2>1. KeepsTheGravest
    BY DEF IInv, PanelInv, Gravest, KeepsTheGravest
  <2>2. CompleteAndDurable
    BY DEF IInv, PanelInv, Complete, Backed, Gravest, CompleteAndDurable
  <2>3. Drained
    BY <2>2 DEF IInv, PanelInv, Course, Drained
  <2> QED BY <2>1, <2>3 DEF PanelKeepsTheGravest
<1> QED BY Invariance, <1>1, PTL

-----------------------------------------------------------------------------
(* What is sent                                                            *)

\* A panel that no other overlaps only waits for grades that are not cached.
Uncached == Alone => \A p \in Panels : \A k \in Keys :
                         op[p][k] \in {"pending", "called"} => cache[k] = None

\* What a lone panel waits for is not put into the cache by anything else.
LEMMA UncachedStep == TypeOK /\ Uncached /\ [Next]_vars => Uncached'
<1> SUFFICES ASSUME TypeOK, Uncached, [Next]_vars, Alone, NEW p \in Panels, NEW k \in Keys,
                    op'[p][k] \in {"pending", "called"}
             PROVE  cache'[k] = None
  BY DEF Uncached, Alone
<1>1. op \in [Panels -> [Keys -> Ops]] /\ cache \in [Keys -> Nat \cup {None}]
  BY DEF TypeOK, Ops
<1>2. op[p][k] \in {"pending", "called"} => cache[k] = None
  BY DEF Uncached
<1>3. CASE UNCHANGED vars \/ Cancel
  BY <1>2, <1>3 DEF vars, Cancel, panel
<1>4. CASE Crash
  BY <1>4 DEF Crash
<1>5. CASE Start(p) \/ Collected(p) \/ Finish(p)
  <2>1. cache' = cache /\ (op' = op \/ op'[p][k] = "none")
    BY <1>1, <1>5 DEF Start, Collected, Finish
  <2> QED BY <1>2, <2>1
<1>6. ASSUME NEW j \in Keys, Request(p, j) PROVE cache'[k] = None
  <2>1. CASE Hit(p, j) \/ LookupFails(p, j) \/ Skip(p, j) \/ Send(p, j) \/ Answer(p, j)
    <3>1. cache' = cache /\ (op'[p][k] = op[p][k] \/ op'[p][k] \notin {"pending", "called"})
      BY <1>1, <2>1 DEF Hit, LookupFails, Skip, Send, Answer
    <3> QED BY <1>2, <3>1
  <2>2. CASE Miss(p, j) \/ Call(p, j)
    <3>1. cache' = cache /\ (j # k => op'[p][k] = op[p][k])
      BY <1>1, <2>2 DEF Miss, Call
    <3>2. j = k => cache[k] = None
      BY <1>2, <2>2 DEF Miss, Call, Draining
    <3> QED BY <1>2, <3>1, <3>2
  <2>3. CASE Put(p, j) \/ PutFails(p, j) \/ CallFails(p, j)
    <3>1. op'[p][j] \in {"done", "failed"} /\ (j # k => op'[p][k] = op[p][k])
      BY <1>1, <2>3 DEF Put, PutFails, CallFails, Fails
    <3>2. cache' = cache \/ cache' = [cache EXCEPT ![j] = grade[p][j]]
      BY <2>3 DEF Put, PutFails, CallFails
    <3>3. j # k
      BY <3>1
    <3> QED BY <1>1, <1>2, <3>1, <3>2, <3>3
  <2> QED BY <1>6, <2>1, <2>2, <2>3 DEF Request
<1>7. \A q \in Panels : q = p
  BY DEF Alone
<1> QED BY <1>3, <1>4, <1>5, <1>6, <1>7 DEF Next, Panel

\* A panel sends only when the launch is not cancelled, a request it had called.
LEMMA SendStep ==
    ASSUME TypeOK, [Next]_vars, NEW p \in Panels, NEW k \in Keys,
           op'[p][k] = "sent", op[p][k] # "sent"
    PROVE  ~ cancelled /\ op[p][k] = "called"
<1>1. op \in [Panels -> [Keys -> Ops]]
  BY DEF TypeOK, Ops
<1>2. PICK q \in Panels : Start(q) \/ Panel(q)
  BY DEF Next, vars, panel, Cancel, Crash
<1>3. ASSUME NEW j \in Keys, Request(q, j) PROVE q = p /\ j = k /\ Send(p, k)
  <2>1. PICK to \in Ops : /\ op' = [op EXCEPT ![q][j] = to] \/ op' = op
                          /\ to = "sent" => Send(q, j)
    BY <1>3 DEF Request, Hit, Miss, LookupFails, Call, Skip, Send, Answer, Put, PutFails,
                CallFails, Fails, Ops, Started
  <2> QED BY <1>1, <2>1
<1>4. ~ (Start(q) \/ Collected(q) \/ Finish(q))
  BY <1>1 DEF Start, Collected, Finish
<1>5. Send(p, k)
  BY <1>2, <1>3, <1>4 DEF Panel
<1> QED BY <1>5 DEF Send, Draining

\* A grade in the cache is never paid for again by a panel that no other overlaps, and after
\* a failure of the launch no panel of it gets a request past admission.
THEOREM SentForAReason == Spec => NothingIsSentInVain
<1> DEFINE Reason == Alone => \A p \in Panels : \A k \in Keys :
                         op'[p][k] = "sent" /\ op[p][k] # "sent" => cache[k] = None
<1>1. Init => Uncached
  BY DEF Init, Uncached
<1>2. IInv => TypeOK /\ Sealed
  BY DEF IInv
<1>3. TypeOK /\ Uncached /\ [Next]_vars => [Reason]_vars
  BY SendStep DEF Uncached
<1>4. TypeOK /\ Sealed /\ [Next]_vars => [SealedStep]_vars
  BY SendStep DEF Sealed, SealedStep
<1>5. Spec => []Uncached
  BY <1>1, <1>2, Invariance, UncachedStep, PTL DEF Spec
<1>6. Spec => [][Reason]_vars
  BY <1>2, <1>3, <1>5, Invariance, PTL DEF Spec
<1>7. Spec => [][SealedStep]_vars
  BY <1>2, <1>4, Invariance, PTL DEF Spec
<1> QED BY <1>6, <1>7 DEF NothingIsSentInVain, NeverRespend, SealedSendsNothing

=============================================================================

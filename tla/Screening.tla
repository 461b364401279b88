----------------------------- MODULE Screening ------------------------------
(***************************************************************************)
(* Screening of an export: the frozen plan that groups a population into   *)
(* components and quarantines them (gw-eval/src/screening*.rs), the        *)
(* extension of an earlier plan, and the screened publication that checks  *)
(* the population again at every transaction (gw-storage/src/              *)
(* screened_publication.rs, screening_binding.rs, screening_witness.rs).   *)
(* A prompt is abstracted to a text; texts that match exactly or           *)
(* lexically are one text.  Plan identities are hashes of the whole plan,  *)
(* so a plan stands for its identity.                                      *)
(***************************************************************************)
EXTENDS Naturals, FiniteSets

CONSTANTS Records,    \* record identities, in key order (naturals)
          Items,      \* source items (or task groups, or sibling sets)
          Texts,      \* complete prompts
          Protected,  \* the texts of the protected sets
          MaxEdits,   \* bound: changes of the store by others
          None

\* The records of a release are finitely many, and their keys are ordered.
ScreeningConstants == Records \subseteq Nat /\ IsFiniteSet(Records)

VARIABLES data,    \* what each record is, should it be in the store
          stored,  \* the records of the declared runs
          plan,    \* the frozen plan, or None
          pending, \* the prepared receipt of the destination, or None
          pub,     \* the publication in progress
          acked,   \* the rows acknowledged as exported
          edits

vars == <<data, stored, plan, pending, pub, acked, edits>>

--------------------------------------------------------------------------
(* prepare_screening                                                       *)

\* capture_screening_input_for: everything of a record the plan depends on.
binding(r) == [record |-> r, data |-> data[r]]
bindings(P) == {binding(r) : r \in P}

\* declared_edges, lexical_edges: one source item, one prompt, or parent and child.
Edge(r, s) == \/ data[r].item = data[s].item
              \/ data[r].text = data[s].text
              \/ data[r].parent = s \/ data[s].parent = r

\* A parent outside the population leaves the plan incomplete.
Incomplete(P) == P = {} \/ \E r \in P : data[r].parent \notin P \cup {None}

\* The union-find of groups: the least set closed under the edges.
ComponentOf(r, P) ==
    {s \in P : \A C \in SUBSET P :
        (r \in C /\ \A x \in C, y \in P : Edge(x, y) => y \in C) => s \in C}

Least(C) == CHOOSE r \in C : \A s \in C : r <= s

\* Mutated: a joined group forgets it in the next extension.
FrozenGroupForgetting(C, previous) ==
    LET old == {g \in previous : g.members \cap C # {}}
        splits == {data[r].split : r \in C}
    IN [members |-> C,
        id |-> IF old = {} THEN {Least(C)} ELSE UNION {g.id : g \in old},
        split |-> IF Cardinality(splits) = 1 THEN CHOOSE s \in splits : TRUE ELSE None,
        reasons |-> {x \in {"joined", "split", "protected"} :
            CASE x = "joined" -> Cardinality(old) > 1
              [] x = "split" -> Cardinality(splits) > 1
              [] x = "protected" -> \E r \in C : data[r].text \in Protected}]
\* One component.  Its identity is the anchor of the first plan that knew it;
\* groups once separate that a new record joins are quarantined, for good.
FrozenGroup(C, previous) ==
    LET old == {g \in previous : g.members \cap C # {}}
        splits == {data[r].split : r \in C}
    IN [members |-> C,
        id |-> IF old = {} THEN {Least(C)} ELSE UNION {g.id : g \in old},
        split |-> IF Cardinality(splits) = 1 THEN CHOOSE s \in splits : TRUE ELSE None,
        reasons |-> {x \in {"joined", "split", "protected"} :
            CASE x = "joined" -> \/ Cardinality(old) > 1
                                 \/ \E g \in old : "joined" \in g.reasons
              [] x = "split" -> Cardinality(splits) > 1
              [] x = "protected" -> \E r \in C : data[r].text \in Protected}]

groups(P, previous) == {FrozenGroup(C, previous) : C \in {ComponentOf(r, P) : r \in P}}

\* The rest of the requested output is excluded, with its reasons.
Eligible(P, gs) ==
    {r \in P : /\ ~ Incomplete(P) /\ data[r].admitted
               /\ \E g \in gs : /\ r \in g.members /\ g.reasons = {}
                                /\ g.split = "train"}

\* base: the population and groups of the plan this one extends.
prepare(P, base) ==
    LET gs == groups(P, base.groups) IN
    [population |-> bindings(P), groups |-> gs, eligible |-> Eligible(P, gs),
     complete |-> ~ Incomplete(P), base |-> base]

NoBase == [population |-> {}, groups |-> {}]
Of(p) == [population |-> p.population, groups |-> p.groups]
\* validate_screening_plan: the planner, run again, gives the same plan.
validate(P, p) == bindings(P) = p.population /\ prepare(P, p.base) = p

\* screening_witness::validate: groups with identities of their own partition the
\* population, and only members of clean Train groups are exported.
Witnessed(p) ==
    /\ p.complete /\ p.population # {}
    /\ \A b \in p.population : \E g \in p.groups : b.record \in g.members
    /\ \A g, h \in p.groups : g # h => g.id # h.id /\ g.members \cap h.members = {}
    /\ \A r \in p.eligible : \E g \in p.groups :
          r \in g.members /\ g.reasons = {} /\ g.split = "train"

--------------------------------------------------------------------------
Idle == [pc |-> "idle", plan |-> None, found |-> FALSE]
Goto(place) == pub' = [pub EXCEPT !.pc = place]
Refuse == pub' = Idle
rest == <<data, stored, edits>>

\* A first plan of the supplied records, or an extension: every member of the
\* previous plan is still there and unchanged.
Freeze ==
    /\ pub = Idle
    /\ \/ plan' = prepare(stored, NoBase)
       \/ /\ plan # None /\ plan.population \subseteq bindings(stored)
          /\ plan' = prepare(stored, Of(plan))
    /\ plan' # plan
    /\ UNCHANGED <<pending, pub, acked>> /\ UNCHANGED rest

\* publish_screened_export: what is pending at the destination is of this plan.
Begin ==
    /\ pub = Idle /\ plan # None
    /\ IF pending # None /\ pending # plan THEN UNCHANGED pub
       ELSE pub' = [pc |-> "read", plan |-> plan, found |-> pending # None]
    /\ UNCHANGED <<plan, pending, acked>> /\ UNCHANGED rest

\* The population is read in one transaction and the plan validated against it.
Validate ==
    /\ pub.pc = "read"
    /\ IF validate(stored, pub.plan) /\ Witnessed(pub.plan) THEN Goto("prepare") ELSE Refuse
    /\ UNCHANGED <<plan, pending, acked>> /\ UNCHANGED rest

\* In the transaction: the whole population, not only the selected rows.
check_population(p) == bindings(stored) = p.population

\* prepare_export_receipt, or restore_export_plan of the pending one.
Prepare ==
    /\ pub.pc = "prepare"
    /\ IF check_population(pub.plan)
       THEN pending' = pub.plan /\ Goto("stage")
       ELSE Refuse /\ UNCHANGED pending
    /\ UNCHANGED <<plan, acked>> /\ UNCHANGED rest

\* finish_publication stages and renames the file (see Publication).
Stage == /\ pub.pc = "stage" /\ Goto("acknowledge")
         /\ UNCHANGED <<plan, pending, acked>> /\ UNCHANGED rest

Acknowledge ==
    /\ pub.pc = "acknowledge" /\ Refuse
    /\ IF check_population(pub.plan)
       THEN acked' = acked \cup pub.plan.eligible /\ pending' = None
       ELSE UNCHANGED <<acked, pending>>
    /\ UNCHANGED plan /\ UNCHANGED rest

Crash == /\ pub # Idle /\ Refuse
         /\ UNCHANGED <<plan, pending, acked>> /\ UNCHANGED rest

\* Others insert a record into a declared run, rewrite one, or exclude it.
Edit ==
    /\ edits < MaxEdits /\ edits' = edits + 1
    /\ \/ \E r \in Records \ stored : stored' = stored \cup {r} /\ UNCHANGED data
       \/ /\ \E r \in stored : \/ \E t \in Texts : data' = [data EXCEPT ![r].text = t]
                               \/ data' = [data EXCEPT ![r].admitted = FALSE]
          /\ data' # data /\ UNCHANGED stored
    /\ UNCHANGED <<plan, pending, pub, acked>>

Datum == [item : Items, text : Texts, split : {"train", "test"},
          parent : Records \cup {None}, admitted : BOOLEAN]

Init == /\ data \in [Records -> Datum]
        /\ \A r \in Records : data[r].admitted /\ data[r].parent # r
        /\ stored \in SUBSET Records /\ plan = None /\ pending = None
        /\ pub = Idle /\ acked = {} /\ edits = 0

Next == Freeze \/ Begin \/ Validate \/ Prepare \/ Stage \/ Acknowledge \/ Crash \/ Edit

Spec == Init /\ [][Next]_vars

--------------------------------------------------------------------------
\* Records P can be told apart from everything held out or protected: some set
\* around it is closed under every relation and has no such member.
Separated(P) ==
    \E C \in SUBSET stored :
        /\ P \subseteq C
        /\ \A x \in C, y \in stored : Edge(x, y) => y \in C
        /\ \A x \in C : data[x].split = "train" /\ data[x].text \notin Protected

\* What is acknowledged as screened is, in the store as it is at that moment,
\* selected, and connected to nothing held out or protected through any chain of
\* relations, whatever joined or changed since the plan was frozen.
AcknowledgedStep ==
    acked' # acked => /\ Separated(acked' \ acked)
                      /\ \A r \in acked' \ acked : r \in stored /\ data[r].admitted
AcknowledgedIsSeparated == [][AcknowledgedStep]_vars

\* An extension never gives back a record the plan before it had quarantined, and
\* a group keeps its identity until another prior group joins it.
QuarantineStep ==
    plan' # plan /\ plan # None /\ plan'.base = Of(plan) =>
        \A g \in plan.groups : \E h \in plan'.groups :
            /\ g.members \subseteq h.members
            /\ g.reasons \subseteq h.reasons
            /\ h.id # g.id => "joined" \in h.reasons
QuarantineIsForever == [][QuarantineStep]_vars

\* The storage's own check of a witness accepts every complete plan the planner
\* freezes, first plan or extension, joined groups included.
WitnessAccepts == plan # None /\ plan.complete => Witnessed(plan)
=============================================================================

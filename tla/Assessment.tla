----------------------------- MODULE Assessment -----------------------------
(***************************************************************************)
(* Whether an artifact may be used for something (gw-providers             *)
(* artifact_assessment/*, gw-schema model_identity/artifact.rs).  The      *)
(* owner's reviews become a catalog, the supplied declarations an index,   *)
(* and the requested artifact is walked with everything it was made of.    *)
(* Whatever is wrong becomes a denial; no denial means eligible.  An       *)
(* artifact's identity is the digest of its declaration, so an artifact    *)
(* names only identities that existed before it: they are numbered so.     *)
(***************************************************************************)
EXTENDS Integers, Sequences, FiniteSets, SequencesExt

CONSTANTS None,     \* no value
          Unknown,  \* Declaration::Unknown
          Families, \* what may be declared: functions from identities to lineages
          Scopes,   \* the [role, use] pairs a review may be for
          Scope,    \* the pair the assessment is asked for
          MaxSlips  \* bound: mistakes in one submission

VARIABLES family,  \* the lineage each identity is the digest of
          asked,   \* the requested identity
          supply,  \* the owner's reviews and the bundle: artifacts, policies
          catalog, \* the reviews taken, by artifact and scope
          walk,    \* pending identities (a stack), visited ones
          denials, \* [artifact, reason]
          slips, stage
vars == <<family, asked, supply, catalog, walk, denials, slips, stage>>

Ids == DOMAIN family
AxisOrder == <<"rights", "serving_terms", "output_terms">>
Axes == ToSet(AxisOrder)

--------------------------------------------------------------------------
(* Lineage: [kind, base, more, parent, adapter]; more is a set, parent and *)
(* adapter an identity or None, each of the three possibly Unknown.        *)

\* ModelArtifactLineage::validate, artifact_set: a base is not a further parent.
validate(l) == l.kind = "derived" /\ l.more # Unknown => l.base \notin l.more
Claimed(claim) == IF claim \in {None, Unknown} THEN <<>> ELSE <<claim>>
\* parents, optional: in the order they are pushed.
parents(l) ==
    CASE l.kind = "base" -> <<>>
      [] l.kind = "derived" -> <<l.base>> \o (IF l.more = Unknown THEN <<>> ELSE SetToSortSeq(l.more, <))
      [] l.kind = "quantized" -> <<l.base>>
      [] l.kind = "adapter" -> <<l.base>> \o Claimed(l.parent)
      [] l.kind = "checkpoint" -> <<l.base>> \o Claimed(l.parent) \o Claimed(l.adapter)
\* UnknownLineage.
Vague(l) ==
    \/ l.kind = "derived" /\ l.more = Unknown
    \/ l.kind \in {"adapter", "checkpoint"} /\ l.parent = Unknown
    \/ l.kind = "checkpoint" /\ l.adapter = Unknown
\* check_link: what is continued is of the right kind and grew on the same base.
check_link(claim, base, kind, known) ==
    claim \in known => family[claim].kind = kind /\ family[claim].base = base
Coherent(l, known) ==
    /\ l.kind \in {"adapter", "checkpoint"} => check_link(l.parent, l.base, "checkpoint", known)
    /\ l.kind = "checkpoint" => check_link(l.adapter, l.base, "adapter", known)

--------------------------------------------------------------------------
(* The catalog.  A policy is [subject, kind, scope, claim, bytes]; its     *)
(* identity leaves the bytes out.  Bytes stand for their own digest.       *)

declaration(p) == [subject |-> p.subject, kind |-> p.kind, scope |-> p.scope, claim |-> p.claim]
policy_bytes_match(p) == p.claim = p.bytes
\* normalize, normalize_policy.
normalize(r) ==
    \A x \in Axes :
       /\ r.axes[x].state = "inapplicable" => x # "rights"
       /\ r.axes[x].state = "reviewed" =>
             LET p == r.axes[x].policy
             IN p.subject = r.artifact /\ p.kind = x /\ p.scope = r.scope /\ policy_bytes_match(p)
Key(r) == <<r.artifact, r.scope>>
\* TrustedArtifactCatalog::new.
NewCatalog(reviews) ==
    IF (\E i \in DOMAIN reviews : ~normalize(reviews[i])) \/ ~IsInjective([i \in DOMAIN reviews |-> Key(reviews[i])])
    THEN None ELSE ToSet(reviews)
\* Mutated: a review counts for every use of the artifact.
Reviews_of_any_use(id) == {r \in catalog : r.artifact = id}
\* TrustedArtifactCatalog::review.
Reviews(id) == {r \in catalog : Key(r) = <<id, Scope>>}

--------------------------------------------------------------------------
(* The index of the bundle.  An entry that does not validate is None.      *)

Deny(id, reason) == [artifact |-> id, reason |-> reason]
Valid(entries) == {i \in DOMAIN entries : entries[i] # None}
Known == {supply.artifacts[i] : i \in Valid(supply.artifacts)}
Policies == {supply.policies[i] : i \in Valid(supply.policies)}
\* The last of equal declarations is the one kept.
Kept(p) ==
    LET at == {i \in Valid(supply.policies) : declaration(supply.policies[i]) = declaration(p)}
    IN IF at = {} THEN None ELSE supply.policies[CHOOSE i \in at : \A j \in at : j <= i]
PolicyScope(p) == <<p.subject, p.kind, p.scope>>
Twice(entries, by(_)) ==
    {entries[i] : i \in {k \in Valid(entries) : \E j \in Valid(entries) : j < k /\ by(entries[j]) = by(entries[k])}}
\* evidence::index.
index ==
    LET sameScope == {p \in Policies : \E q \in Policies :
                         PolicyScope(p) = PolicyScope(q) /\ declaration(p) # declaration(q)}
    IN {Deny(id, "DuplicateArtifact") : id \in Twice(supply.artifacts, LAMBDA a : a)}
       \cup {Deny(None, "InvalidArtifact") : i \in DOMAIN supply.artifacts \ Valid(supply.artifacts)}
       \cup {Deny(None, "InvalidPolicy") : i \in DOMAIN supply.policies \ Valid(supply.policies)}
       \cup {Deny(p.subject, "MultiplePoliciesForScope") : p \in sameScope}
       \cup {Deny(p.subject, "PolicyContentMismatch") : p \in {q \in Policies : ~policy_bytes_match(q)}}
       \cup {Deny(p.subject, "DuplicatePolicy") : p \in Twice(supply.policies, declaration)}

--------------------------------------------------------------------------
(* The walk.                                                               *)

\* What a review found says against an artifact.
Judged(id, r) ==
    LET axis(x) == r.axes[x]
        read == {x \in Axes : axis(x).state = "reviewed"}
    IN {Deny(id, "ClosedArtifact") : o \in {r.openness} \cap {"closed"}}
       \cup {Deny(id, "UnknownOpenness") : o \in {r.openness} \cap {"unknown"}}
       \cup {Deny(id, "UnreviewedPolicy") : x \in {y \in Axes : axis(y).state = "unreviewed"}}
       \cup {Deny(id, "MissingPolicy") : x \in {y \in read : Kept(axis(y).policy) = None}}
       \cup {Deny(id, "PolicyContentMismatch") : x \in
                {y \in read : Kept(axis(y).policy) # None /\ Kept(axis(y).policy).bytes # axis(y).policy.bytes}}
\* Everything said against one artifact of the walk.
Examined(id) ==
    LET l == family[id]
    IN {Deny(id, "UnknownLineage") : x \in {l} \cap {k \in {l} : Vague(k)}}
       \cup {Deny(id, "ConflictingLineage") : x \in {k \in {l} : ~Coherent(k, Known)}}
       \cup (IF Reviews(id) = {} THEN {Deny(id, "MissingTrustedReview")}
             ELSE UNION {Judged(id, r) : r \in Reviews(id)})

--------------------------------------------------------------------------
(* A submission: everything reviewed and supplied, but for a few slips.    *)

RightPolicy(id, x, scope) == [subject |-> id, kind |-> x, scope |-> scope, claim |-> 1, bytes |-> 1]
RightReview(id) ==
    [artifact |-> id, scope |-> Scope, openness |-> "open_weights",
     axes |-> [x \in Axes |-> [state |-> "reviewed", policy |-> RightPolicy(id, x, Scope)]]]
Init ==
    /\ family \in {f \in Families : \A id \in DOMAIN f : validate(f[id])}
    /\ asked \in Ids
    /\ supply = [reviews |-> [i \in 1..Cardinality(Ids) |-> RightReview(i)],
                 artifacts |-> [i \in 1..Cardinality(Ids) |-> i],
                 policies |-> FlattenSeq([i \in 1..Cardinality(Ids) |-> [k \in 1..3 |-> RightPolicy(i, AxisOrder[k], Scope)]])]
    /\ catalog = None /\ walk = [pending |-> <<>>, visited |-> {}]
    /\ denials = {} /\ slips = 0 /\ stage = "submit"

Slip(changed) ==
    /\ stage = "submit" /\ slips < MaxSlips /\ slips' = slips + 1
    /\ supply' = changed /\ supply' # supply
    /\ UNCHANGED <<family, asked, catalog, walk, denials, stage>>
Resupply(field, value) == Slip([supply EXCEPT ![field] = value])
\* Entries are forgotten, repeated or unreadable.
Forget == \E field \in DOMAIN supply : \E i \in DOMAIN supply[field] : Resupply(field, RemoveAt(supply[field], i))
Repeat == \E field \in DOMAIN supply : \E i \in DOMAIN supply[field] : Resupply(field, Append(supply[field], supply[field][i]))
Garble == \E field \in {"artifacts", "policies"} : \E i \in DOMAIN supply[field] :
              Resupply(field, [supply[field] EXCEPT ![i] = None])
\* A policy's text, or text and declaration, is another revision.
Revise == \E i \in Valid(supply.policies), both \in BOOLEAN :
              Resupply("policies", [supply.policies EXCEPT ![i].bytes = 2, ![i].claim = IF both THEN 2 ELSE @])
\* A review and its documents are for another scope; a review is of another openness, or leaves
\* an axis open.
Rescoped(p, id, s) == IF p # None /\ p.subject = id THEN [p EXCEPT !.scope = s] ELSE p
Rescope == \E i \in DOMAIN supply.reviews, s \in Scopes \ {Scope} :
               LET id == supply.reviews[i].artifact
               IN Slip([supply EXCEPT
                      !.reviews[i] = [@ EXCEPT !.scope = s, !.axes = [x \in Axes |->
                           [@[x] EXCEPT !.policy = Rescoped(@, id, s)]]],
                      !.policies = [k \in DOMAIN @ |-> Rescoped(@[k], id, s)]])
Reclassify == \E i \in DOMAIN supply.reviews, o \in {"open_training_artifacts", "closed", "unknown"} :
                  Resupply("reviews", [supply.reviews EXCEPT ![i].openness = o])
Suspend == \E i \in DOMAIN supply.reviews, x \in Axes, s \in {"unreviewed", "inapplicable"} :
               Resupply("reviews", [supply.reviews EXCEPT ![i].axes[x] = [state |-> s, policy |-> None]])
\* A review cites a policy that is for something else, or whose bytes are not its own.
Miscite == \E i \in DOMAIN supply.reviews, x \in Axes :
               /\ supply.reviews[i].axes[x].state = "reviewed"
               /\ \/ \E y \in Axes : Resupply("reviews", [supply.reviews EXCEPT ![i].axes[x].policy.kind = y])
                  \/ Resupply("reviews", [supply.reviews EXCEPT ![i].axes[x].policy.bytes = 2])

\* The owner's catalog is built first; one it refuses approves nothing.
Catalogue ==
    /\ stage = "submit" /\ catalog' = NewCatalog(supply.reviews)
    /\ stage' = IF catalog' = None THEN "refused" ELSE "index"
    /\ UNCHANGED <<family, asked, supply, walk, denials, slips>>
\* The bundle is indexed and the requested artifact pushed.
Index ==
    /\ stage = "index" /\ denials' = index /\ walk' = [walk EXCEPT !.pending = <<asked>>]
    /\ stage' = "walk" /\ UNCHANGED <<family, asked, supply, catalog, slips>>
\* The newest pending identity is examined, once.
Visit ==
    /\ stage = "walk" /\ walk.pending # <<>>
    /\ LET id == Last(walk.pending)
           rest == Front(walk.pending)
           seen == walk.visited \cup {id}
       IN IF id \in walk.visited THEN walk' = [walk EXCEPT !.pending = rest] /\ UNCHANGED denials
          ELSE IF id \notin Known
               THEN /\ walk' = [pending |-> rest, visited |-> seen]
                    /\ denials' = denials \cup {Deny(id, "MissingArtifact")}
               ELSE /\ walk' = [pending |-> rest \o parents(family[id]), visited |-> seen]
                    /\ denials' = denials \cup Examined(id)
    /\ UNCHANGED <<family, asked, supply, catalog, slips, stage>>
Report ==
    /\ stage = "walk" /\ walk.pending = <<>> /\ stage' = "reported"
    /\ UNCHANGED <<family, asked, supply, catalog, walk, denials, slips>>
Next == \/ Forget \/ Repeat \/ Garble \/ Revise \/ Rescope \/ Reclassify \/ Suspend \/ Miscite
        \/ Catalogue \/ Index \/ Visit \/ Report
Spec == Init /\ [][Next]_vars

--------------------------------------------------------------------------
(* Properties.                                                             *)

\* Everything an identity was made of, however many steps back.
Made(id) ==
    LET Direct(a) == {b \in Ids : \/ b = family[a].base
                                  \/ family[a].more # Unknown /\ b \in family[a].more
                                  \/ b \in {family[a].parent, family[a].adapter}}
        Back[n \in Nat] == IF n = 0 THEN {id} ELSE Back[n - 1] \cup UNION {Direct(a) : a \in Back[n - 1]}
    IN Back[Cardinality(Ids)]
Once(entries, entry) == Cardinality({i \in DOMAIN entries : entries[i] = entry}) = 1
\* An artifact open to inspection, its policies read for the very scope asked and supplied unchanged.
Approved(id) ==
    /\ Once(supply.artifacts, id)
    /\ Unknown \notin {family[id].more, family[id].parent, family[id].adapter}
    /\ \A a \in Ids : a \in {family[id].parent, family[id].adapter} => family[a].base = family[id].base
    /\ \E i \in DOMAIN supply.reviews :
          LET r == supply.reviews[i]
          IN /\ r.artifact = id /\ r.scope = Scope /\ r.openness \in {"open_weights", "open_training_artifacts"}
             /\ r.axes["rights"].state = "reviewed"
             /\ \A x \in Axes : \/ r.axes[x].state = "inapplicable"
                                \/ /\ r.axes[x].state = "reviewed"
                                   /\ PolicyScope(r.axes[x].policy) = <<id, x, Scope>>
                                   /\ Once(supply.policies, r.axes[x].policy)

\* An artifact is eligible only if it and everything it was made of - bases, parents, merged models
\* and adapters, through any number of generations - was reviewed as open for this role and use,
\* and every policy was supplied exactly as the reviewer read it; a faultless submission for such
\* an artifact is eligible, whatever ancestors its parts share (assess_artifact, lineage::parents).
EligibleMeansReviewed ==
    stage = "reported" =>
       LET approved == \A id \in Made(asked) : Approved(id) /\ Coherent(family[id], Ids)
       IN IF slips = 0 THEN denials = {} <=> approved ELSE denials = {} => approved

=============================================================================

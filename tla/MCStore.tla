------------------------------- MODULE MCStore -------------------------------
(* Two ledgers that change under those who rely on them: two launches of   *)
(* one run with two callers each share its accounting ledger, under two    *)
(* limits and up to two policies (Admission, with the variables of its     *)
(* module); and a release is screened while the store goes on changing.    *)
EXTENDS Admission, TLC
CONSTANTS c1, c2, t1, t2
CONSTANTS ScreenRecords, ScreenItems, ScreenTexts, ScreenProtected, ScreenEdits

VARIABLES scenario, \* the component the behaviour is about; the other stays idle
          data, stored, plan, pending, pub, acked, edits

TwoLaunches == {c1, c2}
TwoCallers == {t1, t2}
TwoLimits == {1, 2}
OneCost == {1}
Symmetry == Permutations(TwoLaunches) \cup Permutations(TwoCallers)

------------------------------------------------------------------------------
(* Three records of two items and two texts, one of them protected, a      *)
(* parent link of the third, two of them stored at first or all, and one   *)
(* edit. Items are interchangeable.                                        *)
Screen == INSTANCE Screening WITH
    Records <- ScreenRecords, Items <- ScreenItems, Texts <- ScreenTexts,
    Protected <- ScreenProtected, MaxEdits <- ScreenEdits
ASSUME ScreenAssumption == Screen!ScreeningConstants
ScreenInit == /\ Screen!Init /\ data[1].item = "i1" /\ data[3].parent \in {None, 1}
              /\ data[1].parent = None /\ data[2].parent = None
              /\ 2 \in stored /\ stored # {2}
screen_vars == <<data, stored, plan, pending, pub, acked, edits>>

------------------------------------------------------------------------------
MCvars == <<scenario, vars, screen_vars>>
screen_idle == /\ data = None /\ stored = None /\ plan = None /\ pending = None
               /\ pub = None /\ acked = None /\ edits = None

MCInit ==
    /\ scenario \in {"account", "screen"}
    /\ Init
    /\ IF scenario = "screen" THEN ~ exists /\ ScreenInit ELSE screen_idle

account_step == /\ scenario = "account" /\ UNCHANGED <<scenario, screen_vars>>
                /\ Next
screen_step == /\ scenario = "screen" /\ UNCHANGED <<scenario, vars>>
               /\ Screen!Next
MCNext == account_step \/ screen_step
MCSpec == MCInit /\ [][MCNext]_MCvars

------------------------------------------------------------------------------
\* What a screened release acknowledges is connected to nothing held out or protected
\* at that moment; an extension gives back nothing that was quarantined; and storage
\* accepts every complete plan (screening.rs, screened_publication.rs).
ReleaseIsSeparated ==
    /\ [](scenario = "screen" => Screen!WitnessAccepts)
    /\ [][scenario = "screen" =>
             Screen!AcknowledgedStep /\ Screen!QuarantineStep]_screen_vars
==============================================================================

----------------------------- MODULE MCAdmission -----------------------------
(* One launch with two callers that wait for each other's requests.        *)
EXTENDS Admission
CONSTANTS c1, t1, t2
OneLaunch == {c1}
TwoCallers == {t1, t2}
OneLimit == {2}
OneCost == {1}
==============================================================================

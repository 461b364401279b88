----------------------------- MODULE MCBestOfK -----------------------------
(* Two siblings, two aggregates, two disturbed launches and one undisturbed. *)
EXTENDS BestOfK
MCScores == {1, 2}
=============================================================================

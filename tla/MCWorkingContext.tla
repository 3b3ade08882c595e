------------------------- MODULE MCWorkingContext -------------------------
(* Constants for WorkingContext: a memory written for a file and two       *)
(* without an anchor that say the same, the first of which the anchored    *)
(* one supersedes while it is eligible.                                    *)
EXTENDS WorkingContext, TLC

CONSTANTS m1, m2, m3, f1, p1, p2

ThreeAnchor == m1 :> f1 @@ m2 :> None @@ m3 :> None
ThreeRank == <<m1, m2, m3>>
ThreeText == m1 :> "one" @@ m2 :> "other" @@ m3 :> "other"
ThreeRelevant == p1 :> {m1} @@ p2 :> {m2, m3}
ThreeSupersedes == {<<m1, m2>>}

(* The anchored memory alone, and one prompt. *)
OneAnchor == m1 :> f1
OneRank == <<m1>>
OneText == m1 :> "one"
OneRelevant == p1 :> {m1} @@ p2 :> {}

=============================================================================

------------------------- MODULE MCHarnessController -------------------------
(* "claim" stands for understand, retrieve, plan and claim, "learn" for      *)
(* repair, prove and learn: a walk is interrupted between two nodes.       *)
EXTENDS HarnessController, TLC

Symmetric == Permutations(Clients)
OnePre  == <<"claim">>
TwoPost == <<"verify", "learn">>
=============================================================================

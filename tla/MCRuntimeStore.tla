--------------------------- MODULE MCRuntimeStore ---------------------------
(* Model values and symmetry for the TLC runs of RuntimeStore. *)
EXTENDS RuntimeStore, TLC

(* Keys and clients are only ever compared for equality. *)
Symmetric == Permutations(Clients) \cup Permutations(Keys)
=============================================================================

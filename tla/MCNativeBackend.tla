--------------------------- MODULE MCNativeBackend ---------------------------
(* Graphs small enough to check: two independent nodes that join, and a    *)
(* chain of two.                                                           *)
EXTENDS NativeBackend

ForkOrder == <<"a", "b", "c">>
ForkDeps  == [n \in {"a", "b", "c"} |-> IF n = "c" THEN {"a", "b"} ELSE {}]
ChainOrder == <<"a", "b">>
ChainDeps  == [n \in {"a", "b"} |-> IF n = "b" THEN {"a"} ELSE {}]
=============================================================================

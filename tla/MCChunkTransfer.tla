---------------------------- MODULE MCChunkTransfer ----------------------------
EXTENDS ChunkTransfer

(* A long content of two metadata packets, a short one, and one the        *)
(* repository does not have.                                               *)
MCSizes ==
    [d \in Names |-> [v \in Versions |-> IF d = "long" THEN 2 + v ELSE 0]]
Once(names) == [d \in Names |-> IF d \in names THEN 1 ELSE 0]
MCWanted == {Once({"long"}), Once({"short", "missing"})}
MCAgain == {[d \in Names |-> IF d = "long" THEN 2 ELSE 0]}
MCBoth == {Once({"long", "short"})}
OnlyChunks(n) == n.kind # "w"
Everything(n) == TRUE
===============================================================================

---------------------------- MODULE MCICNLayerLive ----------------------------
(* A name that has the THUNK marker, with no route or two.                 *)
EXTENDS ICNLayer

MCComponents == {"a", "b"}
AB == <<"a", "b">>
A == <<"a">>
MCNames == {AB}
MCThunks == {AB}
MCPrefixes == {A, AB}
Entry(p, fs) == [name |-> p, faceid |-> fs, static |-> TRUE]
MCFibs == {<< >>, <<Entry(AB, {1}), Entry(A, {2})>>}
MCRules == {[name |-> A, faceid |-> {1}]}
=============================================================================

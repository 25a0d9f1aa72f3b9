------------------------------ MODULE MCICNLayer ------------------------------
(* Names, forwarding tables and rules of the small instances of ICNLayer.   *)
EXTENDS ICNLayer

MCComponents == {"a", "b"}
AB == <<"a", "b">>
A == <<"a">>
MCOneName == {AB}
MCTwoNames == {AB, A}
MCPrefixes == {A, AB}

Entry(p, fs) == [name |-> p, faceid |-> fs, static |-> TRUE]

(* One unicast route, two routes of different length, a multicast route.    *)
MCForwarderFibs ==
    {<< >>,
     <<Entry(A, {2})>>,
     <<Entry(AB, {1}), Entry(A, {2})>>,
     <<Entry(A, {1, 2, 3})>>,
     <<Entry(AB, {2, 3}), Entry(A, {3})>>}
MCNodeFibs == {<< >>, <<Entry(AB, {1}), Entry(A, {2})>>}
MCRules == {[name |-> A, faceid |-> {3}]}
MCNodeRules == {[name |-> A, faceid |-> {1}]}
=============================================================================

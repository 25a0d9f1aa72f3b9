--------------------------- MODULE MCICNNeighbours ---------------------------
(* Topologies around one forwarder: which faces ask, and which routes lead   *)
(* to the faces that answer.                                                 *)
EXTENDS ICNNeighbours

MCComponents == {"a", "b", "c"}
Name == <<"a", "b", "c">>
AB == <<"a", "b">>
A == <<"a">>
MCNames == {Name}
MCTwoNames == {Name, AB}
MCPrefixes == {A, AB, Name}
MCNoRules == {}

Entry(p, fs) == [name |-> p, faceid |-> fs, static |-> TRUE]

(* Consumers and upstream faces apart, and no face on two routes.            *)
MCTidyFibs ==
    {<<Entry(AB, {3}), Entry(A, {4})>>,
     <<Entry(AB, {3, 4}), Entry(A, {5})>>,
     <<Entry(Name, {3}), Entry(A, {4, 5})>>}

(* One multicast route, as in the test of multicast and Nacks.               *)
MCMulticastFibs == {<<Entry(A, {3, 4})>>}

(* The second route leads to a face that is on the first one as well.        *)
MCSharedFibs == {<<Entry(AB, {3, 4}), Entry(A, {4})>>}

(* The consumer's own face is one of the faces of the route.                 *)
MCHairpinFibs == {<<Entry(A, {1, 3, 4})>>}
=============================================================================

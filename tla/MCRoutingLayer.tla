---------------------------- MODULE MCRoutingLayer ----------------------------
(* A prefix and one below it, which the tree merges when they lead to the  *)
(* same face; or two prefixes without a common component.                  *)
EXTENDS RoutingLayer

MCComponents == {"a", "b", "c"}
A == <<"a">>
AB == <<"a", "b">>
MCPrefixes == {<< >>, A, AB}
MCAnnounced == {A, AB}
MCRules == {[name |-> AB, faceid |-> {1}]}

MCApartPrefixes == {<< >>, A, AB, <<"b">>}
MCApart == {AB, <<"b">>}

MCDeepPrefixes == {<< >>, A, AB, <<"a", "b", "a">>, <<"a", "b", "c">>}
MCDeep == {p \in MCDeepPrefixes : Len(p) \in {1, 3}}
MCBetween == {<<"a", "b", "b">>}
===============================================================================

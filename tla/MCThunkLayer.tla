----------------------------- MODULE MCThunkLayer -----------------------------
EXTENDS ThunkLayer

MCData == {"/f", "/g", "/x", "/v"}
F(f) == Token("FUNCCALL", f)
N(d) == Token("NAME", d)

(* /g(/x) and /f(/g(/x)), as the layer is asked for them.                  *)
GX == CompName("/g", <<F("_"), N("/x"), End>>)
FGX == CompName("/f", <<F("_"), F("/g"), N("/x"), End, End>>)

Scene(names, often, refused, routes, stored) ==
    [asks |-> [n \in names |-> often], nacks |-> refused, fib |-> routes,
     cs |-> {DataName(d) : d \in stored}]

(* One nested computation, of which pieces are refused; two that share     *)
(* pieces; one asked for again; data that is in the store, and data that   *)
(* is not, but has a short name.                                           *)
MCScenes ==
    {Scene({FGX}, 1, 9, {"/g", "/x"}, {"/f"}),
     Scene({FGX, GX}, 1, 0, {"/x"}, {"/f", "/g"}),
     Scene({GX}, 2, 0, {"/g", "/x"}, {}), Scene({DataName("/x"), DataName("/v")}, 1, 0, {}, {"/x"})}

MCTwo == {Scene({FGX, GX}, 1, 1, {"/x"}, {"/f", "/g"})}
MCRelay == {Scene({DataName("/x")}, 1, 0, {"/x"}, {})}
===============================================================================

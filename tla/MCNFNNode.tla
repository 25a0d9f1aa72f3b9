------------------------------ MODULE MCNFNNode ------------------------------
EXTENDS NFNNode

MCData == {"/f", "/g", "/x", "/y"}
MCElements == MCData \cup {"1"}

F(f) == Token("FUNCCALL", f)
N(d) == Token("NAME", d)

(* /g(/y) and /f(/g(/y)) *)
GY == <<F("/g"), N("/y"), End>>
FG == <<F("/f")>> \o GY \o <<End>>
Nested == CompName(None, FG)
(* The same under the name of a function, as a forwarder sends it.         *)
Prefixed == CompName("/f", Subst(FG, "/f", "_"))
One == CompName(None, GY)
(* A name with the rewrite this node would make of it itself.              *)
Forwarded == CompName("/y", Subst(GY, "/y", "_"))
(* The same parameter twice, in one call and in a call within a call.      *)
Same == CompName(None, <<F("/f"), N("/x"), Comma, N("/x"), End>>)
SameDeep == CompName(None, <<F("/f"), N("/x"), Comma, F("/g"), N("/x"), End, End>>)

(* Functions are in the content store, and there is a route for /y.        *)
Scene(names, often, q, a, forgotten) ==
    [asks |-> [n \in names |-> often], questions |-> q, alive |-> a, expiring |-> forgotten,
     fib |-> [d \in {"/y"} |-> {3}], cs |-> {"/f", "/g"}]

MCScenes ==
    {Scene({Nested}, 1, 1, 1, {}), Scene({Prefixed}, 1, 0, 0, {}),
     Scene({One}, 2, 0, 0, {"/g"}), Scene({DataName("/x")}, 1, 0, 0, {})}

MCShared == {Scene({Nested, One}, 1, 0, 0, {})}
MCForwarded == {Scene({Forwarded}, 1, 1, 1, {})}
MCSame == {Scene({Same}, 1, 0, 0, {})}
MCSameDeep == {Scene({SameDeep}, 1, 0, 0, {})}
(* The content that a computation is tied to expires.                      *)
MCForgets == {Scene({Prefixed}, 1, 0, 0, {"/f"})}
===============================================================================

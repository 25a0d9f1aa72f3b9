--------------------------- MODULE MCPushRepository ---------------------------
(* A forwarder, whose clients make rules with faces of their own, content, *)
(* and errors; and a push repository that is stopped while clients publish *)
(* and ask.                                                                *)
EXTENDS PushRepository, TLC

CONSTANTS c1, c2

A == <<"a">>
MCNames == {A}

Forwarder == [icn |-> TRUE, repo |-> FALSE, shutdown |-> "stop",
              layers |-> <<"icnlayer", "packetencodinglayer", "linklayer">>]
Repository == [icn |-> FALSE, repo |-> FALSE, shutdown |-> "stop",
               layers |-> <<"repolayer", "packetencodinglayer", "linklayer">>]
DataRepository == [icn |-> FALSE, repo |-> TRUE, shutdown |-> "start",
                   layers |-> <<"repolayer", "chunklayer", "packetencodinglayer", "linklayer">>]
NewFace(a) == [command |-> "newface", address |-> a, if_num |-> 0]
NewRule == [command |-> "newforwardingrule", name |-> A, told |-> TRUE]
NoFaces == [command |-> "newforwardingrule", name |-> A, told |-> FALSE, faceid |-> {}]
NewContent(d) == [command |-> "newcontent", name |-> A, data |-> d]
Say(c) == [command |-> c]

RouteTo(a) == <<NewFace(a), NewRule>>
WrongInterface == <<[NewFace("x") EXCEPT !.if_num = 1]>>
Shutdown == <<NewFace("x"), Say("shutdown"), Say("getpath")>>

Scene(p, first, second) ==
    {[program |-> p, script |-> (c1 :> s @@ c2 :> t)] : s \in first, t \in second}

MCScenes ==
    Scene(Forwarder, {RouteTo("x"), WrongInterface, <<NoFaces>>, <<Say("leave")>>},
                     {RouteTo("x") \o <<NewContent("slash")>>, RouteTo("y"), Shutdown})
    \cup Scene(DataRepository, {RouteTo("x"), <<NoFaces>>, <<Say("getprefix")>>, <<Say("leave")>>}, {Shutdown})
    \cup Scene(Repository, {<<Say("getprefix")>>}, {Shutdown})

Packet(k, n, p) == [kind |-> k, name |-> n, payload |-> p, id |-> 0]
MCPackets == {Packet("publish", A, "base64"), Packet("publish", A, "raw"),
              Packet("fetch", A, "raw"), Packet("other", A, "raw")}
===============================================================================

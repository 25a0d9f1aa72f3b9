----------------------------- MODULE MCLinkStack -----------------------------
(***************************************************************************)
(* Small instances of LinkStack.  The packets have lengths on both sides   *)
(* of 253 bytes, from where a length takes three bytes on the wire, and    *)
(* components and payloads with the characters the string encoder escapes. *)
(* There are more face ids than packets, so that no call waits for one.    *)
(***************************************************************************)
EXTENDS LinkStack, TLC

CONSTANTS x, y, z

A(n) == [i \in 1 .. n |-> 97]
Short == <<A(1), <<47, 98>>, << >>>>
Long == <<A(253), <<98>>>>

(* The packets of x, y and z for the node, and one for nobody.             *)
Posting(e, ps, qs, rs) ==
    LET for(packets) == [i \in DOMAIN packets |-> <<Node, packets[i]>>] IN
    [encoder |-> e,
     posts |-> (x :> for(ps)) @@ (y :> <<<<Nowhere, Interest(Short)>>>> \o for(qs))
               @@ (z :> for(rs))]

MCScenes == {
    Posting("ndn", <<Interest(Short)>>, <<Content(Long, << >>)>>, <<Interest(<<A(220)>>)>>),
    Posting("ndn", <<Content(<<A(252)>>, <<58>>)>>, << >>,
            <<Nack(Short, 150, Interest(Short)), Content(Short, A(253))>>),
    Posting("string", <<Interest(Short), Interest(<<A(2), <<47>>>>)>>,
            <<Content(<<A(1)>>, <<58, 47>>)>>, <<Nack(Short, 150, NoInterest)>>)}

(* The lengths are such that no packet is changed on the wire. *)
ASSUME ScenesFit == PostsFit
=============================================================================

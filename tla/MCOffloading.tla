---------------------------- MODULE MCOffloading ----------------------------
(***************************************************************************)
(* Data of three chunks in two metadata packets, short data, and nodes at  *)
(* distance one and two to each side.  What the nodes have: nothing, all,  *)
(* or an upload that was interrupted.                                      *)
(***************************************************************************)
EXTENDS CaOffloading, TLC

MCHave(size) ==
    {{}, Everything(size)} \cup (IF size = 0 THEN {} ELSE {{Data, Chunk(0)}})

Scene(routes, size, left, right, source, times) ==
    [routes |-> routes, size |-> size, source |-> source, asks |-> times, passes |-> FALSE,
     stored |-> [nL |-> left, nR |-> right]]

(* One side has something, near or far; or both have, next to this node.   *)
MCScenes ==
    UNION {{Scene(Sides, n, <<a, b>>, <<{}, {}>>, s, 1)
            : a \in MCHave(n), b \in MCHave(n), s \in {{}, Everything(n)}} : n \in {0, 3}}
    \cup {Scene(r, 3, <<a, {}>>, <<b, {}>>, Everything(3), 1)
          : r \in {{}, {"nR"}}, a \in {{}}, b \in MCHave(3)}
    \cup {Scene(Sides, 3, <<{Data, Chunk(0)}, {}>>, <<{Data, Chunk(0)}, {}>>, {}, 1)}
    \cup {Scene({"nL"}, 2, <<Everything(2), {}>>, <<{}, {}>>, Everything(2), 2),
          [Scene(Sides, 3, <<{}, {}>>, <<{}, {}>>, Everything(3), 1) EXCEPT !.passes = TRUE]}

(* Both neighbours have everything.                                        *)
MCTwice == {Scene(Sides, 2, <<Everything(2), {}>>, <<Everything(2), {}>>, {}, 1)}

(* A third request, while the neighbours have not answered the last one.   *)
MCThrice == {Scene(Sides, 2, <<{Data, Chunk(0)}, {}>>, <<{}, {}>>, Everything(2), 3)}

(* One neighbour has more than the other.                                  *)
MCUneven ==
    {Scene(Sides, 3, <<Everything(3), {}>>, <<{Data, Chunk(0)}, {}>>, {}, 1),
     Scene(Sides, 3, <<{Data, Chunk(0), Chunk(1)}, {}>>, <<{Data, Chunk(0)}, {}>>, {}, 1)}
=============================================================================

----------------------------- MODULE RoutingTree -----------------------------
(***************************************************************************)
(* TreeRoutingInformationBase: the routes a forwarder has been told of, in *)
(* a tree of name components, and the table that the tree is collapsed to  *)
(* for the FIB and for the announcements to the peers.                     *)
(*                                                                         *)
(* A node of the tree is the prefix it stands for.  insert makes the nodes *)
(* on the way to a prefix and ageing deletes the nodes that have become    *)
(* empty, children first, so the tree is determined by the prefixes that   *)
(* have a route.  Time is left out: a round of ageing finds that any of    *)
(* the routes with a timeout have expired.  A route without a timeout is   *)
(* one the forwarder was configured with, at distance 1; a route learned   *)
(* from a peer is farther away.                                            *)
(***************************************************************************)
EXTENDS ICNTables, FiniteSetsExt, Functions

CONSTANTS
    Announced,      \* the prefixes routes may be inserted for
    Distances       \* the distances of routes learned from peers

ASSUME TreeAssumption ==
    /\ << >> \in Prefixes /\ Announced \subseteq Prefixes
    /\ \A d \in Distances : d \in Nat /\ d > 1
    /\ \A p \in Prefixes : \A k \in 0 .. Len(p) : SubSeq(p, 1, k) \in Prefixes

VARIABLE rib    \* _distance_vector of each prefix, in the order of the dict

RibEntry == [fid : Faces, dist : Nat, lasting : BOOLEAN]

-----------------------------------------------------------------------------
(* insert and ageing *)

(* A dict keeps the place of a key whose value is replaced. *)
WithRoute(vector, e) ==
    IF \E k \in DOMAIN vector : vector[k].fid = e.fid
    THEN [k \in DOMAIN vector |->
             IF vector[k].fid = e.fid THEN e ELSE vector[k]]
    ELSE Append(vector, e)

Insert(p, fid, dist, lasting) ==
    rib' = [rib EXCEPT ![p] =
               WithRoute(@, [fid |-> fid, dist |-> dist, lasting |-> lasting])]

RoutesWithTimeout ==
    {r \in Prefixes \X Faces : \E e \in Range(rib[r[1]]) : e.fid = r[2] /\ ~e.lasting}

RibAgeing(expired) ==
    rib' = [p \in Prefixes |->
               KeptOf(rib[p], {k \in DOMAIN rib[p] : <<p, rib[p][k].fid>> \notin expired})]

-----------------------------------------------------------------------------
(* collapse *)

Registered == {p \in Prefixes : rib[p] # << >>}

(* min keeps the first of several routes with the least distance. *)
Best(vector) ==
    LET least == Min({e.dist : e \in Range(vector)})
    IN  vector[Min({k \in DOMAIN vector : vector[k].dist = least})]

Nodes == {q \in Prefixes : q = << >> \/ \E p \in Registered : Covers(q, p)}
Children(q) == {c \in Nodes : Len(c) = Len(q) + 1 /\ Covers(q, c)}

Line(p, e) == [name |-> p, fid |-> e.fid, dist |-> e.dist]

Own(q) == IF rib[q] = << >> THEN {} ELSE {Line(q, Best(rib[q]))}

(* Mutant of Merged: the farthest line stands for the others.              *)
MergedFarthest(q, lines) ==
    IF Cardinality({l.fid : l \in lines}) = 1
    THEN LET far == CHOOSE l \in lines : \A m \in lines : l.dist >= m.dist
         IN  {[far EXCEPT !.name = q]}
    ELSE lines

(* Lines that all lead to one face become one line under the prefix of     *)
(* the node, with the least distance.                                      *)
Merged(q, lines) ==
    IF Cardinality({l.fid : l \in lines}) = 1 /\ Cardinality(lines) > 1
    THEN LET near == CHOOSE l \in lines : \A m \in lines : l.dist <= m.dist
         IN  {[near EXCEPT !.name = q]}
    ELSE lines

Collapse ==
    LET table[q \in Nodes] ==
            Merged(q, Own(q) \cup UNION {table[c] : c \in Children(q)})
    IN  table[<< >>]

-----------------------------------------------------------------------------
(* Properties *)

(* The line of a table, or the registered prefix, that covers a name best. *)
LongestLine(table, n) ==
    LET covering == {l \in table : Covers(l.name, n)}
    IN  CHOOSE l \in covering : \A m \in covering : Len(m.name) <= Len(l.name)

Chosen(n) ==
    LET covering == {p \in Registered : Covers(p, n)}
    IN  CHOOSE p \in covering : \A q \in covering : Len(q) <= Len(p)

(* Whatever is merged, the table leads every registered prefix to the best *)
(* face of its own distance vector.                                        *)
RegisteredAlike ==
    \A p \in Registered :
        /\ \E l \in Collapse : Covers(l.name, p)
        /\ LongestLine(Collapse, p).fid = Best(rib[p]).fid

(* A line announces the distance of the nearest prefix it stands for:      *)
(* never less than any of them has, and never the distance of another.     *)
DistanceHonest ==
    \A l \in Collapse :
        LET served == {p \in Registered : LongestLine(Collapse, p) = l}
        IN  served # {} /\ l.dist = Min({Best(rib[p]).dist : p \in served})

(* A name that the routes in the tree cover is led to the same face by the *)
(* table: a merged line does not take names from a shorter prefix that     *)
(* leads elsewhere.                                                        *)
CoveredAlike ==
    \A n \in Names :
        (\E p \in Registered : Covers(p, n)) =>
            LongestLine(Collapse, n).fid = Best(rib[Chosen(n)]).fid
=============================================================================

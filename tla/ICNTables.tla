------------------------------ MODULE ICNTables ------------------------------
(***************************************************************************)
(* The tables of the ICN layer as pure data: the forwarding information    *)
(* base (FIB) with longest-prefix matching, the entries of the pending     *)
(* interest table (PIT), and the content store (CS) of one name.           *)
(*                                                                         *)
(* A name is a sequence of components.  A FIB is a sequence of             *)
(* entries, newest first, because the code inserts at the head and scans   *)
(* from the head.  The faces of a FIB entry and the (face, local) pairs of *)
(* a PIT entry are sets: the code never keeps a duplicate of either, and   *)
(* their order only orders the copies of one packet on the output queue.   *)
(***************************************************************************)
EXTENDS Integers, Sequences, FiniteSets

CONSTANTS
    Components, \* the components names are made of
    Names,      \* the names interests ask for
    Prefixes,   \* the names FIB entries are registered under
    Faces,      \* face ids of the link layer
    AppIds,     \* ids the higher layer tags its packets with
    Data,       \* payloads of content objects
    None        \* what a lookup returns when it finds nothing

ASSUME NamesAssumption ==
    \A n \in Names \cup Prefixes : n \in Seq(Components)

ASSUME FacesAssumption == IsFiniteSet(Faces)

Ids == Faces \cup AppIds

(* A requester of a PIT entry: an id, and whether it is a local app.       *)
Requester == (Faces \X {FALSE}) \cup (AppIds \X {TRUE})

-----------------------------------------------------------------------------
(* Forwarding information base *)

Route == [name : Prefixes, faceid : SUBSET Faces]
FibEntry == [name : Prefixes, faceid : SUBSET Faces, static : BOOLEAN]

Covers(prefix, n) ==
    /\ Len(prefix) <= Len(n)
    /\ \A i \in 1 .. Len(prefix) : prefix[i] = n[i]

(* ForwardingInformationBaseEntry.__eq__ looks at name and faces only. *)
RouteOf(e) == [name |-> e.name, faceid |-> e.faceid]

(* The lookup drops one component at a time and ends before the empty name *)
(* is tried: an entry under the empty name is never found.                 *)
Usable(fib, n, used, incoming) ==
    {k \in DOMAIN fib : /\ Covers(fib[k].name, n) /\ fib[k].name # << >>
                        /\ RouteOf(fib[k]) \notin used
                        /\ fib[k].faceid \ incoming # {}}

(* The longest prefix wins, and among equal prefixes the newest entry.     *)
(* The route returned is a fresh entry without the incoming faces, so it   *)
(* need not be equal to the entry it was made from.                        *)
FindFib(fib, n, used, incoming) ==
    LET usable == Usable(fib, n, used, incoming)
        best == CHOOSE k \in usable : \A j \in usable :
                    \/ Len(fib[j].name) < Len(fib[k].name)
                    \/ Len(fib[j].name) = Len(fib[k].name) /\ k <= j
    IN  IF usable = {} THEN None
        ELSE [name |-> fib[best].name, faceid |-> fib[best].faceid \ incoming]

(* Mutants of AddFib: there is no test; an entry of the same name is       *)
(* enough to ignore the new one.                                           *)
AddFibAlways(fib, prefix, faceid, static) ==
    <<[name |-> prefix, faceid |-> faceid, static |-> static]>> \o fib
AddFibByName(fib, prefix, faceid, static) ==
    IF \E k \in DOMAIN fib : fib[k].name = prefix THEN fib
    ELSE <<[name |-> prefix, faceid |-> faceid, static |-> static]>> \o fib

(* add_fib_entry: an entry that is static and one that is not are equal.   *)
AddFib(fib, prefix, faceid, static) ==
    LET e == [name |-> prefix, faceid |-> faceid, static |-> static]
    IN  IF \E k \in DOMAIN fib : RouteOf(fib[k]) = RouteOf(e)
        THEN fib
        ELSE <<e>> \o fib

(* The elements of a sequence at the positions kept, in their order.       *)
KeptOf(s, kept) ==
    LET upto[k \in 0 .. Len(s)] ==
            IF k = 0 THEN << >>
            ELSE IF k \in kept THEN Append(upto[k - 1], s[k]) ELSE upto[k - 1]
    IN  upto[Len(s)]

(* Mutant of ClearFib: static entries are not spared. *)
ClearFibAll(fib) ==
    LET gone[k \in DOMAIN fib] == k = 1 \/ ~gone[k - 1]
    IN  KeptOf(fib, {k \in DOMAIN fib : \A j \in DOMAIN fib : fib[j] = fib[k] => ~gone[j]})

(* clear removes entries from the list it iterates over: the entry after a *)
(* removed one moves into its place, and is not looked at.                 *)
ClearFib(fib) ==
    LET gone[k \in DOMAIN fib] == ~fib[k].static /\ (k = 1 \/ ~gone[k - 1])
    IN  KeptOf(fib, {k \in DOMAIN fib : \A j \in DOMAIN fib : fib[j] = fib[k] => ~gone[j]})

-----------------------------------------------------------------------------
(* Pending interest table *)

PitEntry == [faces       : SUBSET Requester,  \* faceids zipped with local_app
             nacked      : SUBSET Ids,        \* faces_already_nacked
             used        : SUBSET Route,      \* fib_entries_already_used
             forwards    : Nat,               \* number_of_forwards
             retransmits : Nat]

NewEntry(id, local) ==
    [faces |-> {<<id, local>>}, nacked |-> {}, used |-> {},
     forwards |-> 0, retransmits |-> 0]

FaceIds(e) == {r[1] : r \in e.faces}
LocalFlags(e) == {r[2] : r \in e.faces}
LocalApps(e) == {r \in e.faces : r[2]}
NetworkFaces(e) == {r[1] : r \in e.faces \ LocalApps(e)}

(* Mutant of AddRequester: either match is enough to ignore the request.   *)
AddRequesterEither(e, id, local) ==
    IF e = None THEN NewEntry(id, local)
    ELSE IF id \in FaceIds(e) \/ local \in LocalFlags(e) THEN e
    ELSE [e EXCEPT !.faces = @ \cup {<<id, local>>}]

(* add_pit_entry: the two membership tests are made independently, on the  *)
(* list of face ids and on the list of local flags.                        *)
AddRequester(e, id, local) ==
    IF e = None THEN NewEntry(id, local)
    ELSE IF id \in FaceIds(e) /\ local \in LocalFlags(e) THEN e
    ELSE [e EXCEPT !.faces = @ \cup {<<id, local>>}]

(* The new entry update_timestamp builds keeps everything but the count of *)
(* retransmits (and the timestamp).                                        *)
Refreshed(e) == [e EXCEPT !.retransmits = 0]

(* Mutant of Older: the count of retransmits is not written back.          *)
OlderNever(e) == e

(* An ageing round counts a retransmit for an entry it keeps. *)
Older(e) == [e EXCEPT !.retransmits = @ + 1]

(* Faces of a route an interest is still worth sending to. *)
Unnacked(e, route) == route.faceid \ e.nacked

(* Mutants of CountForwards: faces that have refused are counted too; the  *)
(* route is counted instead of its faces.                                  *)
CountForwardsAll(e, route) ==
    [e EXCEPT !.forwards = @ + Cardinality(route.faceid)]
CountForwardsOnce(e, route) == [e EXCEPT !.forwards = @ + 1]

(* increase_number_of_forwards, once for each face the interest goes to. *)
CountForwards(e, route) ==
    [e EXCEPT !.forwards = @ + Cardinality(Unnacked(e, route))]

-----------------------------------------------------------------------------
(* Content store: the objects cached under one name, oldest first *)

CsItem == [data : Data, static : BOOLEAN]

Found(items) == IF items = << >> THEN None ELSE items[1]

Cached(items, d) == \E i \in DOMAIN items : items[i].data = d

AddContent(items, d, static) ==
    IF Cached(items, d) THEN items
    ELSE Append(items, [data |-> d, static |-> static])

(* update_timestamp moves the entry that was found to the end of the list. *)
Touched(items) == Append(Tail(items), items[1])

(* One sweep in which the first k objects are past their timeout: every    *)
(* expired object that is not static has the first object of its name      *)
(* removed, whichever that is.                                             *)
Expired(items, k) == {i \in 1 .. k : ~items[i].static}
Swept(items, k) ==
    SubSeq(items, Cardinality(Expired(items, k)) + 1, Len(items))
=============================================================================

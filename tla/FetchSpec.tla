------------------------------- MODULE FetchSpec -------------------------------
(***************************************************************************)
(* What a chunk layer promises the layer above: it is handed the whole     *)
(* content, in one version, of names it has asked for and has not been     *)
(* answered on, or a request is refused.                                   *)
(***************************************************************************)
EXTENDS Naturals, Bags

CONSTANTS
    None,       \* no name
    Names,      \* the names of content
    Versions,   \* the versions a content may have
    Chunks(_, _)    \* the chunks that make up a version of a content

VARIABLES
    pending,    \* names asked for
    content     \* the last content handed up, a bag of chunks, and its name

Ask(d) == pending' = pending \cup {d} /\ UNCHANGED content

Deliver(d) ==
    /\ d \in pending /\ pending' = pending \ {d}
    /\ \E v \in Versions : content' = [name |-> d, chunks |-> SetToBag(Chunks(d, v))]

Refuse(d) == pending' = pending \ {d} /\ UNCHANGED content

Init == pending = {} /\ content = [name |-> None, chunks |-> EmptyBag]
Next == \E d \in Names : Ask(d) \/ Deliver(d) \/ Refuse(d)
Spec == Init /\ [][Next]_<<pending, content>>
===============================================================================

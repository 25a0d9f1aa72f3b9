------------------------------- MODULE FaceMap -------------------------------
(***************************************************************************)
(* What a face table promises: it binds addresses to face ids, oldest      *)
(* binding first.  An address is bound once, under an id never used        *)
(* before, and a binding is only given up, the oldest first, when the      *)
(* table is full.                                                          *)
(***************************************************************************)
EXTENDS Integers, Sequences

CONSTANTS Addresses, MaxEntries

VARIABLES
    table, \* the bindings <<face id, address>>
    last   \* the largest face id used so far, -1 at first

Bound(a) == \E i \in DOMAIN table : table[i][2] = a

Init == table = << >> /\ last = -1

Bind(a) ==
    /\ ~Bound(a) /\ Len(table) < MaxEntries
    /\ last' = last + 1
    /\ table' = Append(table, <<last', a>>)

Evict ==
    /\ Len(table) = MaxEntries
    /\ table' = Tail(table)
    /\ UNCHANGED last

Next ==
    \/ Evict
    \/ \E a \in Addresses : Bind(a)

Spec == Init /\ [][Next]_<<table, last>>
=============================================================================

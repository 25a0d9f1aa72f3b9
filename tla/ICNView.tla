-------------------------------- MODULE ICNView --------------------------------
(***************************************************************************)
(* The ICN layer of an NFN node as the layers above see it: the content    *)
(* store, and the PIT with the names the consumers wait for and the names  *)
(* the layers above wait for themselves.  (ICNLayer has the handlers with  *)
(* their routes and retransmissions.)  It takes packets of the layers      *)
(* above as soon as they are put; its own wait in the inbox.               *)
(***************************************************************************)
EXTENDS NFNExpressions

VARIABLES
    cs,         \* the names of data in the content store
    waiting,    \* the names consumers wait for
    local,      \* the names the layers above wait for
    inbox       \* packets for the layers above, oldest first

icn == <<cs, waiting, local, inbox>>

Packet(type, name, value) == [type |-> type, name |-> name, value |-> value]
Interest(name) == Packet("interest", name, << >>)
Content(name, value) == Packet("content", name, value)
Nack(name) == Packet("nack", name, << >>)

(* What the content of a name has to be: data stands for itself, and a     *)
(* result is written as the expression it is the value of.                 *)
Value(name) == IF IsNFN(name) THEN network_name_to_nfn_str(name)
               ELSE <<Token("NAME", name.at)>>

(* A packet of the layers above.  An answer for a name that they have      *)
(* asked for themselves goes back to them; a Nack goes to nobody else.     *)
Taken(s, p) ==
    LET n == p.name IN
    CASE p.type = "interest" ->
           IF ~IsNFN(n) /\ n.at \in cs
           THEN [s EXCEPT !.inbox = Append(@, Content(n, Value(n)))]
           ELSE [s EXCEPT !.local = @ \cup {n}]
      [] p.type # "interest" /\ n \in s.local ->
           [inbox |-> Append(s.inbox, p), local |-> s.local \ {n},
            waiting |-> IF p.type = "content" THEN s.waiting \ {n} ELSE s.waiting]
      [] OTHER -> [s EXCEPT !.waiting = @ \ {n}]

(* The layers above put packets, and remove PIT entries, whoever waits for *)
(* them; rest is what they leave in the inbox.                             *)
ToICN(packets, removes, rest) ==
    LET end == FoldLeft(Taken, [inbox |-> rest, local |-> local \ removes,
                                waiting |-> waiting \ removes], packets)
    IN  /\ inbox' = end.inbox /\ local' = end.local /\ waiting' = end.waiting
        /\ UNCHANGED cs

(* What the store has, for some time, of content: data, not results.       *)
Stored(n) == IF IsNFN(n) THEN {} ELSE {n.at}

(* An interest of a consumer for what is not in the store; the PIT         *)
(* aggregates it if the name is there.                                     *)
FromConsumer(n) ==
    /\ Stored(n) \cap cs = {}
    /\ waiting' = waiting \cup {n}
    /\ inbox' = IF n \in waiting \cup local THEN inbox ELSE Append(inbox, Interest(n))
    /\ UNCHANGED <<cs, local>>

(* Content from the network answers everybody; a Nack goes to the layers   *)
(* above first.                                                            *)
NetContent(n, value) ==
    /\ n \in local /\ local' = local \ {n} /\ waiting' = waiting \ {n}
    /\ inbox' = Append(inbox, Content(n, value)) /\ cs' \in {cs, cs \cup Stored(n)}
NetNack(n) ==
    /\ n \in local /\ local' = local \ {n}
    /\ inbox' = Append(inbox, Nack(n)) /\ UNCHANGED <<cs, waiting>>

(* An object of the content store expires.                                 *)
Expire(d) == d \in cs /\ cs' = cs \ {d} /\ UNCHANGED <<waiting, local, inbox>>
===============================================================================

----------------------------- MODULE RoutingLayer -----------------------------
(***************************************************************************)
(* BasicRoutingLayer: a forwarder learns routes from its peers, and every  *)
(* few seconds a timer thread ages the routing tree and rebuilds the FIB   *)
(* from it.  Tree and FIB live in a manager process: every call of theirs  *)
(* is a step of its own, and the content handler and the management        *)
(* interface call them in between.                                         *)
(***************************************************************************)
EXTENDS RoutingTree

CONSTANT Rules  \* the forwarding rules the management interface may add

ASSUME RulesAssumption == Rules \subseteq Route

VARIABLES
    fib,    \* the forwarding information base
    timer,  \* where the timer thread is
    todo,   \* the lines of the collapsed tree it has still to add
    built,  \* history: the tree that the FIB was last rebuilt from
    rules   \* history: the rules the management interface has confirmed

vars == <<rib, fib, timer, todo, built, rules>>

-----------------------------------------------------------------------------
(* The content handler: one line of an announcement, at a distance that is *)
(* one more than announced, and the management interface.                  *)

Learn(p, fid, dist) ==
    /\ Insert(p, fid, dist, FALSE)
    /\ UNCHANGED <<fib, timer, todo, built, rules>>

NewForwardingRule(rule) ==
    /\ fib' = AddFib(fib, rule.name, rule.faceid, TRUE)
    /\ rules' = rules \cup {rule}
    /\ UNCHANGED <<rib, timer, todo, built>>

-----------------------------------------------------------------------------
(* The timer thread *)

AgeTree ==
    /\ timer = "waiting" /\ timer' = "aged"
    /\ \E expired \in SUBSET RoutesWithTimeout : RibAgeing(expired)
    /\ UNCHANGED <<fib, todo, built, rules>>

ClearTable ==
    /\ timer = "aged" /\ timer' = "cleared"
    /\ fib' = ClearFib(fib)
    /\ UNCHANGED <<rib, todo, built, rules>>

BuildFib ==
    /\ timer = "cleared" /\ timer' = "filling"
    /\ todo' = Collapse
    /\ built' = rib
    /\ UNCHANGED <<rib, fib, rules>>

(* The order of the children in the tree is left open. *)
AddLine(l) ==
    /\ timer = "filling" /\ l \in todo
    /\ fib' = AddFib(fib, l.name, {l.fid}, FALSE)
    /\ todo' = todo \ {l}
    /\ UNCHANGED <<rib, timer, built, rules>>

Rearm ==
    /\ timer = "filling" /\ todo = {}
    /\ timer' = "waiting"
    /\ UNCHANGED <<rib, fib, todo, built, rules>>

-----------------------------------------------------------------------------
Init ==
    /\ \E p \in Announced, f \in Faces :
          LET e == [fid |-> f, dist |-> 1, lasting |-> TRUE]
          IN  rib \in {[q \in Prefixes |-> << >>],
                       [q \in Prefixes |-> IF q = p THEN <<e>> ELSE << >>]}
    /\ fib = << >> /\ timer = "waiting" /\ todo = {}
    /\ built = [p \in Prefixes |-> << >>] /\ rules = {}

Next ==
    \/ \E p \in Announced, f \in Faces, d \in Distances : Learn(p, f, d)
    \/ \E rule \in Rules : NewForwardingRule(rule)
    \/ AgeTree \/ ClearTable \/ BuildFib \/ Rearm
    \/ \E l \in todo : AddLine(l)

Spec == Init /\ [][Next]_vars

-----------------------------------------------------------------------------
(* Properties *)

Filled == timer = "filling" /\ todo = {}

(* No two entries of the FIB are equal: otherwise clear, which removes an  *)
(* entry by equality, could remove another one than it looks at.           *)
NoTwins ==
    \A j, k \in DOMAIN fib : RouteOf(fib[j]) = RouteOf(fib[k]) => j = k

(* A rebuild never touches a static entry, although it removes entries     *)
(* from a list while it iterates over it.                                  *)
StaticStay ==
    [][\A e \in Range(fib) : e.static => e \in Range(fib')]_vars

(* When the table has been filled, the FIB has an entry that covers each   *)
(* prefix of the tree and leads to the best face of that prefix.           *)
RoutesOffered ==
    Filled => \A p \in Prefixes : built[p] # << >> =>
        \E e \in Range(fib) : /\ Covers(e.name, p)
                              /\ e.faceid = {Best(built[p]).fid}

(* The lookup finds a route for each prefix of the tree: where the tree    *)
(* has routes, interests are forwarded.                                    *)
RoutesFound ==
    Filled => \A p \in Prefixes :
        built[p] # << >> => FindFib(fib, p, {}, {}) # None

(* "Remove all non-static entries from the FIB" *)
Cleared == timer = "cleared" => \A e \in Range(fib) : e.static

(* A rule the management interface has confirmed is in the FIB whenever no *)
(* rebuild is under way.                                                   *)
RulesStay ==
    timer = "waiting" =>
        \A rule \in rules : \E e \in Range(fib) : RouteOf(e) = rule
===============================================================================

----------------------------- MODULE PushRepository -----------------------------
(***************************************************************************)
(* ICNPushRepository: a repository that clients write to, with interests   *)
(* that are publish expressions, and read from.  What is published is in a *)
(* persistent content store, which a manager process keeps; the program is *)
(* stopped by its management, at any point between two steps of its layer, *)
(* and started again.                                                      *)
(***************************************************************************)
EXTENDS Management

CONSTANTS
    Packets,        \* what arrives: kind "publish", "fetch" or "other"; name;
                    \* payload, "base64" or "raw"
    MaxArrivals, MaxStarts  \* bounds

ASSUME PushRepositoryAssumption ==
    /\ Packets \subseteq [kind : {"publish", "fetch", "other"}, name : Names,
                           payload : {"base64", "raw"}, id : {0}]
    /\ MaxArrivals \in Nat /\ MaxStarts \in Nat

VARIABLES
    db,             \* ContentStorePersistentExact: names to what was stored
    from_lower,     \* packets for the repository layer
    handler,        \* the publication it is at, and what it does next
    to_lower,       \* its last answer
    arrivals, starts,
    confirmed       \* history: the last publication confirmed of each name

rvars == <<db, from_lower, handler, to_lower, arrivals, starts, confirmed>>
vars == <<mvars, rvars>>

Idle == [next |-> "take"]

-----------------------------------------------------------------------------
(* The content store *)

Stored(n) == n \in DOMAIN db

(* add_content_object replaces what is stored under the name.              *)
Store(n, content) == db' = [m \in DOMAIN db \cup {n} |-> IF m = n THEN content ELSE db[m]]

-----------------------------------------------------------------------------
(* PushRepositoryLayer.  An arrival has a number of its own.               *)

Runs == "repolayer" \in DOMAIN layers /\ layers["repolayer"] > 0

Arrive(p) ==
    /\ "repolayer" \in DOMAIN layers /\ arrivals < MaxArrivals
    /\ arrivals' = arrivals + 1
    /\ from_lower' = Append(from_lower, [p EXCEPT !.id = arrivals'])
    /\ UNCHANGED <<mvars, db, handler, to_lower, starts, confirmed>>

(* A packet that is neither an expression nor stored is refused, whatever  *)
(* kind of packet it is.                                                   *)
Fetch ==
    LET p == Head(from_lower) IN
    /\ Runs /\ handler = Idle /\ from_lower # <<>> /\ p.kind = "fetch"
    /\ to_lower' = IF Stored(p.name) THEN [answer |-> "content", to |-> p.id, id |-> db[p.name]]
                   ELSE [answer |-> "nack", to |-> p.id]
    /\ from_lower' = Tail(from_lower)
    /\ UNCHANGED <<mvars, db, handler, arrivals, starts, confirmed>>

(* An expression that is no publication is refused.                        *)
Refuse ==
    LET p == Head(from_lower) IN
    /\ Runs /\ handler = Idle /\ from_lower # <<>> /\ p.kind = "other"
    /\ to_lower' = [answer |-> "nack", to |-> p.id] /\ from_lower' = Tail(from_lower)
    /\ UNCHANGED <<mvars, db, handler, arrivals, starts, confirmed>>

(* Mutant of Publish: the publication is confirmed, and then stored.       *)
PublishConfirmed ==
    LET p == Head(from_lower) IN
    /\ Runs /\ handler = Idle /\ from_lower # <<>> /\ p.kind = "publish"
    /\ to_lower' = [answer |-> "ok", to |-> p.id]
    /\ confirmed' = [confirmed EXCEPT ![p.name] = p.id]
    /\ handler' = [next |-> "store", packet |-> p] /\ from_lower' = Tail(from_lower)
    /\ UNCHANGED <<mvars, db, arrivals, starts>>

(* A payload that cannot be decoded is refused, but the handler goes on.   *)
Publish ==
    LET p == Head(from_lower) IN
    /\ Runs /\ handler = Idle /\ from_lower # <<>> /\ p.kind = "publish"
    /\ to_lower' = IF p.payload = "raw" THEN [answer |-> "nack", to |-> p.id] ELSE to_lower
    /\ handler' = [next |-> "store", packet |-> p] /\ from_lower' = Tail(from_lower)
    /\ UNCHANGED <<mvars, db, arrivals, starts, confirmed>>

StorePublished ==
    /\ Runs /\ handler.next = "store" /\ Store(handler.packet.name, handler.packet.id)
    /\ handler' = [handler EXCEPT !.next = "confirm"]
    /\ UNCHANGED <<mvars, from_lower, to_lower, arrivals, starts, confirmed>>

Confirm ==
    LET p == handler.packet IN
    /\ Runs /\ handler.next = "confirm" /\ handler' = Idle
    /\ to_lower' = [answer |-> "ok", to |-> p.id]
    /\ confirmed' = [confirmed EXCEPT ![p.name] = p.id]
    /\ UNCHANGED <<mvars, db, from_lower, arrivals, starts>>

Layer == Fetch \/ Refuse \/ Publish \/ StorePublished \/ Confirm

-----------------------------------------------------------------------------
(* The main process waits for the link layer's, and ends.  Started again,  *)
(* the program opens the same database; connections that were not accepted *)
(* are reset, and what was in a queue is gone.                             *)
Restart(flush_database) ==
    /\ "repolayer" \in DOMAIN layers /\ starts < MaxStarts /\ starts' = starts + 1
    /\ Alive = {} /\ \A l \in DOMAIN layers : layers[l] = 0
    /\ layers' = Started(program) /\ mgmt' = OneServer
    /\ client' = [c \in Clients |-> "out"] /\ backlog' = <<>> /\ faces' = <<>>
    /\ replies' = [c \in Clients |-> IF client[c] = "out" THEN replies[c]
                                     ELSE Append(replies[c], [ok |-> FALSE])]
    /\ db' = (IF flush_database THEN <<>> ELSE db)
    /\ confirmed' = (IF flush_database THEN [n \in Names |-> 0] ELSE confirmed)
    /\ from_lower' = <<>> /\ handler' = Idle
    /\ UNCHANGED <<program, script, fib, cs, to_lower, arrivals>>

-----------------------------------------------------------------------------
Init ==
    /\ MInit /\ db = <<>> /\ from_lower = <<>> /\ handler = Idle
    /\ to_lower = [answer |-> "none"] /\ arrivals = 0 /\ starts = 1
    /\ confirmed = [n \in Names |-> 0]

Next ==
    \/ MNext /\ UNCHANGED rvars
    \/ \E p \in Packets : Arrive(p)
    \/ Layer \/ \E flush_database \in BOOLEAN : Restart(flush_database)

Spec == Init /\ [][Next]_vars

(* A client sends what it has connected for, and management goes on.       *)
FairSpec ==
    /\ Spec
    /\ \A c \in Clients : WF_vars(Send(c) /\ UNCHANGED rvars)
    /\ \A s \in 1 .. Servers : WF_vars(Serve(s) /\ UNCHANGED rvars)

-----------------------------------------------------------------------------
TypeOK ==
    /\ MTypeOK /\ DOMAIN db \subseteq Names /\ handler.next \in {"take", "store", "confirm"}
    /\ confirmed \in [Names -> 0 .. arrivals] /\ starts \in 1 .. MaxStarts

(* What a publisher has been told is stored is there, or something that    *)
(* was published later, also after the program has been stopped in the     *)
(* middle of another publication and started again                         *)
(* (PushRepositoryLayer.handle_interest_from_lower).                       *)
Durable == \A n \in Names : confirmed[n] > 0 => Stored(n) /\ db[n] >= confirmed[n]

(* One interest, one answer: who is refused does not hear "ok" afterwards. *)
AnsweredOnce ==
    [][to_lower.answer = "nack" /\ to_lower'.answer = "ok" => to_lower.to # to_lower'.to]_vars
=================================================================================

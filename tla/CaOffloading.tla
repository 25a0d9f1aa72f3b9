----------------------------- MODULE CaOffloading -----------------------------
(***************************************************************************)
(* DataOffloadingChunklayer: the node asks the vehicle and its neighbours  *)
(* at once, but it asks for chunks only when both neighbours have said     *)
(* which of them they have (CA messages).  The specification below is that *)
(* of a forwarder with this chunk layer or with that of Offloading.        *)
(*                                                                         *)
(* The answer to a CA message fits a packet.                               *)
(***************************************************************************)
EXTENDS Offloading

VARIABLES
    layer,          \* the chunk layer of the forwarder
    ca_entry,       \* the entry of the data in _ca_table, or None
    recipient_cl,   \* the neighbour metadata came from first, or None
    pass_through    \* a CA message of another node has passed this node

caLayer == <<ca_entry, recipient_cl, pass_through>>
caVars == <<layer, caLayer, vars>>

Available == [kind |-> "a", num |-> 0]  \* the name that ends with CA

-----------------------------------------------------------------------------
(* Other nodes *)

(* get_chunks_available: all, or the chunks received so far of a request   *)
(* that is still open.                                                     *)
Offer(stored) ==
    [complete |-> stored = Everything(scene.size),
     chunks |-> IF stored = Everything(scene.size) THEN {}
                ELSE {k \in 0 .. scene.size - 1 : Chunk(k) \in stored}]

OfferAnswer(i) ==
    LET offer == Offer(StoredAt(i)) IN
    [interest |-> i, offer |-> offer,
     type |-> IF offer.complete \/ offer.chunks # {} THEN "content" ELSE "nack"]

(* Chunks and metadata are taken from _chunk_table only, where short data  *)
(* never is.                                                               *)
NeighbourCaInterest(i) ==
    /\ \/ i.name = Available /\ NeighbourHandles(i, OfferAnswer(i))
       \/ /\ i.name # Available
          /\ NeighbourHandles(i, Answer(i, scene.size > 0 /\ i.name \in StoredAt(i)))
    /\ UNCHANGED <<layer, caLayer>>

(* A node whose own answer this one passes on: from now on this node takes *)
(* itself for one that only forwards.                                      *)
PassOn ==
    /\ layer = "ca" /\ scene.passes /\ ~pass_through /\ pass_through' = TRUE
    /\ UNCHANGED <<layer, ca_entry, recipient_cl, vars>>

-----------------------------------------------------------------------------
(* This node *)

NewCaRequest ==
    [requested_chunks |-> {}, chunks |-> {}, requested_md |-> {},
     chunked |-> FALSE, md_complete |-> FALSE]

NewCaEntry ==
    [answered |-> Sides, received_all |-> FALSE, recipient |-> None, ca |-> None,
     completely_available |-> FALSE, chunks |-> {}]

CaAsk ==
    LET unasked(name) == {s \in scene.routes : Interest(s, name) \notin pit} IN
    /\ asks > 0 /\ asks' = asks - 1
    /\ \/ /\ request_entry = None /\ request_entry' = NewCaRequest
          /\ ca_entry' = [NewCaEntry EXCEPT !.answered = Sides \ unasked(Available)]
          /\ pass_through' = FALSE
          /\ Send({}, {Interest(s, Available) : s \in unasked(Available)}
                      \cup {Interest(s, Data) : s \in unasked(Data)}
                      \cup {Interest("source", Data)})
       \/ /\ request_entry # None /\ Send({}, {Interest("source", Data)})
          /\ UNCHANGED <<request_entry, ca_entry, pass_through>>
    /\ UNCHANGED <<layer, recipient_cl, scene, cl_entry, cl_sent, chunk_table, answers, told>>

Awaits(name) ==
    /\ request_entry # None
    /\ \/ name = Data
       \/ name.kind = "c" /\ name.num \in request_entry.requested_chunks
       \/ name.kind = "m" /\ name.num \in request_entry.requested_md

Chunks(to, nums) == {Interest(to, Chunk(c)) : c \in nums}

(* create_chunk_interests: all of the neighbour that has all, or what no   *)
(* neighbour has of the vehicle.                                           *)
ChunkInterests(entry, ca) ==
    IF ca.completely_available THEN Chunks(ca.recipient, entry.requested_chunks)
    ELSE Chunks("source", entry.requested_chunks \ ca.chunks)

(* handle_ca: all the neighbour offers is requested of it.  The rest is    *)
(* requested of the vehicle, unless metadata is still to come.             *)
OfferTaken(done, ca) ==
    LET all == [ca EXCEPT !.received_all = TRUE, !.completely_available = TRUE]
        part == [ca EXCEPT !.received_all = TRUE, !.chunks = ca.ca.chunks]
        wanted == request_entry.requested_chunks \cup (part.chunks \ request_entry.chunks)
        rest == IF request_entry.requested_md = {} THEN wanted \ part.chunks ELSE {}
    IN  \/ /\ request_entry = None \/ pass_through
           /\ ca_entry' = ca /\ Send(done, {}) /\ UNCHANGED request_entry
        \/ /\ request_entry # None /\ ~pass_through /\ ca.ca.complete /\ ca_entry' = all
           /\ Send(done, IF request_entry.md_complete
                                 THEN ChunkInterests(request_entry, all) ELSE {})
           /\ UNCHANGED request_entry
        \/ /\ request_entry # None /\ ~pass_through /\ ~ca.ca.complete /\ ca_entry' = part
           /\ request_entry' = [request_entry EXCEPT !.requested_chunks = wanted]
           /\ Send(done, Chunks(ca.recipient, part.chunks) \cup Chunks("source", rest))

(* save_if_longest: "complete" is shorter than the name of any chunk.      *)
Length(offer) == IF offer.complete THEN 1 ELSE 1 + Cardinality(offer.chunks)
Longest(old, new) == IF old # None /\ Length(old) >= Length(new) THEN old ELSE new

(* The recipient is the neighbour that has answered last, whosever offer   *)
(* is kept.                                                                *)
OfferArrives(p) ==
    LET side == p.interest.to
        ca == [ca_entry EXCEPT !.recipient = side, !.ca = Longest(@, p.offer),
                               !.answered = @ \cup {side}]
    IN  /\ p.interest.name = Available /\ p.interest.to \in Sides
        /\ \/ ca.answered = Sides /\ OfferTaken({p.interest}, ca)
           \/ /\ ca.answered # Sides /\ ca_entry' = ca
              /\ Send({p.interest}, {}) /\ UNCHANGED request_entry
        /\ UNCHANGED <<recipient_cl, told, chunk_table>>

(* handle_received_meta_data *)
CaMetadataArrives(p) ==
    LET k == p.interest.name.num
        entry == [request_entry EXCEPT !.chunked = TRUE,
                      !.requested_md = (@ \ {k}) \cup NextOf(k),
                      !.requested_chunks = @ \cup (ListedIn(k) \ request_entry.chunks),
                      !.md_complete = NextOf(k) = {}]
        next == {Interest(IF p.interest.to \in Sides THEN recipient_cl' ELSE "source", Metadata(j))
                 : j \in NextOf(k) \ (request_entry.requested_md \ {k})}
        ready == entry.md_complete /\ ca_entry.received_all /\ ~pass_through
    IN  /\ p.interest.name.kind = "m" /\ scene.size > 0
        /\ \/ /\ request_entry.md_complete /\ Send({p.interest}, {})
              /\ request_entry' = [request_entry EXCEPT !.chunked = TRUE]
           \/ /\ ~request_entry.md_complete /\ request_entry' = entry
              /\ Send({p.interest}, next \cup
                      IF ready THEN ChunkInterests(entry, ca_entry) ELSE {})
        /\ chunk_table' = chunk_table \cup {p.interest.name}
        /\ UNCHANGED <<ca_entry, told>>

(* handle_received_chunk_data.  A chunk that arrives before any metadata   *)
(* is taken for content that is not chunked: it is handed up under its own *)
(* name, and the request is over.                                          *)
CaChunkArrives(p) ==
    LET c == p.interest.name.num
        entry == [request_entry EXCEPT !.requested_chunks = @ \ {c}, !.chunks = @ \cup {c}]
        complete == entry.requested_chunks = {} /\ entry.requested_md = {}
    IN  /\ p.interest.name.kind = "c" /\ Send({p.interest}, {})
        /\ \/ /\ ~request_entry.chunked /\ request_entry' = None
              /\ told' = [type |-> "chunk", chunks |-> SetToBag({c})]
              /\ UNCHANGED <<ca_entry, chunk_table>>
           \/ /\ request_entry.chunked /\ chunk_table' = chunk_table \cup {p.interest.name}
              /\ \/ /\ complete /\ request_entry' = None /\ ca_entry' = None
                    /\ told' = Told(SetToBag(entry.chunks))
                 \/ /\ ~complete /\ request_entry' = entry /\ UNCHANGED <<ca_entry, told>>

CaWholeArrives(p) ==
    /\ p.interest.name = Data /\ scene.size = 0 /\ request_entry' = None
    /\ told' = Told(EmptyBag) /\ Send({p.interest}, {}) /\ UNCHANGED <<ca_entry, chunk_table>>

DataArrives(p) ==
    /\ p.interest.name # Available
    /\ recipient_cl' = IF p.interest.to \in Sides /\ p.interest.name = Data
                       THEN p.interest.to ELSE recipient_cl
    /\ \/ /\ Awaits(p.interest.name)
          /\ CaMetadataArrives(p) \/ CaChunkArrives(p) \/ CaWholeArrives(p)
       \/ /\ ~Awaits(p.interest.name) /\ Send({p.interest}, {})
          /\ UNCHANGED <<request_entry, ca_entry, chunk_table, told>>

CaContentArrives(p) ==
    /\ p.type = "content" /\ Arriving(p) /\ (OfferArrives(p) \/ DataArrives(p))
    /\ UNCHANGED <<layer, pass_through, cl_entry>>

(* Mutant of OfferRefused: the first refusal is taken for the last.        *)
OfferRefusedFirst(p) ==
    LET ca == [ca_entry EXCEPT !.answered = @ \cup {p.interest.to}, !.received_all = TRUE]
        ready == request_entry # None /\ request_entry.requested_md = {} /\ ~pass_through
    IN  /\ p.interest.name = Available /\ p.interest.to \in Sides
        /\ \/ ca.ca # None /\ OfferTaken({}, ca)
           \/ /\ ca.ca = None /\ ca_entry' = ca /\ UNCHANGED request_entry
              /\ Send({p.interest}, IF ready THEN ChunkInterests(request_entry, ca) ELSE {})
        /\ UNCHANGED told

(* Mutant of OfferRefused: chunks that metadata has listed before the last *)
(* answer are not asked for.                                               *)
OfferRefusedLate(p) ==
    LET ca == [ca_entry EXCEPT !.answered = @ \cup {p.interest.to}]
        last == ca.answered = Sides
    IN  /\ p.interest.name = Available /\ p.interest.to \in Sides
        /\ \/ last /\ ca.ca # None /\ OfferTaken({}, ca)
           \/ /\ ~last \/ ca.ca = None
              /\ ca_entry' = [ca EXCEPT !.received_all = last] /\ UNCHANGED request_entry
              /\ Send({p.interest}, {})
        /\ UNCHANGED told

(* The last neighbour has answered, and has nothing.  If the other one had *)
(* something, the refused name stays in the PIT.                           *)
OfferRefused(p) ==
    LET ca == [ca_entry EXCEPT !.answered = @ \cup {p.interest.to}]
        ready == request_entry # None /\ request_entry.requested_md = {} /\ ~pass_through
    IN  /\ p.interest.name = Available /\ p.interest.to \in Sides
        /\ \/ /\ ca.answered # Sides /\ ca_entry' = ca
              /\ Send({p.interest}, {}) /\ UNCHANGED request_entry
           \/ ca.answered = Sides /\ ca.ca # None /\ OfferTaken({}, ca)
           \/ /\ ca.answered = Sides /\ ca.ca = None
              /\ ca_entry' = [ca EXCEPT !.received_all = TRUE] /\ UNCHANGED request_entry
              /\ Send({p.interest}, IF ready THEN ChunkInterests(request_entry, ca) ELSE {})
        /\ UNCHANGED told

(* Nothing is done when a neighbour refuses data; the refusal of a chunk   *)
(* by the vehicle is passed on as one of the data, and the request stays.  *)
DataRefused(p) ==
    /\ p.interest.name # Available
    /\ told' = IF p.interest.to = "source" /\ p.interest.name.kind = "c"
               THEN [told EXCEPT !.type = "nack"] ELSE told
    /\ Send({p.interest}, {}) /\ UNCHANGED <<request_entry, ca_entry>>

CaNackArrives(p) ==
    /\ p.type = "nack" /\ Arriving(p) /\ (OfferRefused(p) \/ DataRefused(p))
    /\ UNCHANGED <<layer, recipient_cl, pass_through, cl_entry, chunk_table>>

-----------------------------------------------------------------------------
CaInit ==
    /\ Init /\ layer \in {"simple", "ca"}
    /\ ca_entry = None /\ recipient_cl = None /\ pass_through = FALSE

CaNetwork ==
    \/ \E i \in interests :
          NeighbourCaInterest(i) \/ (SourceInterest(i) /\ UNCHANGED <<layer, caLayer>>)
    \/ \E p \in answers :
          \/ CaContentArrives(p) \/ CaNackArrives(p)
          \/ (NeighbourAnswer(p) \/ Unexpected(p)) /\ UNCHANGED <<layer, caLayer>>

CaNext ==
    \/ layer = "simple" /\ Next /\ UNCHANGED <<layer, caLayer>>
    \/ layer = "ca" /\ (CaAsk \/ CaNetwork)
    \/ PassOn

CaSpec == CaInit /\ [][CaNext]_caVars

(* Packets are delivered, and the nodes handle them.                       *)
Delivery ==
    \/ layer = "simple" /\ Network /\ UNCHANGED <<layer, caLayer>>
    \/ layer = "ca" /\ CaNetwork

CaFairSpec == CaSpec /\ WF_caVars(Delivery)

-----------------------------------------------------------------------------
(* How the tables of the layer with CA messages belong together.           *)
CaTypeOK ==
    layer = "ca" /\ request_entry # None =>
        /\ ca_entry # None /\ ca_entry.answered \subseteq Sides
        /\ ca_entry.completely_available => ca_entry.received_all /\ ca_entry.recipient \in Sides
        /\ request_entry.requested_chunks \cap request_entry.chunks = {}
        /\ {Chunk(c) : c \in request_entry.chunks} \subseteq chunk_table

(* Neighbours first: for a single request, the layer of Offloading asks    *)
(* the vehicle for nothing before both neighbours have refused, and the    *)
(* layer with CA messages asks it for no chunk before both have answered.  *)
VehicleLast ==
    scene.asks = 1 /\ request_entry # None =>
        /\ layer = "simple" /\ (\E i \in pit : i.to = "source") => cl_entry.nack = Sides
        /\ layer = "ca" /\ (\E i \in pit : i.to = "source" /\ i.name.kind = "c") =>
              ca_entry.answered = Sides

(* A single request is answered with the content if the vehicle still has  *)
(* it and at most one neighbour has anything of it, all or nothing.  The   *)
(* layer with CA messages needs a neighbour to ask, and must not be passed *)
(* by those of others.                                                     *)
Fetched ==
    (/\ request_entry # None /\ Undisputed
     /\ layer = "ca" => scene.routes # {} /\ ~scene.passes) ~> told.type = "content"

(* "Only create interests if [...] the packet is CA content or there is no *)
(* CA content available" (comment in handle_received_meta_data): the same  *)
(* for a node without neighbours to ask.                                   *)
FetchedAlone ==
    (request_entry # None /\ Undisputed /\ ~scene.passes) ~> told.type = "content"

(* A request is over only when the layer above has its content: no part is *)
(* taken for the whole.                                                    *)
EndsAnswered == told.type # "chunk"

(* The offer that is kept is that of the neighbour the chunks are asked of *)
(* (recipient), and no neighbour "has more" (docstring of save_if_longest).*)
BestOffer ==
    layer = "ca" /\ ca_entry # None /\ ca_entry.ca # None /\ ca_entry.answered = Sides =>
        LET offers(s) == {Offer(scene.stored[s][d]) : d \in 1 .. num_of_forwards + 1} IN
        /\ ca_entry.ca \in offers(ca_entry.recipient)
        /\ ca_entry.ca.complete \/
              \A o \in offers("nL") \cup offers("nR") :
                 ~o.complete /\ Cardinality(o.chunks) <= Cardinality(ca_entry.ca.chunks)
===============================================================================

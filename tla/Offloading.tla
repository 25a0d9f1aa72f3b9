------------------------------ MODULE Offloading ------------------------------
(***************************************************************************)
(* DataOffloadingChunklayerSimple: a node that wants the data of a vehicle *)
(* asks its two neighbours first, who pass the interest on along the road, *)
(* and the vehicle itself only when both have refused.                     *)
(*                                                                         *)
(* One data name.  An answer passes the ICN layer and reaches this layer   *)
(* in one step; it is dropped if its interest is not pending any more.     *)
(***************************************************************************)
EXTENDS Integers, Sequences, FiniteSets, Bags, FiniteSetsExt

CONSTANTS
    None,
    PerMetadata,    \* names in a metadata packet
    num_of_forwards,
    Scenes          \* routes: the neighbours there are; size: number of
                    \* chunks, 0 if not chunked; stored: what the nodes to
                    \* each side have, by distance; source: what the vehicle
                    \* has; asks: how often the layer above asks

Sides == {"nL", "nR"}
Metadata(k) == [kind |-> "m", num |-> k]    \* the first has the data's name
Chunk(k) == [kind |-> "c", num |-> k]
Data == Metadata(0)

Everything(size) ==
    {Chunk(k) : k \in 0 .. size - 1} \cup {Metadata(k) : k \in {0} \cup
        {j \in 1 .. size : j * PerMetadata < size}}

ASSUME OffloadingAssumption ==
    /\ PerMetadata \in Nat \ {0} /\ num_of_forwards \in Nat
    /\ \A s \in Scenes :
          /\ s.routes \subseteq Sides /\ s.size \in Nat /\ s.asks \in Nat
          /\ s.source \subseteq Everything(s.size)
          /\ s.stored \in [Sides -> [1 .. num_of_forwards + 1 -> SUBSET Everything(s.size)]]

VARIABLES
    scene,
    request_entry,  \* the entry of the data in _request_table, or None
    cl_entry,       \* its entry in _cl_table, or None
    cl_sent,
    chunk_table,    \* the names in _chunk_table
    pit,            \* the interests of this node that are pending
    interests, answers,     \* packets on their way
    asks,           \* requests of the layer above that are left
    told            \* what it was told last: nothing, a Nack or these chunks

vars == <<scene, request_entry, cl_entry, cl_sent, chunk_table, pit, interests, answers, asks, told>>
network == <<pit, interests, answers>>

(* An interest to a neighbour carries the number of nodes that may still   *)
(* pass it on; one to the vehicle has the plain name.                      *)
Interest(to, name) ==
    [to |-> to, name |-> name, cl |-> IF to = "source" THEN 0 ELSE num_of_forwards]

Answer(i, has) == [interest |-> i, type |-> IF has THEN "content" ELSE "nack"]

(* Interests that are sent while the interests done are answered.          *)
Send(done, new) == pit' = (pit \ done) \cup new /\ interests' = interests \cup new

-----------------------------------------------------------------------------
(* Other nodes *)

StoredAt(i) == scene.stored[i.to][num_of_forwards - i.cl + 1]

(* The node at this distance answers with p, which it has from its tables, *)
(* and if it has nothing passes the interest on.                           *)
NeighbourHandles(i, p) ==
    /\ i.to \in Sides
    /\ \/ /\ p.type = "content" \/ i.cl = 0
          /\ answers' = answers \cup {p} /\ interests' = interests \ {i}
       \/ /\ p.type = "nack" /\ i.cl > 0
          /\ interests' = (interests \ {i}) \cup {[i EXCEPT !.cl = @ - 1]} /\ UNCHANGED answers
    /\ UNCHANGED <<scene, request_entry, cl_entry, cl_sent, chunk_table, pit, asks, told>>

NeighbourAnswer(p) ==
    /\ p.interest.to \in Sides /\ p.interest.cl < num_of_forwards
    /\ answers' = (answers \ {p}) \cup {[p EXCEPT !.interest.cl = @ + 1]}
    /\ UNCHANGED <<scene, request_entry, cl_entry, cl_sent, chunk_table, pit, interests, asks, told>>

NeighbourInterest(i) == NeighbourHandles(i, Answer(i, i.name \in StoredAt(i)))

SourceInterest(i) ==
    /\ i.to = "source" /\ interests' = interests \ {i}
    /\ answers' = answers \cup {Answer(i, i.name \in scene.source)}
    /\ UNCHANGED <<scene, request_entry, cl_entry, cl_sent, chunk_table, pit, asks, told>>

-----------------------------------------------------------------------------
(* This node *)

Told(chunks) == [type |-> "content", chunks |-> chunks]

NewEntry == [requested_chunks |-> EmptyBag, chunks |-> EmptyBag, requested_md |-> {}]

(* None is no entry. *)
ASSUME NoneAssumption == NewEntry # None

(* Once a neighbour has been asked, for whatever, the vehicle is not asked *)
(* first any more, even if there is no neighbour to ask now.               *)
Ask ==
    LET asked == {s \in scene.routes : Interest(s, Data) \notin pit} IN
    /\ asks > 0 /\ asks' = asks - 1
    /\ \/ /\ request_entry = None /\ request_entry' = NewEntry
          /\ cl_entry' = [nack |-> Sides \ asked, interest |-> Data,
                          interest_requested |-> FALSE, recipient |-> None]
          /\ cl_sent' = (cl_sent \/ asked # {})
          /\ Send({}, IF cl_sent' THEN {Interest(s, Data) : s \in asked}
                      ELSE {Interest("source", Data)})
       \/ /\ request_entry # None /\ Send({}, {Interest("source", Data)})
          /\ UNCHANGED <<request_entry, cl_entry, cl_sent>>
    /\ UNCHANGED <<scene, chunk_table, answers, told>>

Requests(name) ==
    /\ request_entry # None
    /\ \/ name = Data
       \/ name.kind = "c" /\ BagIn(name.num, request_entry.requested_chunks)
       \/ name.kind = "m" /\ name.num \in request_entry.requested_md

ListedIn(k) == {c \in k * PerMetadata .. (k + 1) * PerMetadata - 1 : c < scene.size}
NextOf(k) == IF (k + 1) * PerMetadata < scene.size THEN {k + 1} ELSE {}

(* What follows on a packet with this name is asked of the neighbour it    *)
(* came from, or of the vehicle.                                           *)
Origin(p, name) == Interest(p.interest.to, name)

(* handle_received_meta_data.  Chunks that are requested already are       *)
(* requested once more.  When both neighbours have refused, metadata of a  *)
(* neighbour is not followed: the loop is left after its first chunk.      *)
MetadataArrives(p) ==
    LET k == p.interest.name.num
        fromCl == p.interest.to \in Sides
        blocked == fromCl /\ cl_entry.nack = Sides
        left == {c \in ListedIn(k) : ~BagIn(c, request_entry.chunks)}
        wanted == IF blocked /\ left # {} THEN {Min(left)} ELSE left
    IN  /\ p.interest.name.kind = "m" /\ scene.size > 0
        /\ request_entry' = [request_entry EXCEPT
               !.requested_md = (@ \ {k}) \cup NextOf(k),
               !.requested_chunks = @ (+) SetToBag(wanted)]
        /\ Send({p.interest}, IF blocked THEN {}
                ELSE {Origin(p, Chunk(c)) : c \in wanted}
                     \cup {Origin(p, Metadata(j)) : j \in NextOf(k)})
        /\ cl_entry' = IF fromCl
                      THEN [cl_entry EXCEPT !.recipient = p.interest.to,
                            !.interest = IF blocked \/ NextOf(k) = {} THEN @ ELSE p.interest.name]
                      ELSE cl_entry
        /\ UNCHANGED told

SetRecipient(p) ==
    cl_entry' = IF p.interest.to \in Sides
                THEN [cl_entry EXCEPT !.recipient = p.interest.to] ELSE cl_entry

(* Mutant of ChunkArrives: metadata that is still to come is forgotten.    *)
ChunkArrivesLast(p) ==
    LET c == SetToBag({p.interest.name.num})
        left == request_entry.requested_chunks (-) c
        had == request_entry.chunks (+) c
    IN  /\ p.interest.name.kind = "c" /\ SetRecipient(p)
        /\ \/ left = EmptyBag /\ request_entry' = None /\ told' = Told(had)
           \/ /\ left # EmptyBag /\ UNCHANGED told
              /\ request_entry' = [request_entry EXCEPT !.requested_chunks = left, !.chunks = had]
        /\ Send({p.interest}, {})

(* handle_received_chunk_data *)
ChunkArrives(p) ==
    LET c == SetToBag({p.interest.name.num})
        left == request_entry.requested_chunks (-) c
        had == request_entry.chunks (+) c
        complete == left = EmptyBag /\ request_entry.requested_md = {}
    IN  /\ p.interest.name.kind = "c" /\ SetRecipient(p)
        /\ \/ complete /\ request_entry' = None /\ told' = Told(had)
           \/ /\ ~complete /\ UNCHANGED told
              /\ request_entry' = [request_entry EXCEPT !.requested_chunks = left, !.chunks = had]
        /\ Send({p.interest}, {})

WholeArrives(p) ==
    /\ p.interest.name = Data /\ scene.size = 0 /\ SetRecipient(p)
    /\ request_entry' = None /\ told' = Told(EmptyBag) /\ Send({p.interest}, {})

Arriving(p) ==
    /\ p.interest \in pit /\ p.interest.cl = IF p.interest.to \in Sides THEN num_of_forwards ELSE 0
    /\ answers' = answers \ {p}
    /\ UNCHANGED <<scene, cl_sent, asks>>

(* Once the vehicle has been asked for what is missing, what neighbours    *)
(* send is not considered any more.                                        *)
Considered(p) ==
    Requests(p.interest.name) /\ ~(p.interest.to \in Sides /\ cl_entry.interest_requested)

ContentArrives(p) ==
    /\ p.type = "content" /\ Arriving(p)
    /\ \/ /\ Considered(p) /\ (MetadataArrives(p) \/ ChunkArrives(p) \/ WholeArrives(p))
          /\ chunk_table' = IF scene.size = 0 THEN chunk_table
                            ELSE chunk_table \cup {p.interest.name}
       \/ /\ ~Considered(p) /\ Send({p.interest}, {})
          /\ UNCHANGED <<request_entry, cl_entry, chunk_table, told>>

(* get_missing_data_from_original_source *)
Missing ==
    {Chunk(c) : c \in BagToSet(request_entry.requested_chunks)} \cup
    IF request_entry.requested_md # {} THEN {Metadata(k) : k \in request_entry.requested_md}
    ELSE {cl_entry.interest}

NeighbourRefuses(p) ==
    LET nack == cl_entry.nack \cup {p.interest.to}
        last == nack = Sides /\ ~cl_entry.interest_requested
    IN  /\ p.interest.to \in Sides
        /\ \/ /\ Requests(p.interest.name)
              /\ cl_entry' = [cl_entry EXCEPT !.nack = nack, !.interest_requested = @ \/ last]
              /\ Send({p.interest}, IF last THEN {Interest("source", n) : n \in Missing} ELSE {})
           \/ /\ ~Requests(p.interest.name) /\ UNCHANGED cl_entry /\ Send({p.interest}, {})
        /\ UNCHANGED told

(* The refusal of a chunk or of metadata is passed on as one of the data,  *)
(* and the request stays; that of the data itself is not passed on.        *)
SourceRefuses(p) ==
    /\ p.interest.to = "source"
    /\ told' = IF p.interest.name = Data THEN told ELSE [told EXCEPT !.type = "nack"]
    /\ Send({p.interest}, {}) /\ UNCHANGED cl_entry

NackArrives(p) ==
    /\ p.type = "nack" /\ Arriving(p)
    /\ NeighbourRefuses(p) \/ SourceRefuses(p)
    /\ UNCHANGED <<request_entry, chunk_table>>

(* The ICN layer drops what it has no entry for.                           *)
Unexpected(p) ==
    /\ p.interest \notin pit /\ p.interest.cl = IF p.interest.to \in Sides THEN num_of_forwards ELSE 0
    /\ answers' = answers \ {p}
    /\ UNCHANGED <<scene, request_entry, cl_entry, cl_sent, chunk_table, pit, interests, asks, told>>

-----------------------------------------------------------------------------
Init ==
    /\ scene \in Scenes /\ asks = scene.asks
    /\ request_entry = None /\ cl_entry = None /\ cl_sent = FALSE
    /\ chunk_table = {} /\ pit = {} /\ interests = {} /\ answers = {}
    /\ told = [type |-> "nothing", chunks |-> EmptyBag]

Network ==
    \/ \E i \in interests : NeighbourInterest(i) \/ SourceInterest(i)
    \/ \E p \in answers : NeighbourAnswer(p) \/ ContentArrives(p) \/ NackArrives(p) \/ Unexpected(p)

Next == Ask \/ Network

Spec == Init /\ [][Next]_vars

-----------------------------------------------------------------------------
(* The types, and how the tables belong together: what has been received   *)
(* of a request is there for others, and only what is chunked is awaited.  *)
TypeOK ==
    /\ request_entry # None => cl_entry # None
    /\ request_entry # None =>
        /\ {Chunk(c) : c \in BagToSet(request_entry.chunks)} \subseteq chunk_table
        /\ BagToSet(request_entry.requested_chunks) \subseteq 0 .. scene.size - 1
        /\ request_entry.requested_md \subseteq 1 .. scene.size
    /\ cl_entry # None => cl_entry.nack \subseteq Sides /\ cl_entry.recipient \in Sides \cup {None}
    /\ chunk_table \subseteq Everything(scene.size)

(* Content is handed up complete, whoever sent its parts in whatever order *)
(* and whoever refused some of them: no chunk is missing.                  *)
NothingMissing ==
    told.type = "content" => \A c \in 0 .. scene.size - 1 : BagIn(c, told.chunks)

(* The vehicle is the last resort: as long as a neighbour may still send   *)
(* something, nothing is asked of the vehicle (for a single request).      *)
LastResort ==
    scene.asks = 1 /\ (\E i \in pit : i.to = "source") /\ request_entry # None =>
        cl_entry.nack = Sides

(* All chunks from the metadata file are requested "if not already         *)
(* received or requested" (comment in handle_received_meta_data).          *)
RequestedOnce ==
    request_entry # None =>
        \A c \in BagToSet(request_entry.requested_chunks) :
            request_entry.requested_chunks[c] = 1

(* A single request for what the vehicle still has, and at most one        *)
(* neighbour has anything of, all or nothing.                              *)
Undisputed ==
    /\ scene.asks = 1 /\ scene.source = Everything(scene.size)
    /\ \E s \in Sides :
          \A d \in 1 .. num_of_forwards + 1 :
              scene.stored[s][d] = {} /\ \A t \in Sides : scene.stored[t][d] \in {{}, scene.source}
===============================================================================

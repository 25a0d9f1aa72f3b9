----------------------------- MODULE ChunkTransfer -----------------------------
(***************************************************************************)
(* The Fetch program and a data repository: content is split into chunks   *)
(* by the chunk layer of the repository and put together by that of the    *)
(* program, whose timeout prevention layer repeats unanswered interests    *)
(* and in the end gives up.  The network loses and reorders packets, and   *)
(* may answer the repetitions of some names more than once.                *)
(*                                                                         *)
(* Content is the bag of its chunks: they are sorted by number before they *)
(* are put together, so the order in which they arrive does not matter.    *)
(***************************************************************************)
EXTENDS Integers, Sequences, FiniteSets, Bags, SequencesExt

CONSTANTS
    None,           \* no name and no entry
    Names,          \* the names consumers may ask for
    Versions,       \* the versions of the contents, numbers
    NumChunks,      \* the number of chunks of a version of a content; 0 if it
                    \* is shorter than a chunk, and is sent as it is
    PerMetadata,    \* _num_of_names_in_metadata
    Stored,         \* the names the repository has content of
    Repeated(_),    \* names whose interests may be answered more than once
    Wanted,         \* how often the program may fetch each name, in one behaviour
    MaxLost, MaxRepeats, MaxUpdates     \* bounds on what the environment does

ASSUME ChunkAssumption ==
    /\ NumChunks \in [Names -> [Versions -> Nat]] /\ PerMetadata \in Nat \ {0}
    /\ Stored \subseteq Names /\ 1 \in Versions /\ Wanted \subseteq [Names -> Nat]
    /\ MaxLost \in Nat /\ MaxRepeats \in Nat /\ MaxUpdates \in Nat

VARIABLES
    fetching,       \* the name fetch_data waits for, or None
    results,        \* packets for the program, oldest first
    request_table,  \* request table of the program's chunk layer: names to entries
    asked,          \* names the timeout prevention layer repeats
    interests, answers,     \* packets on their way
    chunk_table,    \* chunk table of the repository: names to packets
    to_repo, from_repo,     \* packets between its layers, oldest first
    storage,        \* the version of what it stores
    asks, lost, repeats, updates, \* counters for the bounds
    content         \* the last content handed to the program

program == <<fetching, results, request_table, asked>>
network == <<interests, answers>>
repository == <<chunk_table, to_repo, from_repo, storage>>
counters == <<asks, lost, repeats, updates>>
vars == <<program, network, repository, counters, content>>

-----------------------------------------------------------------------------
(* Names: that of a content, which is also that of its first metadata      *)
(* packet; those of the other metadata packets and of the chunks.          *)

Whole(d) == [of |-> d, kind |-> "w", num |-> 0]
Metadata(d, k) == IF k = 0 THEN Whole(d) ELSE [of |-> d, kind |-> "m", num |-> k]
Chunk(d, k) == [of |-> d, kind |-> "c", num |-> k]

Packet(name, type, body) == [name |-> name, type |-> type, body |-> body]
Nack(n) == Packet(n, "nack", EmptyBag)

(* The chunks of a version; 0 stands for content that is not chunked.      *)
ChunksOf(d, v) == {<<v, k>> : k \in 0 .. (IF NumChunks[d][v] = 0 THEN 0 ELSE NumChunks[d][v] - 1)}

-----------------------------------------------------------------------------
(* SimpleContentChunkifyer *)

generate_meta_data(d, n, i) ==
    LET end == IF (i + 1) * PerMetadata < n THEN (i + 1) * PerMetadata ELSE n
    IN  Packet(Metadata(d, i), "metadata",
               [chunks |-> i * PerMetadata .. end - 1, next |-> IF end < n THEN i + 1 ELSE 0])

(* Mutant of chunk_data: the rest after the last full chunk is left out.   *)
chunk_data_full(d, v) ==
    LET n == NumChunks[d][v]
    IN  {generate_meta_data(d, n, i) : i \in {k \in 0 .. n - 1 : k * PerMetadata < n}}
        \cup {Packet(Chunk(d, k), "chunk", SetToBag({<<v, k>>})) : k \in 0 .. n - 2}

chunk_data(d, v) ==
    LET n == NumChunks[d][v]
    IN  {generate_meta_data(d, n, i) : i \in {k \in 0 .. n - 1 : k * PerMetadata < n}}
        \cup {Packet(Chunk(d, k), "chunk", SetToBag({<<v, k>>})) : k \in 0 .. n - 1}

-----------------------------------------------------------------------------
(* The program *)

NewEntry == [requested_chunks |-> EmptyBag, chunks |-> EmptyBag,
             requested_md |-> EmptyBag, chunked |-> FALSE]

(* get_request_table_entry finds the entry of that name.                   *)
Requests(n) ==
    /\ n.of \in DOMAIN request_table
    /\ \/ n.kind = "w"
       \/ n.kind = "c" /\ BagIn(n.num, request_table[n.of].requested_chunks)
       \/ n.kind = "m" /\ BagIn(n.num, request_table[n.of].requested_md)

(* The table with an entry put in or put back, and without one.            *)
With(d, e) ==
    [c \in DOMAIN request_table \cup {d} |-> IF c = d THEN e ELSE request_table[c]]
Dropped(d) == [c \in DOMAIN request_table \ {d} |-> request_table[c]]

(* fetch_data, with the interest on its way through the layers below.      *)
Fetch(d) ==
    /\ fetching = None /\ asks[d] > 0
    /\ fetching' = d /\ asks' = [asks EXCEPT ![d] = @ - 1]
    /\ request_table' = IF Requests(Whole(d)) THEN request_table ELSE With(d, NewEntry)
    /\ asked' = asked \cup {Whole(d)} /\ interests' = interests \cup {Whole(d)}
    /\ UNCHANGED <<results, answers, repository, lost, repeats, updates, content>>

Take ==
    /\ fetching # None /\ results # << >>
    /\ fetching' = None /\ results' = Tail(results)
    /\ UNCHANGED <<request_table, asked, network, repository, counters, content>>

ToHigher(p) == results' = Append(results, p)

(* Content that is not chunked.                                            *)
WholeArrives(p) ==
    LET d == p.name.of IN
    /\ p.type = "content" /\ Requests(p.name) /\ ~request_table[d].chunked
    /\ request_table' = Dropped(d) /\ ToHigher(p)
    /\ content' = [name |-> d, chunks |-> p.body]
    /\ UNCHANGED interests /\ asked' = asked \ {p.name}

(* Mutant of MetadataArrives: the next metadata packet is not waited for. *)
MetadataArrivesAlone(p) ==
    /\ p.type = "metadata" /\ Requests(p.name)
    /\ LET e == request_table[p.name.of] IN
       request_table' = With(p.name.of,
           [requested_chunks |-> e.requested_chunks (+) SetToBag(p.body.chunks), chunks |-> e.chunks,
            requested_md |-> e.requested_md (-) SetToBag({p.name.num}), chunked |-> TRUE])
    /\ LET wanted == {Chunk(p.name.of, k) : k \in p.body.chunks}
       IN  interests' = interests \cup wanted /\ asked' = (asked \ {p.name}) \cup wanted
    /\ UNCHANGED <<results, content>>

(* handle_received_meta_data.  The test whether the packet is expected     *)
(* compares a truth value with None and never fails.                       *)
MetadataArrives(p) ==
    LET d == p.name.of
        e == request_table[d]
        next == IF p.body.next = 0 THEN {} ELSE {p.body.next}
    IN  /\ p.type = "metadata" /\ Requests(p.name)
        /\ request_table' = With(d,
               [requested_chunks |-> e.requested_chunks (+) SetToBag(p.body.chunks),
                chunks |-> e.chunks, chunked |-> TRUE,
                requested_md |-> (e.requested_md (-) SetToBag({p.name.num})) (+) SetToBag(next)])
        /\ LET wanted == {Chunk(d, k) : k \in p.body.chunks} \cup {Metadata(d, k) : k \in next}
           IN  interests' = interests \cup wanted /\ asked' = (asked \ {p.name}) \cup wanted
        /\ UNCHANGED <<results, content>>

(* handle_received_chunk_data *)
ChunkArrives(p) ==
    LET d == p.name.of
        e == request_table[d]
        had == e.chunks (+) p.body
        left == IF p.type = "chunk" THEN e.requested_chunks (-) SetToBag({p.name.num})
                ELSE e.requested_chunks
    IN  /\ p.type \in {"content", "chunk"} /\ Requests(p.name) /\ e.chunked
        /\ \/ /\ left = EmptyBag /\ e.requested_md = EmptyBag
              /\ request_table' = Dropped(d)
              /\ ToHigher(Packet(Whole(d), "content", had))
              /\ content' = [name |-> d, chunks |-> had]
           \/ /\ left # EmptyBag \/ e.requested_md # EmptyBag
              /\ request_table' = With(d, [requested_chunks |-> left, chunks |-> had,
                                           requested_md |-> e.requested_md, chunked |-> TRUE])
              /\ UNCHANGED <<results, content>>
        /\ UNCHANGED interests /\ asked' = asked \ {p.name}

Unexpected(p) ==
    /\ p.type # "nack" /\ ~Requests(p.name)
    /\ asked' = asked \ {p.name} /\ UNCHANGED <<results, request_table, interests, content>>

(* Mutant of NackArrives: the Nack of a chunk does not take the request.   *)
NackArrivesKept(p) ==
    /\ p.type = "nack"
    /\ request_table' = IF p.name.kind = "w" THEN Dropped(p.name.of) ELSE request_table
    /\ ToHigher(p) /\ asked' = asked \ {p.name} /\ UNCHANGED <<interests, content>>

(* Mutant of NackArrives: only a Nack of the whole content goes up.        *)
NackArrivesSilently(p) ==
    /\ p.type = "nack"
    /\ request_table' = IF Requests(p.name) THEN Dropped(p.name.of) ELSE request_table
    /\ results' = IF p.name.kind = "w" THEN Append(results, p) ELSE results
    /\ asked' = asked \ {p.name} /\ UNCHANGED <<interests, content>>

(* A Nack takes the whole request with it, and goes up as it is.           *)
NackArrives(p) ==
    /\ p.type = "nack"
    /\ request_table' = IF Requests(p.name) THEN Dropped(p.name.of) ELSE request_table
    /\ ToHigher(p) /\ asked' = asked \ {p.name} /\ UNCHANGED <<interests, content>>

FromNetwork(p) ==
    \/ WholeArrives(p) \/ MetadataArrives(p) \/ ChunkArrives(p)
    \/ Unexpected(p) \/ NackArrives(p)

Receive(p) ==
    /\ answers' = answers \ {p} /\ FromNetwork(p)
    /\ UNCHANGED <<fetching, repository, counters>>

Travelling(n) ==
    \/ n \in interests \cup {p.name : p \in answers} \/ n \in ToSet(to_repo)
    \/ \E p \in ToSet(from_repo) : p.name = n

(* The timeout prevention layer repeats an interest, or gives it up.       *)
Repeat(n) ==
    /\ n \in asked /\ (Repeated(n) \/ ~Travelling(n))
    /\ repeats < MaxRepeats /\ repeats' = repeats + 1
    /\ interests' = interests \cup {n}
    /\ UNCHANGED <<program, answers, repository, asks, lost, updates, content>>

GiveUp(n) ==
    /\ n \in asked /\ NackArrives(Nack(n))
    /\ UNCHANGED <<fetching, answers, repository, counters>>

-----------------------------------------------------------------------------
(* The repository *)

(* An interest at its chunk layer.                                         *)
InterestArrives(n) ==
    /\ interests' = interests \ {n}
    /\ \/ /\ n \in DOMAIN chunk_table
          /\ answers' = answers \cup {chunk_table[n]} /\ UNCHANGED to_repo
       \/ /\ n \notin DOMAIN chunk_table
          /\ to_repo' = Append(to_repo, n) /\ UNCHANGED answers
    /\ UNCHANGED <<program, chunk_table, from_repo, storage, counters, content>>

(* The repository: what is stored has the name of a whole content.         *)
is_content_available(n) == n.kind = "w" /\ n.of \in DOMAIN storage
get_content(n) == Packet(n, "content", storage[n.of])

(* BasicRepositoryLayer *)
Repository ==
    LET n == Head(to_repo) IN
    /\ to_repo # << >> /\ to_repo' = Tail(to_repo)
    /\ from_repo' = Append(from_repo,
           IF is_content_available(n) THEN get_content(n) ELSE Nack(n))
    /\ UNCHANGED <<program, network, chunk_table, storage, counters, content>>

Split(d, v) ==
    [n \in {p.name : p \in chunk_data(d, v)} |-> CHOOSE p \in chunk_data(d, v) : p.name = n]

(* What is in the chunk table already stays as it is.                      *)
Extended(d, v) ==
    LET cut == Split(d, v)
    IN  [n \in DOMAIN chunk_table \cup DOMAIN cut |->
            IF n \in DOMAIN chunk_table THEN chunk_table[n] ELSE cut[n]]

(* What the repository layer hands down: content is split if it is long.   *)
FromRepository ==
    LET p == Head(from_repo)
        d == p.name.of
    IN  /\ from_repo # << >> /\ from_repo' = Tail(from_repo)
        /\ \/ /\ p.type = "nack" /\ answers' = answers \cup {p} /\ UNCHANGED chunk_table
           \/ /\ p.type = "content" /\ NumChunks[d][p.body] = 0
              /\ answers' = answers \cup {[p EXCEPT !.body = SetToBag({<<p.body, 0>>})]}
              /\ UNCHANGED chunk_table
           \/ /\ p.type = "content" /\ NumChunks[d][p.body] > 0
              /\ answers' = answers \cup {generate_meta_data(d, NumChunks[d][p.body], 0)}
              /\ chunk_table' = Extended(d, p.body)
        /\ UNCHANGED <<program, interests, to_repo, storage, counters, content>>

Update(d, v) ==
    /\ updates < MaxUpdates /\ updates' = updates + 1
    /\ storage[d] # v /\ storage' = [storage EXCEPT ![d] = v]
    /\ UNCHANGED <<program, network, chunk_table, to_repo, from_repo, asks, lost, repeats, content>>

Lose ==
    /\ lost < MaxLost /\ lost' = lost + 1
    /\ \/ \E n \in interests : interests' = interests \ {n} /\ UNCHANGED answers
       \/ \E p \in answers : answers' = answers \ {p} /\ UNCHANGED interests
    /\ UNCHANGED <<program, repository, asks, repeats, updates, content>>

-----------------------------------------------------------------------------

Init ==
    /\ fetching = None /\ results = << >> /\ request_table = << >>
    /\ asked = {} /\ interests = {} /\ answers = {}
    /\ chunk_table = << >> /\ to_repo = << >> /\ from_repo = << >>
    /\ storage = [d \in Stored |-> 1]
    /\ asks \in Wanted /\ lost = 0 /\ repeats = 0 /\ updates = 0
    /\ content = [name |-> None, chunks |-> EmptyBag]

AllNames == asked \cup interests \cup {p.name : p \in answers}

Next ==
    \/ \E d \in Names : Fetch(d)
    \/ Take \/ Repository \/ FromRepository \/ Lose
    \/ \E p \in answers : Receive(p)
    \/ \E n \in asked : Repeat(n) \/ GiveUp(n)
    \/ \E n \in interests : InterestArrives(n)
    \/ \E d \in Stored, v \in Versions : Update(d, v)

Spec == Init /\ [][Next]_vars

(* The program goes on, and the timer of its timeout prevention layer.     *)
(* Nothing is assumed of the network and of the repository.                *)
Fairness == WF_vars(Take) /\ WF_vars(\E n \in asked : GiveUp(n))
FairSpec == Spec /\ Fairness

-----------------------------------------------------------------------------
(* Properties *)

TypeOK ==
    /\ fetching \in Names \cup {None} /\ DOMAIN storage = Stored
    /\ \A d \in DOMAIN request_table :
          LET e == request_table[d] IN
          /\ IsABag(e.requested_chunks) /\ IsABag(e.chunks) /\ IsABag(e.requested_md)
          /\ ~e.chunked => e = NewEntry

(* The layer above is handed whole contents only, each in one version, and *)
(* only what it has asked for and has not been answered on.                *)
F == INSTANCE FetchSpec WITH
        pending <- DOMAIN request_table, Chunks <- ChunksOf
IsFetch == F!Spec

(* Nothing is awaited in vain: every name an entry waits for is repeated   *)
(* until it is answered or given up.                                       *)
AwaitedIsAsked ==
    \A d \in DOMAIN request_table :
        LET e == request_table[d] IN
        /\ ~e.chunked => Whole(d) \in asked
        /\ e.chunked => /\ e.requested_chunks # EmptyBag \/ e.requested_md # EmptyBag
                        /\ \A k \in BagToSet(e.requested_chunks) : Chunk(d, k) \in asked
                        /\ \A k \in BagToSet(e.requested_md) : Metadata(d, k) \in asked

(* Whatever the metadata in the chunk table of the repository lists is in  *)
(* the table as well, so that no chunk is ever asked of the repository.    *)
ListedIsThere ==
    \A n \in DOMAIN chunk_table : chunk_table[n].type = "metadata" =>
        LET p == chunk_table[n] IN
        /\ \A k \in p.body.chunks : Chunk(n.of, k) \in DOMAIN chunk_table
        /\ p.body.next # 0 => Metadata(n.of, p.body.next) \in DOMAIN chunk_table

(* The program is answered on what it asked for, and not on what it asked  *)
(* for before.                                                             *)
FetchedIsAsked == fetching # None /\ results # << >> => Head(results).name.of = fetching

(* fetch_data returns in the end, whatever the network does.               *)
Answered == fetching # None ~> fetching = None
===============================================================================

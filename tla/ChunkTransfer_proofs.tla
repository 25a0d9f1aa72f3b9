-------------------------- MODULE ChunkTransfer_proofs --------------------------
(***************************************************************************)
(* Proofs about the transfer of chunks: the program's chunk layer is one   *)
(* of FetchSpec, and all it waits for is asked for, for any names,         *)
(* versions and numbers of chunks, and however much is lost or reordered.  *)
(***************************************************************************)
EXTENDS ChunkTransfer, SequenceTheorems, TLAPS

-----------------------------------------------------------------------------
(* What is assumed *)

(* Metadata is not answered twice: between a program and a repository there*)
(* is a forwarder, whose PIT lets one answer through.                      *)
WholeAnsweredOnce == \A d \in Names : ~Repeated(Whole(d))

(* A name is not fetched again: packets of the first fetch may be on their *)
(* way.                                                                    *)
FetchedOnce == \A w \in Wanted : \A d \in Names : w[d] <= 1

-----------------------------------------------------------------------------
(* Packets *)

PacketNames ==
    {n \in [of : Names, kind : {"w", "m", "c"}, num : Nat] : n.kind = "w" => n.num = 0}

(* What a repository answers, and an answer that is not chunked.           *)
FromRepo ==
    {Nack(n) : n \in PacketNames}
        \cup {Packet(Whole(d), "content", v) : d \in Names, v \in Versions}

Short(p) ==
    \E d \in Names, v \in Versions :
        NumChunks[d][v] = 0 /\ p = Packet(Whole(d), "content", SetToBag({<<v, 0>>}))

(* The packets of a version of a content, and who they are of.             *)
Piece(p, d) == p.name.of = d /\ p.type \in {"metadata", "chunk"}

Types ==
    /\ asked \subseteq PacketNames /\ interests \subseteq PacketNames
    /\ to_repo \in Seq(PacketNames) /\ from_repo \in Seq(FromRepo)
    /\ DOMAIN request_table \subseteq Names /\ DOMAIN chunk_table \subseteq PacketNames
    /\ DOMAIN storage = Stored /\ \A d \in Stored : storage[d] \in Versions
    /\ asks \in [Names -> Nat]
    /\ \A p \in answers :
          /\ p.name \in PacketNames
          /\ p.type = "nack" \/ Short(p) \/ p.type \in {"metadata", "chunk"}
    /\ \A d \in DOMAIN request_table : ~request_table[d].chunked => request_table[d] = NewEntry

-----------------------------------------------------------------------------
(* The interest in a whole content, or what it becomes, is in one place.   *)

InAnswers(n) == \E p \in answers : p.name = n
ToRepository(n) == \E k \in DOMAIN to_repo : to_repo[k] = n
FromRepositorys(n) == \E k \in DOMAIN from_repo : from_repo[k].name = n

InOnePlace(n) ==
    /\ n \in interests => ~InAnswers(n) /\ ~ToRepository(n) /\ ~FromRepositorys(n)
    /\ InAnswers(n) => ~ToRepository(n) /\ ~FromRepositorys(n)
    /\ ToRepository(n) => ~FromRepositorys(n)
    /\ \A p, q \in answers : p.name = n /\ q.name = n => p = q
    /\ \A j, k \in DOMAIN to_repo : to_repo[j] = n /\ to_repo[k] = n => j = k
    /\ \A j, k \in DOMAIN from_repo : from_repo[j].name = n /\ from_repo[k].name = n => j = k

Quiet(n) ==
    n \notin interests \cup asked /\ ~InAnswers(n) /\ ~ToRepository(n) /\ ~FromRepositorys(n)

(* Before it is fetched there is nothing of a content on its way; once its *)
(* metadata has come, nothing more of this name.                           *)
Once ==
    \A d \in Names :
        /\ InOnePlace(Whole(d)) /\ asks[d] \in {0, 1}
        /\ asks[d] = 1 => Quiet(Whole(d)) /\ d \notin DOMAIN request_table
        /\ d \in DOMAIN request_table /\ request_table[d].chunked => Quiet(Whole(d))

-----------------------------------------------------------------------------
(* All pieces of a content are of one version. *)

(* The chunks the first m metadata packets of n chunks list.               *)
ListedBy(m, n) == 0 .. (IF m * PerMetadata < n THEN m * PerMetadata ELSE n) - 1

(* An entry after m metadata packets, with the chunks in rest to come.     *)
EntryAfter(d, v, e, m, rest) ==
    LET n == NumChunks[d][v] IN
    /\ rest \subseteq ListedBy(m, n) /\ (rest # {} \/ m * PerMetadata < n)
    /\ e = [requested_chunks |-> SetToBag(rest),
            chunks |-> SetToBag({<<v, k>> : k \in ListedBy(m, n) \ rest}),
            requested_md |-> SetToBag(IF m * PerMetadata < n THEN {m} ELSE {}),
            chunked |-> TRUE]

Uncut(d) ==
    /\ \A n \in DOMAIN chunk_table : n.of # d
    /\ \A p \in answers : ~Piece(p, d)
    /\ d \in DOMAIN request_table => ~request_table[d].chunked

Cut(d, v) ==
    /\ NumChunks[d][v] > 0 /\ Whole(d) \in DOMAIN chunk_table
    /\ ~ToRepository(Whole(d)) /\ ~FromRepositorys(Whole(d))
    /\ \A n \in DOMAIN chunk_table :
          n.of = d => chunk_table[n] \in chunk_data(d, v) /\ chunk_table[n].name = n
    /\ \A p \in answers : Piece(p, d) => p \in chunk_data(d, v)
    /\ d \in DOMAIN request_table /\ request_table[d].chunked =>
          \E m \in Nat \ {0} : \E rest \in SUBSET Nat : EntryAfter(d, v, request_table[d], m, rest)

OneVersion == \A d \in Names : Uncut(d) \/ \E v \in Versions : Cut(d, v)

-----------------------------------------------------------------------------
(* Bags that hold everything once *)

LEMMA BagsOfSets ==
    ASSUME NEW A
    PROVE  /\ BagToSet(SetToBag(A)) = A
           /\ \A x : BagIn(x, SetToBag(A)) <=> x \in A
           /\ SetToBag(A) = EmptyBag <=> A = {}
<1>1. DOMAIN SetToBag(A) = A /\ DOMAIN SetToBag({}) = {}
  BY DEF SetToBag
<1> QED  BY <1>1 DEF EmptyBag, BagToSet, BagIn

LEMMA EmptyBagIs == EmptyBag = SetToBag({})
BY DEF EmptyBag

LEMMA BagWithout ==
    ASSUME NEW A, NEW x
    PROVE  SetToBag(A) (-) SetToBag({x}) = SetToBag(A \ {x})
<1> DEFINE B == [e \in DOMAIN SetToBag(A) |-> IF e \in DOMAIN SetToBag({x})
                     THEN SetToBag(A)[e] - SetToBag({x})[e] ELSE SetToBag(A)[e]]
<1>1. DOMAIN B = A /\ \A e \in A : B[e] = IF e = x THEN 0 ELSE 1
  BY DEF SetToBag
<1>2. SetToBag(A) (-) SetToBag({x}) = [e \in {d \in DOMAIN B : B[d] > 0} |-> B[e]]
  BY DEF (-)
<1> HIDE DEF B
<1>3. {d \in DOMAIN B : B[d] > 0} = A \ {x}
  BY <1>1
<1>4. [e \in A \ {x} |-> B[e]] = [e \in A \ {x} |-> 1]
  BY <1>1
<1> QED  BY <1>2, <1>3, <1>4 DEF SetToBag

LEMMA BagWith ==
    ASSUME NEW A, NEW C, A \cap C = {}
    PROVE  SetToBag(A) (+) SetToBag(C) = SetToBag(A \cup C)
<1>1. DOMAIN SetToBag(A) = A /\ DOMAIN SetToBag(C) = C
  BY DEF SetToBag
<1>2. \A e \in A \cup C : (IF e \in DOMAIN SetToBag(A) THEN SetToBag(A)[e] ELSE 0)
                           + (IF e \in DOMAIN SetToBag(C) THEN SetToBag(C)[e] ELSE 0) = 1
  BY DEF SetToBag
<1> QED  BY <1>1, <1>2 DEF (+), SetToBag

-----------------------------------------------------------------------------
(* What a version is split into *)

LEMMA Multiples ==
    ASSUME NEW i \in Nat
    PROVE  /\ PerMetadata \in Nat \ {0} /\ i * PerMetadata \in Nat /\ i <= i * PerMetadata
           /\ (i + 1) * PerMetadata = i * PerMetadata + PerMetadata /\ 0 * PerMetadata = 0
<1>1. PerMetadata \in Nat \ {0}
  BY ChunkAssumption DEF ChunkAssumption
<1>2. /\ i * PerMetadata \in Nat /\ (i + 1) * PerMetadata = i * PerMetadata + PerMetadata
      /\ 0 * PerMetadata = 0
  BY <1>1, Z3
<1>3. i * PerMetadata = i + i * (PerMetadata - 1) /\ i * (PerMetadata - 1) \in Nat
  BY <1>1, Z3
<1> QED  BY <1>1, <1>2, <1>3

LEMMA NamesDiffer ==
    ASSUME NEW d, NEW k \in Nat
    PROVE  /\ Metadata(d, 0) = Whole(d) /\ Whole(d).of = d /\ Whole(d).kind = "w" /\ Whole(d).num = 0
           /\ k # 0 => Metadata(d, k).kind = "m"
           /\ Metadata(d, k).of = d /\ Metadata(d, k).num = k
           /\ Chunk(d, k).of = d /\ Chunk(d, k).kind = "c" /\ Chunk(d, k).num = k
           /\ d \in Names => /\ Metadata(d, k) \in PacketNames /\ Chunk(d, k) \in PacketNames
                             /\ Whole(d) \in PacketNames
BY DEF Metadata, Whole, Chunk, PacketNames

LEMMA MetadataLists ==
    ASSUME NEW d, NEW n \in Nat, NEW i \in Nat, i * PerMetadata < n
    PROVE  LET p == generate_meta_data(d, n, i) IN
           /\ p.name = Metadata(d, i) /\ p.type = "metadata"
           /\ p.body.chunks \cap ListedBy(i, n) = {}
           /\ p.body.chunks \cup ListedBy(i, n) = ListedBy(i + 1, n)
           /\ p.body.chunks # {} /\ p.body.chunks \subseteq Nat
           /\ p.body.next = IF (i + 1) * PerMetadata < n THEN i + 1 ELSE 0
<1> DEFINE from == i * PerMetadata
           to == (i + 1) * PerMetadata
           end == IF to < n THEN to ELSE n
           p == generate_meta_data(d, n, i)
<1>1. from \in Nat /\ to \in Nat /\ from < to
  BY Multiples
<1>2. /\ p.name = Metadata(d, i) /\ p.type = "metadata"
      /\ p.body.chunks = from .. end - 1
      /\ p.body.next = IF end < n THEN i + 1 ELSE 0
  BY DEF generate_meta_data, Packet
<1>3. ListedBy(i, n) = 0 .. from - 1 /\ ListedBy(i + 1, n) = 0 .. end - 1
  BY DEF ListedBy
<1> HIDE DEF from, to, p
<1> QED  BY <1>1, <1>2, <1>3 DEF from, to, p

LEMMA Pieces ==
    ASSUME NEW d \in Names, NEW v \in Versions, NEW p \in chunk_data(d, v)
    PROVE  LET n == NumChunks[d][v] IN
           /\ n \in Nat
           /\ \/ \E i \in 0 .. n - 1 :
                    /\ i * PerMetadata < n /\ p = generate_meta_data(d, n, i)
                    /\ p.type = "metadata" /\ p.name = Metadata(d, i)
              \/ \E k \in 0 .. n - 1 :
                    /\ p.type = "chunk" /\ p.name = Chunk(d, k) /\ p.body = SetToBag({<<v, k>>})
<1> DEFINE n == NumChunks[d][v]
<1>1. n \in Nat
  BY ChunkAssumption DEF ChunkAssumption
<1>2. CASE p \in {generate_meta_data(d, n, i) : i \in {k \in 0 .. n - 1 : k * PerMetadata < n}}
  <2>1. PICK i \in 0 .. n - 1 : i * PerMetadata < n /\ p = generate_meta_data(d, n, i)
    BY <1>2
  <2>2. p.type = "metadata" /\ p.name = Metadata(d, i)
    BY <2>1 DEF generate_meta_data, Packet
  <2> QED  BY <1>1, <2>1, <2>2
<1>3. CASE p \in {Packet(Chunk(d, k), "chunk", SetToBag({<<v, k>>})) : k \in 0 .. n - 1}
  <2>1. PICK k \in 0 .. n - 1 : p = Packet(Chunk(d, k), "chunk", SetToBag({<<v, k>>}))
    BY <1>3
  <2>2. p.type = "chunk" /\ p.name = Chunk(d, k) /\ p.body = SetToBag({<<v, k>>})
    BY <2>1 DEF Packet
  <2> QED  BY <1>1, <2>1, <2>2
<1> QED  BY <1>2, <1>3 DEF chunk_data

(* The table of a version has its pieces under their names, and the first  *)
(* metadata packet under the name of the whole.                            *)
LEMMA SplitHas ==
    ASSUME NEW d \in Names, NEW v \in Versions, NumChunks[d][v] > 0
    PROVE  /\ Whole(d) \in DOMAIN Split(d, v)
           /\ generate_meta_data(d, NumChunks[d][v], 0) \in chunk_data(d, v)
           /\ generate_meta_data(d, NumChunks[d][v], 0).name = Whole(d)
           /\ generate_meta_data(d, NumChunks[d][v], 0).type = "metadata"
           /\ \A n \in DOMAIN Split(d, v) :
                 /\ Split(d, v)[n] \in chunk_data(d, v) /\ Split(d, v)[n].name = n
                 /\ n \in PacketNames /\ n.of = d
<1> DEFINE n == NumChunks[d][v]
           first == generate_meta_data(d, n, 0)
<1>1. n \in Nat /\ 0 \in 0 .. n - 1 /\ 0 * PerMetadata < n
  BY Multiples, ChunkAssumption DEF ChunkAssumption
<1>2. first \in chunk_data(d, v)
  BY <1>1 DEF chunk_data
<1>3. first.name = Whole(d) /\ first.type = "metadata"
  BY DEF generate_meta_data, Packet, Metadata
<1>4. DOMAIN Split(d, v) = {p.name : p \in chunk_data(d, v)}
  BY DEF Split
<1>5. ASSUME NEW m \in DOMAIN Split(d, v)
      PROVE  /\ Split(d, v)[m] \in chunk_data(d, v) /\ Split(d, v)[m].name = m
             /\ m \in PacketNames /\ m.of = d
  <2>1. PICK p \in chunk_data(d, v) : p.name = m
    BY <1>4
  <2>2. Split(d, v)[m] = CHOOSE q \in chunk_data(d, v) : q.name = m
    BY <1>4, <1>5 DEF Split
  <2>3. Split(d, v)[m] \in chunk_data(d, v) /\ Split(d, v)[m].name = m
    BY <2>1, <2>2
  <2>4. m \in PacketNames /\ m.of = d
    <3>1. CASE \E i \in 0 .. n - 1 : p.name = Metadata(d, i)
      BY <1>1, <2>1, <3>1, NamesDiffer
    <3>2. CASE \E k \in 0 .. n - 1 : p.name = Chunk(d, k)
      BY <1>1, <2>1, <3>2, NamesDiffer
    <3> QED  BY <3>1, <3>2, Pieces
  <2> QED  BY <2>3, <2>4
<1> QED  BY <1>2, <1>3, <1>4, <1>5

-----------------------------------------------------------------------------
(* What arrives at the program *)

LEMMA NackOf ==
    ASSUME NEW n
    PROVE  Nack(n).name = n /\ Nack(n).type = "nack"
BY DEF Nack, Packet

LEMMA ShortIs ==
    ASSUME NEW p, Short(p)
    PROVE  /\ p.type = "content" /\ p.name.of \in Names /\ p.name = Whole(p.name.of)
           /\ \E v \in Versions : p.body = SetToBag(ChunksOf(p.name.of, v))
<1>1. PICK d \in Names, v \in Versions :
         NumChunks[d][v] = 0 /\ p = Packet(Whole(d), "content", SetToBag({<<v, 0>>}))
  BY DEF Short
<1>2. p.name = Whole(d) /\ p.type = "content" /\ p.body = SetToBag({<<v, 0>>}) /\ p.name.of = d
  BY <1>1 DEF Packet, Whole
<1>3. ChunksOf(d, v) = {<<v, 0>>}
  <2>1. 0 .. 0 = {0}
    OBVIOUS
  <2> QED  BY <1>1, <2>1 DEF ChunksOf
<1> QED  BY <1>2, <1>3

(* A piece that travels is of the version of its content.                  *)
LEMMA PieceIs ==
    ASSUME Types, OneVersion, NEW p \in answers, p.type \in {"metadata", "chunk"}
    PROVE  /\ p.name \in PacketNames /\ p.name.of \in Names
           /\ \E v \in Versions : Cut(p.name.of, v) /\ p \in chunk_data(p.name.of, v)
<1>1. p.name \in PacketNames /\ p.name.of \in Names
  BY DEF Types, PacketNames
<1>2. Piece(p, p.name.of)
  BY DEF Piece
<1> QED  BY <1>1, <1>2 DEF OneVersion, Uncut, Cut

(* An entry that waits is new, or has had metadata of the version.         *)
LEMMA EntryIs ==
    ASSUME Types, OneVersion, NEW d \in DOMAIN request_table
    PROVE  \/ request_table[d] = NewEntry /\ ~request_table[d].chunked
           \/ /\ request_table[d].chunked
              /\ \E v \in Versions : Cut(d, v)
              /\ \A v \in Versions : Cut(d, v) =>
                    \E m \in Nat \ {0} : \E rest \in SUBSET Nat :
                        EntryAfter(d, v, request_table[d], m, rest)
<1>1. CASE ~request_table[d].chunked
  BY <1>1 DEF Types
<1>2. CASE request_table[d].chunked
  <2>1. d \in Names
    BY DEF Types
  <2>2. \E v \in Versions : Cut(d, v)
    BY <1>2, <2>1 DEF OneVersion, Uncut
  <2>3. ASSUME NEW v \in Versions, Cut(d, v)
        PROVE  \E m \in Nat \ {0} : \E rest \in SUBSET Nat :
                  EntryAfter(d, v, request_table[d], m, rest)
    BY <1>2, <2>3 DEF Cut
  <2> QED  BY <1>2, <2>2, <2>3
<1> QED  BY <1>1, <1>2

(* The first metadata packet of a request, or one more.                    *)
LEMMA MetadataStep ==
    ASSUME Types, Once, OneVersion, AwaitedIsAsked,
           NEW p \in answers, MetadataArrives(p), NEW v \in Versions, Cut(p.name.of, v)
    PROVE  LET d == p.name.of IN
           /\ d \in Names /\ d \in DOMAIN request_table
           /\ DOMAIN request_table' = DOMAIN request_table
           /\ \A c \in DOMAIN request_table \ {d} : request_table'[c] = request_table[c]
           /\ request_table'[d].chunked
           /\ p.name = Whole(d) \/ request_table[d].chunked
           /\ \E m \in Nat \ {0} : \E rest \in SUBSET Nat :
                 EntryAfter(d, v, request_table'[d], m, rest)
           /\ \E wanted \in SUBSET PacketNames :
                 /\ \A w \in wanted : w.kind # "w" /\ w.of = d
                 /\ interests' = interests \cup wanted /\ asked' = (asked \ {p.name}) \cup wanted
           /\ \A k \in BagToSet(request_table'[d].requested_chunks) : Chunk(d, k) \in asked'
           /\ \A k \in BagToSet(request_table'[d].requested_md) : Metadata(d, k) \in asked'
<1> DEFINE d == p.name.of
           e == request_table[d]
           next == IF p.body.next = 0 THEN {} ELSE {p.body.next}
           wanted == {Chunk(d, k) : k \in p.body.chunks} \cup {Metadata(d, k) : k \in next}
           after == [requested_chunks |-> e.requested_chunks (+) SetToBag(p.body.chunks),
                     chunks |-> e.chunks, chunked |-> TRUE,
                     requested_md |-> (e.requested_md (-) SetToBag({p.name.num})) (+) SetToBag(next)]
<1>1. /\ p.type = "metadata" /\ Requests(p.name) /\ d \in DOMAIN request_table
      /\ request_table' = With(d, after)
      /\ interests' = interests \cup wanted /\ asked' = (asked \ {p.name}) \cup wanted
  <2>1. p.type = "metadata" /\ Requests(p.name)
    BY DEF MetadataArrives
  <2>2. d \in DOMAIN request_table
    BY <2>1 DEF Requests
  <2>3. request_table' = With(d, after)
    BY DEF MetadataArrives
  <2>4. interests' = interests \cup wanted /\ asked' = (asked \ {p.name}) \cup wanted
    BY DEF MetadataArrives
  <2> QED  BY <2>1, <2>2, <2>3, <2>4
<1>2. d \in Names
  BY <1>1, PieceIs DEF Types
<1>3. /\ request_table'[d] = after /\ DOMAIN request_table' = DOMAIN request_table
      /\ \A c \in DOMAIN request_table \ {d} : request_table'[c] = request_table[c]
  BY <1>1 DEF With
<1>4. Cut(d, v) /\ p \in chunk_data(d, v)
  BY <1>1 DEF Cut, Piece
<1> DEFINE n == NumChunks[d][v]
<1>5. n \in Nat
  BY <1>2, ChunkAssumption DEF ChunkAssumption
<1>6. PICK i \in 0 .. n - 1 : /\ i * PerMetadata < n /\ p = generate_meta_data(d, n, i)
                              /\ p.name = Metadata(d, i)
  BY <1>1, <1>2, <1>4, Pieces
<1>7. /\ p.body.chunks \cap ListedBy(i, n) = {}
      /\ p.body.chunks \cup ListedBy(i, n) = ListedBy(i + 1, n)
      /\ p.body.chunks # {} /\ p.body.chunks \subseteq Nat
      /\ p.body.next = IF (i + 1) * PerMetadata < n THEN i + 1 ELSE 0
  <2> DEFINE q == generate_meta_data(d, n, i)
             Says(x) ==
                 /\ x.body.chunks \cap ListedBy(i, n) = {}
                 /\ x.body.chunks \cup ListedBy(i, n) = ListedBy(i + 1, n)
                 /\ x.body.chunks # {} /\ x.body.chunks \subseteq Nat
                 /\ x.body.next = IF (i + 1) * PerMetadata < n THEN i + 1 ELSE 0
  <2>1. Says(q)
    <3>1. /\ q.body.chunks \cap ListedBy(i, n) = {}
          /\ q.body.chunks \cup ListedBy(i, n) = ListedBy(i + 1, n)
          /\ q.body.chunks # {} /\ q.body.chunks \subseteq Nat
          /\ q.body.next = IF (i + 1) * PerMetadata < n THEN i + 1 ELSE 0
      <4>1. i \in Nat /\ i * PerMetadata < n
        BY <1>5, <1>6
      <4> HIDE DEF n, d, Says
      <4> QED  BY <1>5, <4>1, MetadataLists
    <3> QED  BY <3>1
  <2>2. p = q
    BY <1>6
  <2>3. Says(p)
    <3> HIDE DEF Says, q
    <3> QED  BY <2>1, <2>2
  <2> QED  BY <2>3
<1>8. p.name.num = i /\ (i = 0 => p.name = Whole(d)) /\ (i # 0 => p.name.kind = "m")
      /\ p.name.kind # "c"
  BY <1>6, NamesDiffer
<1>9. next = IF (i + 1) * PerMetadata < n THEN {i + 1} ELSE {}
  <2>1. CASE (i + 1) * PerMetadata < n
    BY <1>5, <1>6, <1>7, <2>1
  <2>2. CASE ~((i + 1) * PerMetadata < n)
    BY <1>7, <2>2
  <2> QED  BY <2>1, <2>2
<1>10. wanted \subseteq PacketNames /\ \A w \in wanted : w.kind # "w" /\ w.of = d
  <2>1. \A k \in Nat : /\ Chunk(d, k) \in PacketNames /\ Chunk(d, k).kind = "c" /\ Chunk(d, k).of = d
                       /\ k # 0 => /\ Metadata(d, k) \in PacketNames /\ Metadata(d, k).kind = "m"
                                   /\ Metadata(d, k).of = d
    BY <1>2, NamesDiffer
  <2> HIDE DEF d, e, after
  <2> QED  BY <1>7, <1>9, <2>1
<1>11. \E m \in Nat \ {0} : \E rest \in SUBSET Nat :
          /\ EntryAfter(d, v, after, m, rest)
          /\ \A k \in rest : k \in p.body.chunks \/ k \in BagToSet(e.requested_chunks)
          /\ m \in next \/ ~(m * PerMetadata < n)
          /\ p.name = Whole(d) \/ e.chunked
  <2>1. CASE i = 0
    <3>1. e = NewEntry /\ ~e.chunked
      <4>1. InAnswers(Whole(d))
        BY <1>8, <2>1 DEF InAnswers
      <4>2. ~e.chunked
        BY <1>1, <1>2, <4>1 DEF Once, Quiet
      <4> QED  BY <1>1, <1>2, <4>2 DEF Types
    <3>2. ListedBy(0, n) = {}
      <4>1. 0 * PerMetadata = 0
        BY <1>5, Multiples
      <4> QED  BY <1>5, <4>1 DEF ListedBy
    <3> DEFINE rest == p.body.chunks
    <3>3. rest = ListedBy(1, n)
      <4>1. rest \cup ListedBy(0, n) = ListedBy(0 + 1, n)
        BY <1>7, <2>1
      <4>2. 0 + 1 = 1
        OBVIOUS
      <4> HIDE DEF rest
      <4> QED  BY <3>2, <4>1, <4>2
    <3>4. (EmptyBag (-) SetToBag({0})) (+) SetToBag(next) = SetToBag(next)
      <4>1. {} \ {0} = {} /\ {} \cap next = {} /\ {} \cup next = next
        OBVIOUS
      <4>2. EmptyBag (-) SetToBag({0}) = SetToBag({})
        BY <4>1, EmptyBagIs, BagWithout
      <4> QED  BY <4>1, <4>2, BagWith
    <3>5. EmptyBag (+) SetToBag(rest) = SetToBag(rest)
      <4>1. {} \cap rest = {} /\ {} \cup rest = rest
        OBVIOUS
      <4> QED  BY <4>1, EmptyBagIs, BagWith
    <3>6. after = [requested_chunks |-> SetToBag(rest), chunks |-> EmptyBag,
                   requested_md |-> SetToBag(next), chunked |-> TRUE]
      <4>1. /\ e.requested_chunks = EmptyBag /\ e.chunks = EmptyBag
            /\ e.requested_md = EmptyBag /\ p.name.num = 0
        BY <1>8, <2>1, <3>1 DEF NewEntry
      <4> HIDE DEF rest, next, e, d
      <4> QED  BY <3>4, <3>5, <4>1 DEF rest
    <3>7. EmptyBag = SetToBag({<<v, k>> : k \in ListedBy(1, n) \ rest})
      <4>1. {<<v, k>> : k \in ListedBy(1, n) \ rest} = {}
        BY <3>3
      <4> QED  BY <4>1, EmptyBagIs
    <3>8. next = IF 1 * PerMetadata < n THEN {1} ELSE {}
      BY <1>9, <2>1
    <3> HIDE DEF after, rest, next, d, e, n
    <3>9. rest # {}
      BY <1>7 DEF rest
    <3>10. EntryAfter(d, v, after, 1, rest)
      BY <3>3, <3>6, <3>7, <3>8, <3>9 DEF EntryAfter, n
    <3>11. rest \in SUBSET Nat
      BY <1>7 DEF rest
    <3> QED  BY <1>8, <2>1, <3>8, <3>10, <3>11 DEF rest
  <2>2. CASE i # 0
    <3>1. BagIn(i, e.requested_md) /\ e # NewEntry
      <4>1. BagIn(i, e.requested_md)
        BY <1>1, <1>8, <2>2 DEF Requests
      <4>2. ~BagIn(i, EmptyBag)
        BY EmptyBagIs, BagsOfSets
      <4> QED  BY <4>1, <4>2 DEF NewEntry
    <3>2. PICK m \in Nat \ {0} : \E rest \in SUBSET Nat : EntryAfter(d, v, e, m, rest)
      BY <1>1, <1>2, <1>4, <3>1, EntryIs
    <3>3. PICK old \in SUBSET Nat : EntryAfter(d, v, e, m, old)
      BY <3>2
    <3>4. e = [requested_chunks |-> SetToBag(old),
               chunks |-> SetToBag({<<v, k>> : k \in ListedBy(m, n) \ old}),
               requested_md |-> SetToBag(IF m * PerMetadata < n THEN {m} ELSE {}),
               chunked |-> TRUE]
          /\ old \subseteq ListedBy(m, n)
      BY <3>3 DEF EntryAfter
    <3>5. i = m /\ m * PerMetadata < n /\ e.requested_md = SetToBag({m})
      <4>1. e.requested_md = SetToBag(IF m * PerMetadata < n THEN {m} ELSE {})
        BY <3>4
      <4>2. i \in (IF m * PerMetadata < n THEN {m} ELSE {})
        BY <3>1, <4>1, BagsOfSets
      <4> QED  BY <4>1, <4>2
    <3> DEFINE rest == old \cup p.body.chunks
    <3>6. (e.requested_md (-) SetToBag({i})) (+) SetToBag(next) = SetToBag(next)
      <4>1. {m} \ {i} = {} /\ {} \cap next = {} /\ {} \cup next = next
        BY <3>5
      <4>2. SetToBag({m}) (-) SetToBag({i}) = SetToBag({})
        BY <4>1, BagWithout
      <4> QED  BY <3>5, <4>1, <4>2, BagWith
    <3>7. e.requested_chunks (+) SetToBag(p.body.chunks) = SetToBag(rest)
      <4>1. old \cap p.body.chunks = {}
        BY <1>7, <3>4, <3>5
      <4> QED  BY <3>4, <4>1, BagWith
    <3>8. {<<v, k>> : k \in ListedBy(m, n) \ old} = {<<v, k>> : k \in ListedBy(m + 1, n) \ rest}
      <4>1. ListedBy(m, n) \ old = ListedBy(m + 1, n) \ rest
        BY <1>7, <3>4, <3>5
      <4> QED  BY <4>1
    <3>9. after = [requested_chunks |-> SetToBag(rest),
                   chunks |-> SetToBag({<<v, k>> : k \in ListedBy(m + 1, n) \ rest}),
                   requested_md |-> SetToBag(next), chunked |-> TRUE]
      <4>1. e.chunks = SetToBag({<<v, k>> : k \in ListedBy(m, n) \ old})
        BY <3>4
      <4> HIDE DEF rest, next, e, d, n
      <4> QED  BY <1>8, <3>6, <3>7, <3>8, <4>1
    <3>10. next = IF (m + 1) * PerMetadata < n THEN {m + 1} ELSE {}
      BY <1>9, <3>5
    <3>11. rest \subseteq ListedBy(m + 1, n) /\ rest # {} /\ rest \in SUBSET Nat
      BY <1>7, <3>4, <3>5
    <3>12. \A k \in rest : k \in p.body.chunks \/ k \in BagToSet(e.requested_chunks)
      <4>1. BagToSet(e.requested_chunks) = old
        BY <3>4, BagsOfSets
      <4> QED  BY <4>1
    <3>13. e.chunked
      BY <3>4
    <3> HIDE DEF after, rest, next, d, e, n
    <3>14. EntryAfter(d, v, after, m + 1, rest)
      BY <3>9, <3>10, <3>11 DEF EntryAfter, n
    <3>15. m + 1 \in next \/ ~((m + 1) * PerMetadata < n)
      BY <3>10
    <3>16. m + 1 \in Nat \ {0}
      OBVIOUS
    <3> QED  BY <3>11, <3>12, <3>13, <3>14, <3>15, <3>16
  <2> QED  BY <2>1, <2>2
<1>12. PICK m \in Nat \ {0}, rest \in SUBSET Nat :
          /\ EntryAfter(d, v, after, m, rest)
          /\ \A k \in rest : k \in p.body.chunks \/ k \in BagToSet(e.requested_chunks)
          /\ m \in next \/ ~(m * PerMetadata < n)
          /\ p.name = Whole(d) \/ e.chunked
  BY <1>11
<1>13. /\ after.chunked /\ BagToSet(after.requested_chunks) = rest
       /\ BagToSet(after.requested_md) \subseteq next
  <2>1. /\ after.chunked /\ after.requested_chunks = SetToBag(rest)
        /\ after.requested_md = SetToBag(IF m * PerMetadata < n THEN {m} ELSE {})
    <3> HIDE DEF after
    <3> QED  BY <1>12 DEF EntryAfter
  <2> HIDE DEF after, next
  <2> QED  BY <1>12, <2>1, BagsOfSets
<1>14. /\ \A k \in BagToSet(after.requested_chunks) : Chunk(d, k) \in asked'
       /\ \A k \in BagToSet(after.requested_md) : Metadata(d, k) \in asked'
  <2>1. ASSUME NEW k \in rest  PROVE Chunk(d, k) \in asked'
    <3>1. CASE k \in p.body.chunks
      BY <1>1, <3>1
    <3>2. CASE k \in BagToSet(e.requested_chunks) /\ k \notin p.body.chunks
      <4>1. e.chunked
        <5>1. BagToSet(EmptyBag) = {}
          BY EmptyBagIs, BagsOfSets
        <5>2. e # NewEntry
          BY <3>2, <5>1 DEF NewEntry
        <5> QED  BY <1>1, <1>2, <5>2 DEF Types
      <4>2. Chunk(d, k) \in asked
        BY <1>1, <1>2, <3>2, <4>1 DEF AwaitedIsAsked
      <4>3. Chunk(d, k) # p.name
        BY <1>8, <1>12, <2>1, NamesDiffer
      <4> QED  BY <1>1, <4>2, <4>3
    <3> QED  BY <1>12, <2>1, <3>1, <3>2
  <2>2. ASSUME NEW k \in next  PROVE Metadata(d, k) \in asked'
    BY <1>1
  <2> HIDE DEF after, next
  <2> QED  BY <1>13, <2>1, <2>2
<1>15. \E w \in SUBSET PacketNames :
          /\ \A x \in w : x.kind # "w" /\ x.of = d
          /\ interests' = interests \cup w /\ asked' = (asked \ {p.name}) \cup w
  <2> HIDE DEF wanted
  <2> QED  BY <1>1, <1>10
<1>16. \E j \in Nat \ {0} : \E r \in SUBSET Nat : EntryAfter(d, v, after, j, r)
  <2> HIDE DEF after
  <2> QED  BY <1>12
<1> HIDE DEF after, wanted, next
<1> QED  BY <1>1, <1>2, <1>3, <1>12, <1>13, <1>14, <1>15, <1>16

(* What an entry of d waits for is in the set A.                           *)
Awaited(e, d, A) ==
    /\ ~e.chunked => Whole(d) \in A
    /\ e.chunked => /\ e.requested_chunks # EmptyBag \/ e.requested_md # EmptyBag
                    /\ \A k \in BagToSet(e.requested_chunks) : Chunk(d, k) \in A
                    /\ \A k \in BagToSet(e.requested_md) : Metadata(d, k) \in A

LEMMA AwaitedInAll == AwaitedIsAsked <=> \A d \in DOMAIN request_table : Awaited(request_table[d], d, asked)
BY DEF AwaitedIsAsked, Awaited

(* An entry that waits for something else goes on waiting for it.          *)
LEMMA StillAwaited ==
    ASSUME NEW d \in DOMAIN request_table, Awaited(request_table[d], d, asked),
           NEW n, n.of # d \/ ~Requests(n), NEW B, asked \ {n} \subseteq B
    PROVE  Awaited(request_table[d], d, B)
<1> DEFINE e == request_table[d]
<1>1. Whole(d).of = d /\ Whole(d).kind = "w"
  BY DEF Whole
<1>2. \A k : Chunk(d, k).of = d /\ Chunk(d, k).kind = "c" /\ Chunk(d, k).num = k
  BY DEF Chunk
<1>3. \A k : /\ Metadata(d, k).of = d
             /\ Metadata(d, k).kind = "w" \/ (Metadata(d, k).kind = "m" /\ Metadata(d, k).num = k)
  BY DEF Metadata, Whole
<1>4. Whole(d) # n
  BY <1>1 DEF Requests
<1>5. \A k \in BagToSet(e.requested_chunks) : Chunk(d, k) # n
  BY <1>2 DEF Requests, BagToSet, BagIn
<1>6. \A k \in BagToSet(e.requested_md) : Metadata(d, k) # n
  BY <1>3 DEF Requests, BagToSet, BagIn
<1> QED  BY <1>4, <1>5, <1>6 DEF Awaited

(* A chunk that was waited for: it completes the content, or some of it is *)
(* still to come.                                                          *)
LEMMA ChunkStep ==
    ASSUME Types, Once, OneVersion, AwaitedIsAsked,
           NEW p \in answers, ChunkArrives(p)
    PROVE  LET d == p.name.of IN
           /\ d \in Names /\ d \in DOMAIN request_table /\ request_table[d].chunked
           /\ interests' = interests /\ asked' = asked \ {p.name}
           /\ \E v \in Versions : Cut(d, v)
           /\ \/ /\ request_table' = Dropped(d)
                 /\ \E v \in Versions : content' = [name |-> d, chunks |-> SetToBag(ChunksOf(d, v))]
              \/ /\ DOMAIN request_table' = DOMAIN request_table /\ content' = content
                 /\ \A c \in DOMAIN request_table \ {d} : request_table'[c] = request_table[c]
                 /\ request_table'[d].chunked /\ Awaited(request_table'[d], d, asked')
                 /\ \A v \in Versions : Cut(d, v) =>
                       \E m \in Nat \ {0} : \E rest \in SUBSET Nat :
                           EntryAfter(d, v, request_table'[d], m, rest)
<1> DEFINE d == p.name.of
           e == request_table[d]
           had == e.chunks (+) p.body
           left == e.requested_chunks (-) SetToBag({p.name.num})
<1>1. /\ p.type \in {"content", "chunk"} /\ Requests(p.name) /\ e.chunked
      /\ interests' = interests /\ asked' = asked \ {p.name} /\ d \in DOMAIN request_table
  BY DEF ChunkArrives, Requests
<1>2. d \in Names
  BY <1>1 DEF Types
<1>3. p.type = "chunk"
  <2>1. ASSUME Short(p)  PROVE FALSE
    <3>1. p.name = Whole(d)
      BY <2>1, ShortIs
    <3>2. InAnswers(Whole(d))
      BY <3>1 DEF InAnswers
    <3> QED  BY <1>1, <1>2, <3>2 DEF Once, Quiet
  <2> QED  BY <1>1, <2>1 DEF Types
<1>4. \/ /\ left = EmptyBag /\ e.requested_md = EmptyBag
         /\ request_table' = Dropped(d)
         /\ content' = [name |-> d, chunks |-> had]
      \/ /\ left # EmptyBag \/ e.requested_md # EmptyBag
         /\ request_table' = With(d, [requested_chunks |-> left, chunks |-> had,
                                      requested_md |-> e.requested_md, chunked |-> TRUE])
         /\ content' = content
  BY <1>3 DEF ChunkArrives
<1>5. \E v \in Versions : Cut(d, v) /\ p \in chunk_data(d, v)
  BY <1>3, PieceIs
<1>6. ASSUME NEW v \in Versions, Cut(d, v)
      PROVE  \E m \in Nat \ {0} : \E rest \in SUBSET Nat :
                LET n == NumChunks[d][v] IN
                /\ n \in Nat \ {0} /\ rest \subseteq ListedBy(m, n)
                /\ left = SetToBag(rest)
                /\ had = SetToBag({<<v, k>> : k \in ListedBy(m, n) \ rest})
                /\ e.requested_md = SetToBag(IF m * PerMetadata < n THEN {m} ELSE {})
                /\ \A k \in rest : Chunk(d, k) \in asked'
                /\ \A k \in BagToSet(e.requested_md) : Metadata(d, k) \in asked'
  <2> DEFINE n == NumChunks[d][v]
  <2>1. n \in Nat \ {0}
    BY <1>2, <1>6, ChunkAssumption DEF ChunkAssumption, Cut
  <2>2. p \in chunk_data(d, v)
    BY <1>3, <1>6 DEF Cut, Piece
  <2>3. PICK k \in 0 .. n - 1 : p.name = Chunk(d, k) /\ p.body = SetToBag({<<v, k>>})
    BY <1>2, <1>3, <2>2, Pieces
  <2>4. PICK m \in Nat \ {0} : \E rest \in SUBSET Nat : EntryAfter(d, v, e, m, rest)
    BY <1>1, <1>2, <1>6 DEF Cut
  <2>5. PICK old \in SUBSET Nat : EntryAfter(d, v, e, m, old)
    BY <2>4
  <2>6. /\ old \subseteq ListedBy(m, n) /\ e.requested_chunks = SetToBag(old)
        /\ e.chunks = SetToBag({<<v, j>> : j \in ListedBy(m, n) \ old})
        /\ e.requested_md = SetToBag(IF m * PerMetadata < n THEN {m} ELSE {})
    BY <2>5 DEF EntryAfter
  <2>7. p.name.num = k /\ p.name.kind = "c"
    BY <2>1, <2>3, NamesDiffer
  <2>8. k \in old
    <3>1. BagIn(k, e.requested_chunks)
      BY <1>1, <2>7 DEF Requests
    <3> QED  BY <2>6, <3>1, BagsOfSets
  <2> DEFINE rest == old \ {k}
  <2>9. left = SetToBag(rest)
    BY <2>6, <2>7, BagWithout
  <2>10. had = SetToBag({<<v, j>> : j \in ListedBy(m, n) \ rest})
    <3> DEFINE A == {<<v, j>> : j \in ListedBy(m, n) \ old}
    <3>1. A \cap {<<v, k>>} = {}
      BY <2>8
    <3>2. A \cup {<<v, k>>} = {<<v, j>> : j \in ListedBy(m, n) \ rest}
      BY <2>6, <2>8
    <3>3. had = SetToBag(A) (+) SetToBag({<<v, k>>})
      BY <2>3, <2>6
    <3> HIDE DEF A, had
    <3> QED  BY <3>1, <3>2, <3>3, BagWith
  <2>11. Awaited(e, d, asked)
    BY <1>1, AwaitedInAll
  <2>12. \A j \in rest : Chunk(d, j) \in asked'
    <3>1. ASSUME NEW j \in rest  PROVE Chunk(d, j) \in asked'
      <4>1. Chunk(d, j) \in asked
        <5>1. BagToSet(e.requested_chunks) = old
          BY <2>6, BagsOfSets
        <5> QED  BY <1>1, <2>11, <5>1 DEF Awaited
      <4>2. Chunk(d, j) # p.name
        BY <2>7 DEF Chunk
      <4> QED  BY <1>1, <4>1, <4>2
    <3> QED  BY <3>1
  <2>13. \A j \in BagToSet(e.requested_md) : Metadata(d, j) \in asked'
    <3>1. ASSUME NEW j \in BagToSet(e.requested_md)  PROVE Metadata(d, j) \in asked'
      <4>1. Metadata(d, j) \in asked
        BY <1>1, <2>11 DEF Awaited
      <4>2. Metadata(d, j) # p.name
        BY <2>7 DEF Metadata, Whole
      <4> QED  BY <1>1, <4>1, <4>2
    <3> QED  BY <3>1
  <2>14. rest \subseteq ListedBy(m, n) /\ rest \in SUBSET Nat
    BY <2>6
  <2> HIDE DEF rest, left, had, e, d, n
  <2> QED  BY <2>1, <2>6, <2>9, <2>10, <2>12, <2>13, <2>14 DEF n
<1>7. CASE left = EmptyBag /\ e.requested_md = EmptyBag
  <2>1. PICK v \in Versions : Cut(d, v)
    BY <1>5
  <2> DEFINE n == NumChunks[d][v]
  <2>2. PICK m \in Nat \ {0}, rest \in SUBSET Nat :
            /\ n \in Nat \ {0}
            /\ left = SetToBag(rest)
            /\ had = SetToBag({<<v, k>> : k \in ListedBy(m, n) \ rest})
            /\ e.requested_md = SetToBag(IF m * PerMetadata < n THEN {m} ELSE {})
    <3> HIDE DEF left, had, e, d
    <3> QED  BY <1>6, <2>1
  <2>3. rest = {} /\ ~(m * PerMetadata < n)
    <3>1. SetToBag(rest) = EmptyBag /\ SetToBag(IF m * PerMetadata < n THEN {m} ELSE {}) = EmptyBag
      BY <1>7, <2>2
    <3>2. rest = {} /\ (IF m * PerMetadata < n THEN {m} ELSE {}) = {}
      BY <3>1, BagsOfSets
    <3> QED  BY <3>2
  <2>4. ListedBy(m, n) \ rest = 0 .. n - 1
    BY <2>3 DEF ListedBy
  <2>5. ChunksOf(d, v) = {<<v, k>> : k \in ListedBy(m, n) \ rest}
    BY <2>2, <2>4 DEF ChunksOf
  <2>6. had = SetToBag(ChunksOf(d, v))
    BY <2>2, <2>5
  <2>7. request_table' = Dropped(d) /\ content' = [name |-> d, chunks |-> had]
    BY <1>4, <1>7
  <2> HIDE DEF had
  <2> QED  BY <1>1, <1>2, <1>5, <2>6, <2>7
<1>8. CASE left # EmptyBag \/ e.requested_md # EmptyBag
  <2> DEFINE after == [requested_chunks |-> left, chunks |-> had,
                       requested_md |-> e.requested_md, chunked |-> TRUE]
  <2>1. request_table' = With(d, after) /\ content' = content
    BY <1>4, <1>8
  <2>2. /\ request_table'[d] = after /\ DOMAIN request_table' = DOMAIN request_table
        /\ \A c \in DOMAIN request_table \ {d} : request_table'[c] = request_table[c]
    BY <1>1, <2>1 DEF With
  <2>3. Awaited(after, d, asked')
    <3>1. PICK v \in Versions : Cut(d, v)
      BY <1>5
    <3>2. PICK m \in Nat \ {0}, rest \in SUBSET Nat :
              /\ left = SetToBag(rest)
              /\ \A k \in rest : Chunk(d, k) \in asked'
              /\ \A k \in BagToSet(e.requested_md) : Metadata(d, k) \in asked'
      <4> HIDE DEF left, had, e, d
      <4> QED  BY <1>6, <3>1
    <3>3. BagToSet(left) = rest
      BY <3>2, BagsOfSets
    <3> HIDE DEF left, had, e, d
    <3> QED  BY <1>8, <3>2, <3>3 DEF Awaited
  <2>4. ASSUME NEW v \in Versions, Cut(d, v)
        PROVE  \E m \in Nat \ {0} : \E rest \in SUBSET Nat : EntryAfter(d, v, after, m, rest)
    <3> DEFINE n == NumChunks[d][v]
    <3>1. PICK m \in Nat \ {0}, rest \in SUBSET Nat :
              /\ rest \subseteq ListedBy(m, n)
              /\ left = SetToBag(rest)
              /\ had = SetToBag({<<v, k>> : k \in ListedBy(m, n) \ rest})
              /\ e.requested_md = SetToBag(IF m * PerMetadata < n THEN {m} ELSE {})
      <4> HIDE DEF left, had, e, d
      <4> QED  BY <1>6, <2>4
    <3>2. rest # {} \/ m * PerMetadata < n
      <4>1. SetToBag(rest) # EmptyBag \/ SetToBag(IF m * PerMetadata < n THEN {m} ELSE {}) # EmptyBag
        BY <1>8, <3>1
      <4>2. rest # {} \/ (IF m * PerMetadata < n THEN {m} ELSE {}) # {}
        BY <4>1, BagsOfSets
      <4> QED  BY <4>2
    <3> HIDE DEF left, had, e, d
    <3> QED  BY <3>1, <3>2 DEF EntryAfter
  <2> HIDE DEF after, had
  <2>5. request_table'[d].chunked
    BY <2>2 DEF after
  <2> QED  BY <1>1, <1>2, <1>5, <2>1, <2>2, <2>3, <2>4, <2>5
<1> HIDE DEF had, left
<1> QED  BY <1>7, <1>8

-----------------------------------------------------------------------------
(* A step of the program *)

IInv == Types /\ Once /\ OneVersion /\ AwaitedIsAsked

(* What packets and refusals of the name n do at most: the entry of its    *)
(* content goes, stays, or has had one more packet of its version, and     *)
(* more may be asked for, but never a whole content.                       *)
HadOneMore(n) ==
    LET d == n.of IN
    /\ request_table'[d].chunked
    /\ n = Whole(d) \/ request_table[d].chunked
    /\ \E p \in answers : p.name = n /\ answers' = answers \ {p}
    /\ \E v \in Versions : Cut(d, v)
    /\ \A v \in Versions : Cut(d, v) =>
          \E m \in Nat \ {0} : \E rest \in SUBSET Nat : EntryAfter(d, v, request_table'[d], m, rest)

Effect(n) ==
    /\ answers' \subseteq answers
    /\ UNCHANGED <<to_repo, from_repo, chunk_table, storage, asks>>
    /\ \E wanted \in SUBSET PacketNames :
          /\ \A w \in wanted : w.kind # "w"
          /\ interests' = interests \cup wanted /\ asked' = (asked \ {n}) \cup wanted
    /\ DOMAIN request_table' \subseteq DOMAIN request_table
    /\ \A c \in DOMAIN request_table' :
          request_table'[c] = request_table[c] \/ (c = n.of /\ HadOneMore(n))
    /\ \A c \in DOMAIN request_table' : Awaited(request_table'[c], c, asked')

(* An entry that goes leaves the others as they are.                       *)
LEMMA EffectOfDropping ==
    ASSUME IInv, NEW n \in PacketNames, answers' \subseteq answers,
           UNCHANGED <<to_repo, from_repo, chunk_table, storage, asks, interests>>,
           asked' = asked \ {n},
           request_table' = Dropped(n.of) \/ (~Requests(n) /\ request_table' = request_table)
    PROVE  Effect(n)
<1>1. /\ DOMAIN request_table' \subseteq DOMAIN request_table
      /\ \A c \in DOMAIN request_table' :
            request_table'[c] = request_table[c] /\ (c # n.of \/ ~Requests(n))
  BY DEF Dropped
<1>2. ASSUME NEW c \in DOMAIN request_table'
      PROVE  Awaited(request_table'[c], c, asked')
  <2>1. /\ c \in DOMAIN request_table /\ request_table'[c] = request_table[c]
        /\ n.of # c \/ ~Requests(n)
    BY <1>1
  <2>2. Awaited(request_table[c], c, asked)
    BY <2>1, AwaitedInAll DEF IInv
  <2>3. asked \ {n} \subseteq asked'
    OBVIOUS
  <2>4. Awaited(request_table[c], c, asked')
    BY <2>1, <2>2, <2>3, StillAwaited
  <2> QED  BY <2>1, <2>4
<1>3. \E wanted \in SUBSET PacketNames :
          /\ \A w \in wanted : w.kind # "w"
          /\ interests' = interests \cup wanted /\ asked' = (asked \ {n}) \cup wanted
  <2>1. interests' = interests \cup {} /\ asked' = (asked \ {n}) \cup {}
    OBVIOUS
  <2> QED  BY <2>1
<1> QED  BY <1>1, <1>2, <1>3 DEF Effect

LEMMA EffectOfPiece ==
    ASSUME IInv, NEW p \in answers, answers' = answers \ {p},
           UNCHANGED <<to_repo, from_repo, chunk_table, storage, asks>>,
           p.name.of \in DOMAIN request_table,
           DOMAIN request_table' = DOMAIN request_table,
           \A c \in DOMAIN request_table \ {p.name.of} : request_table'[c] = request_table[c],
           HadOneMore(p.name), Awaited(request_table'[p.name.of], p.name.of, asked'),
           \E wanted \in SUBSET PacketNames :
               /\ \A w \in wanted : w.kind # "w"
               /\ interests' = interests \cup wanted /\ asked' = (asked \ {p.name}) \cup wanted
    PROVE  Effect(p.name)
<1>1. ASSUME NEW c \in DOMAIN request_table'
      PROVE  Awaited(request_table'[c], c, asked')
  <2>1. CASE c # p.name.of
    <3>1. c \in DOMAIN request_table /\ request_table'[c] = request_table[c]
      BY <2>1
    <3>2. Awaited(request_table[c], c, asked)
      BY <3>1, AwaitedInAll DEF IInv
    <3>3. asked \ {p.name} \subseteq asked'
      OBVIOUS
    <3>4. Awaited(request_table[c], c, asked')
      BY <2>1, <3>1, <3>2, <3>3, StillAwaited
    <3> QED  BY <3>1, <3>4
  <2> QED  BY <2>1
<1>2. \A c \in DOMAIN request_table' :
          request_table'[c] = request_table[c] \/ (c = p.name.of /\ HadOneMore(p.name))
  OBVIOUS
<1> QED  BY <1>1, <1>2 DEF Effect

LEMMA EffectOfReceive ==
    ASSUME IInv, NEW p \in answers, Receive(p)
    PROVE  Effect(p.name)
<1>1. /\ answers' = answers \ {p} /\ p.name \in PacketNames /\ answers' \subseteq answers
      /\ UNCHANGED <<to_repo, from_repo, chunk_table, storage, asks>>
  BY DEF Receive, repository, counters, IInv, Types
<1>2. CASE WholeArrives(p)
  <2>1. /\ request_table' = Dropped(p.name.of) /\ UNCHANGED interests
        /\ asked' = asked \ {p.name}
    BY <1>2 DEF WholeArrives
  <2> QED  BY <1>1, <2>1, EffectOfDropping
<1>3. CASE MetadataArrives(p)
  <2> DEFINE d == p.name.of
  <2>1. p.type = "metadata"
    BY <1>3 DEF MetadataArrives
  <2>2. PICK v \in Versions : Cut(d, v)
    BY <2>1, PieceIs DEF IInv
  <2>3. /\ d \in DOMAIN request_table
        /\ DOMAIN request_table' = DOMAIN request_table
        /\ \A c \in DOMAIN request_table \ {d} : request_table'[c] = request_table[c]
        /\ request_table'[d].chunked
        /\ p.name = Whole(d) \/ request_table[d].chunked
        /\ \E wanted \in SUBSET PacketNames :
              /\ \A w \in wanted : w.kind # "w" /\ w.of = d
              /\ interests' = interests \cup wanted /\ asked' = (asked \ {p.name}) \cup wanted
        /\ \A k \in BagToSet(request_table'[d].requested_chunks) : Chunk(d, k) \in asked'
        /\ \A k \in BagToSet(request_table'[d].requested_md) : Metadata(d, k) \in asked'
    BY <1>3, <2>2, MetadataStep DEF IInv
  <2>4. \A u \in Versions : Cut(d, u) =>
           \E m \in Nat \ {0} : \E rest \in SUBSET Nat : EntryAfter(d, u, request_table'[d], m, rest)
    BY <1>3, MetadataStep DEF IInv
  <2>5. HadOneMore(p.name)
    BY <1>1, <2>2, <2>3, <2>4 DEF HadOneMore
  <2>6. request_table'[d].requested_chunks # EmptyBag \/ request_table'[d].requested_md # EmptyBag
    <3>1. PICK m \in Nat \ {0}, rest \in SUBSET Nat : EntryAfter(d, v, request_table'[d], m, rest)
      BY <2>2, <2>4
    <3> DEFINE n == NumChunks[d][v]
    <3>2. /\ rest # {} \/ m * PerMetadata < n
          /\ request_table'[d].requested_chunks = SetToBag(rest)
          /\ request_table'[d].requested_md = SetToBag(IF m * PerMetadata < n THEN {m} ELSE {})
      BY <3>1 DEF EntryAfter
    <3>3. rest # {} \/ (IF m * PerMetadata < n THEN {m} ELSE {}) # {}
      BY <3>2
    <3> QED  BY <3>2, <3>3, BagsOfSets
  <2>7. Awaited(request_table'[d], d, asked')
    BY <2>3, <2>6 DEF Awaited
  <2> QED  BY <1>1, <2>3, <2>5, <2>7, EffectOfPiece
<1>4. CASE ChunkArrives(p)
  <2> DEFINE d == p.name.of
  <2>1. /\ d \in Names /\ d \in DOMAIN request_table /\ request_table[d].chunked
        /\ interests' = interests /\ asked' = asked \ {p.name}
        /\ \E v \in Versions : Cut(d, v)
        /\ \/ request_table' = Dropped(d)
           \/ /\ DOMAIN request_table' = DOMAIN request_table
              /\ \A c \in DOMAIN request_table \ {d} : request_table'[c] = request_table[c]
              /\ request_table'[d].chunked /\ Awaited(request_table'[d], d, asked')
              /\ \A v \in Versions : Cut(d, v) =>
                    \E m \in Nat \ {0} : \E rest \in SUBSET Nat :
                        EntryAfter(d, v, request_table'[d], m, rest)
    BY <1>4, ChunkStep DEF IInv
  <2>2. CASE request_table' = Dropped(d)
    BY <1>1, <2>1, <2>2, EffectOfDropping
  <2>3. CASE request_table' # Dropped(d)
    <3>1. HadOneMore(p.name)
      BY <1>1, <2>1, <2>3 DEF HadOneMore
    <3>2. interests' = interests \cup {} /\ asked' = (asked \ {p.name}) \cup {}
      BY <2>1
    <3>3. \E wanted \in SUBSET PacketNames :
             /\ \A w \in wanted : w.kind # "w"
             /\ interests' = interests \cup wanted /\ asked' = (asked \ {p.name}) \cup wanted
      BY <3>2
    <3> QED  BY <1>1, <2>1, <2>3, <3>1, <3>3, EffectOfPiece
  <2> QED  BY <2>2, <2>3
<1>5. CASE Unexpected(p)
  <2>1. /\ request_table' = request_table /\ UNCHANGED interests
        /\ asked' = asked \ {p.name} /\ ~Requests(p.name)
    BY <1>5 DEF Unexpected
  <2> QED  BY <1>1, <2>1, EffectOfDropping
<1>6. CASE NackArrives(p)
  <2>1. /\ request_table' = IF Requests(p.name) THEN Dropped(p.name.of) ELSE request_table
        /\ UNCHANGED interests /\ asked' = asked \ {p.name}
    BY <1>6 DEF NackArrives
  <2> QED  BY <1>1, <2>1, EffectOfDropping
<1> QED  BY <1>2, <1>3, <1>4, <1>5, <1>6 DEF Receive, FromNetwork

LEMMA EffectOfGiveUp ==
    ASSUME IInv, NEW n \in asked, GiveUp(n)
    PROVE  Effect(n)
<1>1. n \in PacketNames
  BY DEF IInv, Types
<1>2. /\ answers' \subseteq answers
      /\ UNCHANGED <<to_repo, from_repo, chunk_table, storage, asks, interests>>
      /\ request_table' = IF Requests(n) THEN Dropped(n.of) ELSE request_table
      /\ asked' = asked \ {n}
  BY NackOf DEF GiveUp, NackArrives, repository, counters
<1> QED  BY <1>1, <1>2, EffectOfDropping

(* What an effect leaves of the invariant.                                 *)
LEMMA EffectKeeps ==
    ASSUME IInv, NEW n \in PacketNames, Effect(n)
    PROVE  IInv'
<1>1. /\ answers' \subseteq answers
      /\ to_repo' = to_repo /\ from_repo' = from_repo /\ chunk_table' = chunk_table
      /\ storage' = storage /\ asks' = asks
      /\ DOMAIN request_table' \subseteq DOMAIN request_table
      /\ \A c \in DOMAIN request_table' :
            request_table'[c] = request_table[c] \/ (c = n.of /\ HadOneMore(n))
  BY DEF Effect
<1>2. PICK wanted \in SUBSET PacketNames :
          /\ \A w \in wanted : w.kind # "w"
          /\ interests' = interests \cup wanted /\ asked' = (asked \ {n}) \cup wanted
  BY DEF Effect
<1>3. ASSUME NEW d
      PROVE  /\ Whole(d) \in interests' => Whole(d) \in interests
             /\ Whole(d) \in asked' => Whole(d) \in asked /\ Whole(d) # n
             /\ ToRepository(Whole(d))' <=> ToRepository(Whole(d))
             /\ FromRepositorys(Whole(d))' <=> FromRepositorys(Whole(d))
             /\ InAnswers(Whole(d))' => InAnswers(Whole(d))
  <2>1. Whole(d).kind = "w"
    BY DEF Whole
  <2> QED  BY <1>1, <1>2, <2>1 DEF ToRepository, FromRepositorys, InAnswers
<1>4. Types'
  <2>1. asked' \subseteq PacketNames /\ interests' \subseteq PacketNames
    BY <1>2 DEF IInv, Types
  <2>2. \A c \in DOMAIN request_table' : ~request_table'[c].chunked => request_table'[c] = NewEntry
    BY <1>1 DEF HadOneMore, IInv, Types
  <2>3. DOMAIN request_table' \subseteq Names /\ DOMAIN chunk_table' \subseteq PacketNames
    BY <1>1 DEF IInv, Types
  <2>4. \A p \in answers' :
          /\ p.name \in PacketNames
          /\ p.type = "nack" \/ Short(p) \/ p.type \in {"metadata", "chunk"}
    BY <1>1 DEF IInv, Types
  <2>5. /\ to_repo' \in Seq(PacketNames) /\ from_repo' \in Seq(FromRepo)
        /\ DOMAIN storage' = Stored /\ \A d \in Stored : storage'[d] \in Versions
        /\ asks' \in [Names -> Nat]
    BY <1>1 DEF IInv, Types
  <2> QED  BY <2>1, <2>2, <2>3, <2>4, <2>5 DEF Types
<1>5. ASSUME NEW d \in Names
      PROVE  /\ InOnePlace(Whole(d))' /\ asks'[d] \in {0, 1}
             /\ asks'[d] = 1 => Quiet(Whole(d))' /\ d \notin DOMAIN request_table'
             /\ d \in DOMAIN request_table' /\ request_table'[d].chunked => Quiet(Whole(d))'
  <2>1. /\ InOnePlace(Whole(d)) /\ asks[d] \in {0, 1}
        /\ asks[d] = 1 => Quiet(Whole(d)) /\ d \notin DOMAIN request_table
        /\ d \in DOMAIN request_table /\ request_table[d].chunked => Quiet(Whole(d))
    BY DEF IInv, Once
  <2>2. InOnePlace(Whole(d))'
    <3>1. /\ Whole(d) \in interests' =>
                ~InAnswers(Whole(d))' /\ ~ToRepository(Whole(d))' /\ ~FromRepositorys(Whole(d))'
          /\ InAnswers(Whole(d))' => ~ToRepository(Whole(d))' /\ ~FromRepositorys(Whole(d))'
          /\ ToRepository(Whole(d))' => ~FromRepositorys(Whole(d))'
      BY <1>3, <2>1 DEF InOnePlace
    <3>2. \A p, q \in answers' : p.name = Whole(d) /\ q.name = Whole(d) => p = q
      BY <1>1, <2>1 DEF InOnePlace
    <3> QED  BY <1>1, <2>1, <3>1, <3>2 DEF InOnePlace
  <2>3. Quiet(Whole(d)) => Quiet(Whole(d))'
    BY <1>3 DEF Quiet
  <2>4. ASSUME d \in DOMAIN request_table', request_table'[d].chunked
        PROVE  Quiet(Whole(d))'
    <3>1. CASE request_table'[d] = request_table[d]
      BY <1>1, <2>1, <2>3, <2>4, <3>1
    <3>2. CASE d = n.of /\ HadOneMore(n)
      <4>1. CASE request_table[d].chunked
        BY <1>1, <2>1, <2>3, <2>4, <4>1
      <4>2. CASE n = Whole(d)
        <5>1. PICK p \in answers : p.name = n /\ answers' = answers \ {p}
          BY <3>2 DEF HadOneMore
        <5>2. InAnswers(n) /\ ~InAnswers(n)'
          BY <2>1, <4>2, <5>1 DEF InAnswers, InOnePlace
        <5>3. n \notin interests /\ ~ToRepository(n) /\ ~FromRepositorys(n)
          BY <2>1, <4>2, <5>2 DEF InOnePlace
        <5>4. n \notin interests' /\ n \notin asked' /\ ~ToRepository(n)' /\ ~FromRepositorys(n)'
          BY <1>3, <4>2, <5>3
        <5> QED  BY <4>2, <5>2, <5>4 DEF Quiet
      <4> QED  BY <3>2, <4>1, <4>2 DEF HadOneMore
    <3> QED  BY <1>1, <2>4, <3>1, <3>2
  <2> QED  BY <1>1, <2>1, <2>2, <2>3, <2>4
<1>6. Once'
  BY <1>5 DEF Once
<1>7. ASSUME NEW d \in Names
      PROVE  Uncut(d)' \/ \E v \in Versions : Cut(d, v)'
  <2>1. CASE Uncut(d)
    <3>1. \A v \in Versions : ~Cut(d, v)
      BY <2>1 DEF Uncut, Cut, Whole
    <3>2. d \in DOMAIN request_table' => request_table'[d] = request_table[d]
      BY <1>1, <3>1 DEF HadOneMore
    <3>3. \A p \in answers' : ~Piece(p, d)
      BY <1>1, <2>1 DEF Uncut
    <3> QED  BY <1>1, <2>1, <3>2, <3>3 DEF Uncut
  <2>2. ASSUME NEW v \in Versions, Cut(d, v)  PROVE Cut(d, v)'
    <3>1. d \in DOMAIN request_table' /\ request_table'[d].chunked =>
            \E m \in Nat \ {0} : \E rest \in SUBSET Nat : EntryAfter(d, v, request_table'[d], m, rest)
      BY <1>1, <2>2 DEF HadOneMore, Cut
    <3>2. ~ToRepository(Whole(d))' /\ ~FromRepositorys(Whole(d))'
      BY <1>3, <2>2 DEF Cut
    <3>3. /\ NumChunks[d][v] > 0 /\ Whole(d) \in DOMAIN chunk_table'
          /\ \A w \in DOMAIN chunk_table' :
                w.of = d => chunk_table'[w] \in chunk_data(d, v) /\ chunk_table'[w].name = w
          /\ \A p \in answers' : Piece(p, d) => p \in chunk_data(d, v)
      BY <1>1, <2>2 DEF Cut
    <3> QED  BY <3>1, <3>2, <3>3 DEF Cut
  <2> QED  BY <2>1, <2>2 DEF IInv, OneVersion
<1>8. OneVersion'
  BY <1>7 DEF OneVersion
<1>9. AwaitedIsAsked'
  BY DEF AwaitedIsAsked, Awaited, Effect
<1> QED  BY <1>4, <1>6, <1>8, <1>9 DEF IInv

-----------------------------------------------------------------------------
(* Steps of the network and of the repository *)

LEMMA Appended ==
    ASSUME NEW S, NEW s \in Seq(S), NEW e \in S
    PROVE  /\ Append(s, e) \in Seq(S)
           /\ \E last \in DOMAIN Append(s, e) :
                 /\ Append(s, e)[last] = e
                 /\ \A k \in DOMAIN Append(s, e) \ {last} : k \in DOMAIN s /\ Append(s, e)[k] = s[k]
<1>1. Append(s, e) \in Seq(S) /\ DOMAIN s = 1 .. Len(s) /\ Len(s) \in Nat
  OBVIOUS
<1>2. DOMAIN Append(s, e) = 1 .. Len(s) + 1 /\ Append(s, e)[Len(s) + 1] = e
  OBVIOUS
<1>3. \A k \in 1 .. Len(s) : Append(s, e)[k] = s[k]
  OBVIOUS
<1> QED  BY <1>1, <1>2, <1>3

LEMMA Tailed ==
    ASSUME NEW S, NEW s \in Seq(S), s # << >>
    PROVE  /\ Tail(s) \in Seq(S) /\ Head(s) \in S
           /\ 1 \in DOMAIN s /\ Head(s) = s[1]
           /\ \A k \in DOMAIN Tail(s) : k + 1 \in DOMAIN s /\ k + 1 # 1 /\ Tail(s)[k] = s[k + 1]
           /\ \A j, k \in DOMAIN Tail(s) : j + 1 = k + 1 => j = k
<1>1. Tail(s) \in Seq(S) /\ DOMAIN s = 1 .. Len(s) /\ Len(s) \in Nat \ {0} /\ Head(s) = s[1]
  OBVIOUS
<1>2. DOMAIN Tail(s) = 1 .. Len(s) - 1
  OBVIOUS
<1>3. \A k \in 1 .. Len(s) - 1 : Tail(s)[k] = s[k + 1]
  OBVIOUS
<1> QED  BY <1>1, <1>2, <1>3

(* Names of contents are different when the contents are.                  *)
LEMMA WholesDiffer ==
    /\ \A c, d : Whole(c) = Whole(d) => c = d
    /\ \A d : Whole(d).of = d /\ Whole(d).kind = "w"
    /\ \A n \in PacketNames : n.of \in Names
    /\ \A d \in Names : Whole(d) \in PacketNames
<1>1. \A d : Whole(d).of = d /\ Whole(d).kind = "w"
  BY DEF Whole
<1>2. \A c, d : Whole(c) = Whole(d) => c = d
  BY <1>1
<1>3. \A d \in Names : Whole(d) \in PacketNames
  BY DEF Whole, PacketNames
<1> QED  BY <1>1, <1>2, <1>3 DEF PacketNames

LEMMA FetchKeeps ==
    ASSUME IInv, NEW d \in Names, Fetch(d)
    PROVE  IInv'
<1>1. /\ asks[d] > 0 /\ asks' = [asks EXCEPT ![d] = @ - 1]
      /\ request_table' = IF Requests(Whole(d)) THEN request_table ELSE With(d, NewEntry)
      /\ asked' = asked \cup {Whole(d)} /\ interests' = interests \cup {Whole(d)}
      /\ answers' = answers /\ chunk_table' = chunk_table /\ to_repo' = to_repo
      /\ from_repo' = from_repo /\ storage' = storage
  BY DEF Fetch, repository
<1>2. asks \in [Names -> Nat]
  BY DEF IInv, Types
<1>3. asks[d] = 1 /\ Quiet(Whole(d)) /\ d \notin DOMAIN request_table
  BY <1>1, <1>2 DEF IInv, Once
<1>4. asks' \in [Names -> Nat] /\ asks'[d] = 0 /\ \A c \in Names \ {d} : asks'[c] = asks[c]
  BY <1>1, <1>2, <1>3
<1>5. /\ DOMAIN request_table' = DOMAIN request_table \cup {d} /\ request_table'[d] = NewEntry
      /\ \A c \in DOMAIN request_table : request_table'[c] = request_table[c]
  <2>1. ~Requests(Whole(d))
    BY <1>3, WholesDiffer DEF Requests
  <2> QED  BY <1>1, <1>3, <2>1 DEF With
<1>6. ~NewEntry.chunked
  BY DEF NewEntry
<1>7. Types'
  <2>1. asked' \subseteq PacketNames /\ interests' \subseteq PacketNames
    BY <1>1, WholesDiffer DEF IInv, Types
  <2>2. /\ DOMAIN request_table' \subseteq Names
        /\ \A c \in DOMAIN request_table' : ~request_table'[c].chunked => request_table'[c] = NewEntry
    BY <1>5 DEF IInv, Types
  <2> QED  BY <1>1, <1>4, <2>1, <2>2 DEF IInv, Types
<1>8. Once'
  <2>1. ASSUME NEW c \in Names
        PROVE  /\ InOnePlace(Whole(c))' /\ asks'[c] \in {0, 1}
               /\ asks'[c] = 1 => Quiet(Whole(c))' /\ c \notin DOMAIN request_table'
               /\ c \in DOMAIN request_table' /\ request_table'[c].chunked => Quiet(Whole(c))'
    <3>1. /\ InOnePlace(Whole(c)) /\ asks[c] \in {0, 1}
          /\ asks[c] = 1 => Quiet(Whole(c)) /\ c \notin DOMAIN request_table
          /\ c \in DOMAIN request_table /\ request_table[c].chunked => Quiet(Whole(c))
      BY DEF IInv, Once
    <3>2. CASE c = d
      <4>1. InOnePlace(Whole(d))'
        BY <1>1, <1>3, <3>1, <3>2 DEF InOnePlace, Quiet, InAnswers, ToRepository, FromRepositorys
      <4> QED  BY <1>4, <1>5, <1>6, <3>2, <4>1
    <3>3. CASE c # d
      <4>1. Whole(c) # Whole(d)
        BY <3>3, WholesDiffer
      <4>2. InOnePlace(Whole(c))'
        BY <1>1, <3>1, <4>1 DEF InOnePlace, InAnswers, ToRepository, FromRepositorys
      <4>3. Quiet(Whole(c)) => Quiet(Whole(c))'
        BY <1>1, <4>1 DEF Quiet, InAnswers, ToRepository, FromRepositorys
      <4> QED  BY <1>4, <1>5, <3>1, <3>3, <4>2, <4>3
    <3> QED  BY <3>2, <3>3
  <2> QED  BY <2>1 DEF Once
<1>9. OneVersion'
  <2>1. ASSUME NEW c \in Names
        PROVE  /\ Uncut(c) => Uncut(c)'
               /\ \A v \in Versions : Cut(c, v) => Cut(c, v)'
    <3>1. c \in DOMAIN request_table' /\ request_table'[c].chunked =>
              c \in DOMAIN request_table /\ request_table'[c] = request_table[c]
      BY <1>5, <1>6
    <3>2. Uncut(c) => Uncut(c)'
      BY <1>1, <3>1 DEF Uncut
    <3>3. ASSUME NEW v \in Versions, Cut(c, v)  PROVE Cut(c, v)'
      BY <1>1, <3>1, <3>3 DEF Cut, ToRepository, FromRepositorys
    <3> QED  BY <3>2, <3>3
  <2> QED  BY <2>1 DEF IInv, OneVersion
<1>10. AwaitedIsAsked'
  <2>1. ASSUME NEW c \in DOMAIN request_table'
        PROVE  Awaited(request_table'[c], c, asked')
    <3>1. CASE c = d
      BY <1>1, <1>5, <1>6, <3>1 DEF Awaited
    <3>2. CASE c # d
      <4>1. c \in DOMAIN request_table /\ Awaited(request_table[c], c, asked)
        BY <1>5, <3>2, AwaitedInAll DEF IInv
      <4> QED  BY <1>1, <1>5, <4>1 DEF Awaited
    <3> QED  BY <3>1, <3>2
  <2> QED  BY <2>1 DEF AwaitedIsAsked, Awaited
<1> QED  BY <1>7, <1>8, <1>9, <1>10 DEF IInv

(* Steps that leave the program and the chunk table as they are: it is     *)
(* enough to look at where the whole contents are, and at new pieces.      *)
LEMMA NetworkKeeps ==
    ASSUME IInv, UNCHANGED <<request_table, asked, asks, chunk_table>>,
           DOMAIN storage' = Stored, \A d \in Stored : storage'[d] \in Versions,
           interests' \subseteq PacketNames,
           to_repo' \in Seq(PacketNames), from_repo' \in Seq(FromRepo),
           \A p \in answers' \ answers :
              /\ p.name \in PacketNames
              /\ p.type = "nack" \/ Short(p) \/ p.type \in {"metadata", "chunk"}
              /\ p.type \in {"metadata", "chunk"} =>
                    p.name \in DOMAIN chunk_table /\ p = chunk_table[p.name],
           \A d \in Names : InOnePlace(Whole(d))',
           \A d \in Names : Quiet(Whole(d)) => Quiet(Whole(d))',
           \A d \in Names : Whole(d) \in DOMAIN chunk_table =>
              /\ ~ToRepository(Whole(d)) => ~ToRepository(Whole(d))'
              /\ ~ToRepository(Whole(d)) /\ ~FromRepositorys(Whole(d)) => ~FromRepositorys(Whole(d))'
    PROVE  IInv'
<1>1. Types'
  BY DEF IInv, Types
<1>2. Once'
  BY DEF IInv, Once
<1>3. AwaitedIsAsked'
  BY DEF IInv, AwaitedIsAsked
<1>4. ASSUME NEW d \in Names
      PROVE  /\ Uncut(d) => Uncut(d)'
             /\ \A v \in Versions : Cut(d, v) => Cut(d, v)'
  <2>1. ASSUME NEW p \in answers', Piece(p, d)
        PROVE  p \in answers \/ (p.name \in DOMAIN chunk_table /\ p = chunk_table[p.name] /\ p.name.of = d)
    BY <2>1 DEF Piece
  <2>2. Uncut(d) => Uncut(d)'
    BY <2>1 DEF Uncut
  <2>3. ASSUME NEW v \in Versions, Cut(d, v)  PROVE Cut(d, v)'
    <3>1. \A p \in answers' : Piece(p, d) => p \in chunk_data(d, v)
      BY <2>1, <2>3 DEF Cut
    <3>2. ~ToRepository(Whole(d))' /\ ~FromRepositorys(Whole(d))'
      BY <2>3 DEF Cut
    <3> QED  BY <2>3, <3>1, <3>2 DEF Cut
  <2> QED  BY <2>2, <2>3
<1>5. OneVersion'
  BY <1>4 DEF IInv, OneVersion
<1> QED  BY <1>1, <1>2, <1>3, <1>5 DEF IInv

(* What the chunk table has is under its name.                             *)
LEMMA TableIs ==
    ASSUME IInv, NEW n \in DOMAIN chunk_table
    PROVE  /\ n \in PacketNames /\ n.of \in Names
           /\ chunk_table[n].name = n /\ chunk_table[n].type \in {"metadata", "chunk"}
<1>1. n \in PacketNames /\ n.of \in Names
  BY DEF IInv, Types, PacketNames
<1>2. PICK v \in Versions : Cut(n.of, v)
  BY <1>1 DEF IInv, OneVersion, Uncut
<1>3. chunk_table[n] \in chunk_data(n.of, v) /\ chunk_table[n].name = n
  BY <1>2 DEF Cut
<1>4. chunk_table[n].type \in {"metadata", "chunk"}
  BY <1>1, <1>3, Pieces
<1> QED  BY <1>1, <1>3, <1>4

LEMMA InterestArrivesKeeps ==
    ASSUME IInv, NEW n \in interests, InterestArrives(n)
    PROVE  IInv'
<1>1. /\ interests' = interests \ {n} /\ n \in PacketNames
      /\ UNCHANGED <<request_table, asked, asks, chunk_table, from_repo, storage>>
      /\ DOMAIN storage' = Stored /\ \A d \in Stored : storage'[d] \in Versions
      /\ from_repo \in Seq(FromRepo) /\ to_repo \in Seq(PacketNames)
      /\ interests' \subseteq PacketNames
  BY DEF InterestArrives, program, counters, IInv, Types
<1>2. \A d \in Names : InOnePlace(Whole(d))
  BY DEF IInv, Once
<1>3. CASE n \in DOMAIN chunk_table /\ answers' = answers \cup {chunk_table[n]} /\ UNCHANGED to_repo
  <2> DEFINE q == chunk_table[n]
  <2>1. q.name = n /\ q.type \in {"metadata", "chunk"}
    BY <1>3, TableIs
  <2>2. \A m : /\ InAnswers(m)' => InAnswers(m) \/ m = n
               /\ ToRepository(m)' <=> ToRepository(m)
               /\ FromRepositorys(m)' <=> FromRepositorys(m)
    BY <1>1, <1>3, <2>1 DEF InAnswers, ToRepository, FromRepositorys
  <2>3. ASSUME NEW d \in Names  PROVE InOnePlace(Whole(d))'
    <3>1. \A p, r \in answers' : p.name = Whole(d) /\ r.name = Whole(d) => p = r
      BY <1>2, <1>3, <2>1 DEF InOnePlace, InAnswers
    <3>2. /\ Whole(d) \in interests' =>
                ~InAnswers(Whole(d))' /\ ~ToRepository(Whole(d))' /\ ~FromRepositorys(Whole(d))'
          /\ InAnswers(Whole(d))' => ~ToRepository(Whole(d))' /\ ~FromRepositorys(Whole(d))'
          /\ ToRepository(Whole(d))' => ~FromRepositorys(Whole(d))'
      BY <1>1, <1>2, <2>2 DEF InOnePlace
    <3> QED  BY <1>1, <1>2, <1>3, <3>1, <3>2 DEF InOnePlace
  <2>4. \A d \in Names : Quiet(Whole(d)) => Quiet(Whole(d))'
    BY <1>1, <2>2 DEF Quiet
  <2>5. \A p \in answers' \ answers : p = q
    BY <1>3
  <2> HIDE DEF q
  <2>6. \A p \in answers' \ answers :
              /\ p.name \in PacketNames
              /\ p.type = "nack" \/ Short(p) \/ p.type \in {"metadata", "chunk"}
              /\ p.type \in {"metadata", "chunk"} =>
                    p.name \in DOMAIN chunk_table /\ p = chunk_table[p.name]
    BY <1>1, <1>3, <2>1, <2>5 DEF q
  <2> QED  BY <1>1, <1>3, <2>2, <2>3, <2>4, <2>6, NetworkKeeps
<1>4. CASE n \notin DOMAIN chunk_table /\ to_repo' = Append(to_repo, n) /\ UNCHANGED answers
  <2>1. to_repo' \in Seq(PacketNames)
    BY <1>1, <1>4, Appended
  <2>2. PICK last \in DOMAIN to_repo' :
           /\ to_repo'[last] = n
           /\ \A k \in DOMAIN to_repo' \ {last} : k \in DOMAIN to_repo /\ to_repo'[k] = to_repo[k]
    BY <1>1, <1>4, Appended
  <2>3. \A m : /\ InAnswers(m)' <=> InAnswers(m)
               /\ ToRepository(m)' => ToRepository(m) \/ m = n
               /\ FromRepositorys(m)' <=> FromRepositorys(m)
    BY <1>1, <1>4, <2>2 DEF InAnswers, ToRepository, FromRepositorys
  <2>4. ASSUME NEW d \in Names  PROVE InOnePlace(Whole(d))'
    <3>1. \A j, k \in DOMAIN to_repo' : to_repo'[j] = Whole(d) /\ to_repo'[k] = Whole(d) => j = k
      BY <1>2, <2>2 DEF InOnePlace, ToRepository
    <3>2. /\ Whole(d) \in interests' =>
                ~InAnswers(Whole(d))' /\ ~ToRepository(Whole(d))' /\ ~FromRepositorys(Whole(d))'
          /\ InAnswers(Whole(d))' => ~ToRepository(Whole(d))' /\ ~FromRepositorys(Whole(d))'
          /\ ToRepository(Whole(d))' => ~FromRepositorys(Whole(d))'
      BY <1>1, <1>2, <2>3 DEF InOnePlace
    <3> QED  BY <1>1, <1>2, <1>4, <3>1, <3>2 DEF InOnePlace
  <2>5. \A d \in Names : Quiet(Whole(d)) => Quiet(Whole(d))'
    BY <1>1, <2>3 DEF Quiet
  <2>6. \A d \in Names : Whole(d) \in DOMAIN chunk_table =>
              /\ ~ToRepository(Whole(d)) => ~ToRepository(Whole(d))'
              /\ ~ToRepository(Whole(d)) /\ ~FromRepositorys(Whole(d)) => ~FromRepositorys(Whole(d))'
    BY <1>4, <2>3
  <2>7. answers' \ answers = {}
    BY <1>4
  <2> QED  BY <1>1, <2>1, <2>4, <2>5, <2>6, <2>7, NetworkKeeps
<1> QED  BY <1>3, <1>4 DEF InterestArrives

LEMMA RepeatKeeps ==
    ASSUME WholeAnsweredOnce, IInv, NEW n \in asked, Repeat(n)
    PROVE  IInv'
<1>1. /\ interests' = interests \cup {n} /\ n \in PacketNames
      /\ Repeated(n) \/ ~Travelling(n)
      /\ UNCHANGED <<request_table, asked, asks, answers, chunk_table, to_repo, from_repo, storage>>
      /\ DOMAIN storage' = Stored /\ \A d \in Stored : storage'[d] \in Versions
      /\ from_repo' \in Seq(FromRepo) /\ to_repo' \in Seq(PacketNames)
      /\ interests' \subseteq PacketNames
  BY DEF Repeat, program, repository, IInv, Types
<1>2. \A m : /\ InAnswers(m)' <=> InAnswers(m)
             /\ ToRepository(m)' <=> ToRepository(m)
             /\ FromRepositorys(m)' <=> FromRepositorys(m)
  BY <1>1 DEF InAnswers, ToRepository, FromRepositorys
<1>3. ASSUME NEW d \in Names  PROVE InOnePlace(Whole(d))'
  <2>1. InOnePlace(Whole(d))
    BY DEF IInv, Once
  <2>2. n = Whole(d) => ~InAnswers(n) /\ ~ToRepository(n) /\ ~FromRepositorys(n)
    BY <1>1 DEF WholeAnsweredOnce, Travelling, ToSet, InAnswers, ToRepository, FromRepositorys
  <2> QED  BY <1>1, <1>2, <2>1, <2>2 DEF InOnePlace
<1>4. \A d \in Names : Quiet(Whole(d)) => Quiet(Whole(d))'
  BY <1>1, <1>2 DEF Quiet
<1>5. answers' \ answers = {}
  BY <1>1
<1> QED  BY <1>1, <1>2, <1>3, <1>4, <1>5, NetworkKeeps

LEMMA LoseKeeps ==
    ASSUME IInv, Lose
    PROVE  IInv'
<1>1. /\ interests' \subseteq interests /\ answers' \subseteq answers
      /\ UNCHANGED <<request_table, asked, asks, chunk_table, to_repo, from_repo, storage>>
      /\ DOMAIN storage' = Stored /\ \A d \in Stored : storage'[d] \in Versions
      /\ from_repo' \in Seq(FromRepo) /\ to_repo' \in Seq(PacketNames)
      /\ interests' \subseteq PacketNames
  BY DEF Lose, program, repository, IInv, Types
<1>2. \A m : /\ InAnswers(m)' => InAnswers(m)
             /\ ToRepository(m)' <=> ToRepository(m)
             /\ FromRepositorys(m)' <=> FromRepositorys(m)
  BY <1>1 DEF InAnswers, ToRepository, FromRepositorys
<1>3. ASSUME NEW d \in Names  PROVE InOnePlace(Whole(d))'
  BY <1>1, <1>2 DEF IInv, Once, InOnePlace
<1>4. \A d \in Names : Quiet(Whole(d)) => Quiet(Whole(d))'
  BY <1>1, <1>2 DEF Quiet
<1>5. answers' \ answers = {}
  BY <1>1
<1> QED  BY <1>1, <1>2, <1>3, <1>4, <1>5, NetworkKeeps

(* What the repository answers.                                            *)
LEMMA FromRepoIs ==
    ASSUME NEW r \in FromRepo
    PROVE  /\ r.name \in PacketNames
           /\ \/ r.type = "nack" /\ r = Nack(r.name)
              \/ /\ r.type = "content" /\ r.name.of \in Names /\ r.name = Whole(r.name.of)
                 /\ r.body \in Versions
<1>1. CASE r \in {Nack(n) : n \in PacketNames}
  BY <1>1, NackOf
<1>2. CASE r \in {Packet(Whole(d), "content", v) : d \in Names, v \in Versions}
  <2>1. PICK d \in Names, v \in Versions : r = Packet(Whole(d), "content", v)
    BY <1>2
  <2>2. r.name = Whole(d) /\ r.type = "content" /\ r.body = v
    BY <2>1 DEF Packet
  <2> QED  BY <2>2, WholesDiffer
<1> QED  BY <1>1, <1>2 DEF FromRepo

LEMMA RepositoryKeeps ==
    ASSUME IInv, Repository
    PROVE  IInv'
<1>0. PICK n, r : n = Head(to_repo) /\ r = IF is_content_available(n) THEN get_content(n) ELSE Nack(n)
  OBVIOUS
<1>1. /\ to_repo # << >> /\ to_repo' = Tail(to_repo) /\ from_repo' = Append(from_repo, r)
      /\ UNCHANGED <<request_table, asked, asks, chunk_table, interests, answers, storage>>
      /\ DOMAIN storage' = Stored /\ \A d \in Stored : storage'[d] \in Versions
      /\ DOMAIN storage = Stored /\ \A d \in Stored : storage[d] \in Versions
      /\ from_repo \in Seq(FromRepo) /\ to_repo \in Seq(PacketNames)
      /\ interests' \subseteq PacketNames
  BY <1>0 DEF Repository, program, network, counters, IInv, Types
<1>2. /\ to_repo' \in Seq(PacketNames) /\ n \in PacketNames /\ 1 \in DOMAIN to_repo /\ n = to_repo[1]
      /\ \A k \in DOMAIN to_repo' : k + 1 \in DOMAIN to_repo /\ k + 1 # 1 /\ to_repo'[k] = to_repo[k + 1]
      /\ \A j, k \in DOMAIN to_repo' : j + 1 = k + 1 => j = k
  BY <1>0, <1>1, Tailed
<1>3. r.name = n /\ r \in FromRepo
  <2>1. CASE is_content_available(n)
    <3>1. n.kind = "w" /\ n.of \in Stored
      BY <1>1, <2>1 DEF is_content_available
    <3>2. n.of \in Names /\ n.num \in Nat /\ storage[n.of] \in Versions
      BY <1>1, <1>2, <3>1 DEF PacketNames
    <3>3. r = Packet(n, "content", storage[n.of])
      BY <1>0, <2>1 DEF get_content
    <3>4. n = Whole(n.of)
      BY <1>2, <3>1 DEF PacketNames, Whole
    <3> QED  BY <3>2, <3>3, <3>4 DEF FromRepo, Packet
  <2>2. CASE ~is_content_available(n)
    BY <1>0, <1>2, <2>2, NackOf DEF FromRepo
  <2> QED  BY <2>1, <2>2
<1>4. from_repo' \in Seq(FromRepo)
  BY <1>1, <1>3, Appended
<1>5. PICK last \in DOMAIN from_repo' :
         /\ from_repo'[last] = r
         /\ \A k \in DOMAIN from_repo' \ {last} : k \in DOMAIN from_repo /\ from_repo'[k] = from_repo[k]
  BY <1>1, <1>3, Appended
<1>6. \A m : /\ InAnswers(m)' <=> InAnswers(m)
             /\ ToRepository(m)' => ToRepository(m)
             /\ FromRepositorys(m)' => FromRepositorys(m) \/ m = n
  BY <1>1, <1>2, <1>3, <1>5 DEF InAnswers, ToRepository, FromRepositorys
<1>7. ToRepository(n)
  BY <1>2 DEF ToRepository
<1>8. ASSUME NEW d \in Names  PROVE InOnePlace(Whole(d))'
  <2>1. InOnePlace(Whole(d))
    BY DEF IInv, Once
  <2>2. n = Whole(d) => ~ToRepository(n)'
    BY <1>2, <2>1 DEF InOnePlace, ToRepository
  <2>3. \A j, k \in DOMAIN to_repo' : to_repo'[j] = Whole(d) /\ to_repo'[k] = Whole(d) => j = k
    BY <1>2, <2>1 DEF InOnePlace
  <2>4. \A j, k \in DOMAIN from_repo' :
            from_repo'[j].name = Whole(d) /\ from_repo'[k].name = Whole(d) => j = k
    BY <1>3, <1>5, <1>7, <2>1 DEF InOnePlace, FromRepositorys
  <2>5. /\ Whole(d) \in interests' =>
              ~InAnswers(Whole(d))' /\ ~ToRepository(Whole(d))' /\ ~FromRepositorys(Whole(d))'
        /\ InAnswers(Whole(d))' => ~ToRepository(Whole(d))' /\ ~FromRepositorys(Whole(d))'
        /\ ToRepository(Whole(d))' => ~FromRepositorys(Whole(d))'
    BY <1>1, <1>6, <1>7, <2>1, <2>2 DEF InOnePlace
  <2> QED  BY <1>1, <2>1, <2>3, <2>4, <2>5 DEF InOnePlace
<1>9. \A d \in Names : Quiet(Whole(d)) => Quiet(Whole(d))'
  BY <1>1, <1>6, <1>7 DEF Quiet
<1>10. \A d \in Names :
          /\ ~ToRepository(Whole(d)) => ~ToRepository(Whole(d))'
          /\ ~ToRepository(Whole(d)) /\ ~FromRepositorys(Whole(d)) => ~FromRepositorys(Whole(d))'
  BY <1>6, <1>7
<1>11. answers' \ answers = {}
  BY <1>1
<1> QED  BY <1>1, <1>2, <1>4, <1>8, <1>9, <1>10, <1>11, NetworkKeeps

(* Where whole contents are when the first answer of the repository        *)
(* becomes an answer p of the same name.                                   *)
LEMMA HandedDown ==
    ASSUME IInv, from_repo # << >>, from_repo' = Tail(from_repo),
           UNCHANGED <<interests, to_repo, asked>>,
           NEW p, p.name = Head(from_repo).name, answers' = answers \cup {p}
    PROVE  /\ from_repo' \in Seq(FromRepo) /\ Head(from_repo) \in FromRepo
           /\ FromRepositorys(p.name)
           /\ \A m : /\ InAnswers(m)' => InAnswers(m) \/ m = p.name
                     /\ ToRepository(m)' <=> ToRepository(m)
                     /\ FromRepositorys(m)' => FromRepositorys(m)
           /\ \A d \in Names : InOnePlace(Whole(d))'
           /\ \A d \in Names : Quiet(Whole(d)) => Quiet(Whole(d))'
           /\ \A d \in Names : p.name = Whole(d) => ~FromRepositorys(Whole(d))'
<1>1. /\ from_repo' \in Seq(FromRepo) /\ Head(from_repo) \in FromRepo
      /\ 1 \in DOMAIN from_repo /\ Head(from_repo) = from_repo[1]
      /\ \A k \in DOMAIN from_repo' :
            k + 1 \in DOMAIN from_repo /\ k + 1 # 1 /\ from_repo'[k] = from_repo[k + 1]
      /\ \A j, k \in DOMAIN from_repo' : j + 1 = k + 1 => j = k
  BY Tailed DEF IInv, Types
<1>2. FromRepositorys(p.name)
  BY <1>1 DEF FromRepositorys
<1>3. \A m : /\ InAnswers(m)' => InAnswers(m) \/ m = p.name
             /\ ToRepository(m)' <=> ToRepository(m)
             /\ FromRepositorys(m)' => FromRepositorys(m)
  BY <1>1 DEF InAnswers, ToRepository, FromRepositorys
<1>4. ASSUME NEW d \in Names
      PROVE  InOnePlace(Whole(d))' /\ (p.name = Whole(d) => ~FromRepositorys(Whole(d))')
  <2>1. InOnePlace(Whole(d))
    BY DEF IInv, Once
  <2>2. p.name = Whole(d) => ~FromRepositorys(Whole(d))'
    BY <1>1, <2>1 DEF InOnePlace, FromRepositorys
  <2>3. \A q, r \in answers' : q.name = Whole(d) /\ r.name = Whole(d) => q = r
    BY <1>2, <2>1 DEF InOnePlace, InAnswers
  <2>4. \A j, k \in DOMAIN from_repo' :
            from_repo'[j].name = Whole(d) /\ from_repo'[k].name = Whole(d) => j = k
    BY <1>1, <2>1 DEF InOnePlace
  <2>5. /\ Whole(d) \in interests' =>
              ~InAnswers(Whole(d))' /\ ~ToRepository(Whole(d))' /\ ~FromRepositorys(Whole(d))'
        /\ InAnswers(Whole(d))' => ~ToRepository(Whole(d))' /\ ~FromRepositorys(Whole(d))'
        /\ ToRepository(Whole(d))' => ~FromRepositorys(Whole(d))'
    BY <1>2, <1>3, <2>1, <2>2 DEF InOnePlace
  <2> QED  BY <2>1, <2>2, <2>3, <2>4, <2>5 DEF InOnePlace
<1>5. \A d \in Names : Quiet(Whole(d)) => Quiet(Whole(d))'
  BY <1>2, <1>3 DEF Quiet
<1> QED  BY <1>1, <1>2, <1>3, <1>4, <1>5

LEMMA FromRepositoryKeeps ==
    ASSUME IInv, FromRepository
    PROVE  IInv'
<1>0. PICK r, d : r = Head(from_repo) /\ d = r.name.of
  OBVIOUS
<1>1. /\ from_repo # << >> /\ from_repo' = Tail(from_repo) /\ from_repo \in Seq(FromRepo)
      /\ UNCHANGED <<request_table, asked, asks, interests, to_repo, storage>>
      /\ DOMAIN storage' = Stored /\ \A c \in Stored : storage'[c] \in Versions
      /\ interests' \subseteq PacketNames /\ to_repo' \in Seq(PacketNames)
  BY DEF FromRepository, program, counters, IInv, Types
<1>2. r \in FromRepo
  BY <1>0, <1>1, Tailed
<1>3. ASSUME NEW p, p.name = r.name, answers' = answers \cup {p}, UNCHANGED chunk_table,
             p.type = "nack" \/ Short(p), p.type \notin {"metadata", "chunk"}
      PROVE  IInv'
  <2>1. /\ from_repo' \in Seq(FromRepo)
        /\ \A m : /\ ToRepository(m)' <=> ToRepository(m)
                  /\ FromRepositorys(m)' => FromRepositorys(m)
        /\ \A c \in Names : InOnePlace(Whole(c))'
        /\ \A c \in Names : Quiet(Whole(c)) => Quiet(Whole(c))'
    BY <1>0, <1>1, <1>3, HandedDown
  <2>2. r.name \in PacketNames
    BY <1>2, FromRepoIs
  <2>3. \A q \in answers' \ answers : q = p
    BY <1>3
  <2> QED  BY <1>1, <1>3, <2>1, <2>2, <2>3, NetworkKeeps
<1>4. CASE r.type = "nack" /\ answers' = answers \cup {r} /\ UNCHANGED chunk_table
  BY <1>3, <1>4
<1>5. CASE /\ r.type = "content" /\ NumChunks[d][r.body] = 0
           /\ answers' = answers \cup {[r EXCEPT !.body = SetToBag({<<r.body, 0>>})]}
           /\ UNCHANGED chunk_table
  <2>1. d \in Names /\ r.name = Whole(d) /\ r.body \in Versions
    BY <1>0, <1>2, <1>5, FromRepoIs
  <2>2. PICK v \in Versions : r = Packet(Whole(d), "content", v)
    <3>1. ASSUME NEW n \in PacketNames, r = Nack(n)  PROVE FALSE
      BY <1>5, <3>1, NackOf
    <3>2. PICK c \in Names, v \in Versions : r = Packet(Whole(c), "content", v)
      BY <1>2, <3>1 DEF FromRepo
    <3>3. Whole(c) = Whole(d)
      BY <2>1, <3>2 DEF Packet
    <3> QED  BY <3>2, <3>3
  <2>3. PICK p : p = [r EXCEPT !.body = SetToBag({<<r.body, 0>>})]
    OBVIOUS
  <2>4. p = Packet(Whole(d), "content", SetToBag({<<v, 0>>})) /\ r.body = v
    BY <2>2, <2>3 DEF Packet
  <2>5. Short(p) /\ p.type = "content" /\ p.name = r.name
    BY <1>5, <2>1, <2>4 DEF Short, Packet
  <2> QED  BY <1>3, <1>5, <2>3, <2>5
<1>6. CASE /\ r.type = "content" /\ NumChunks[d][r.body] > 0
           /\ answers' = answers \cup {generate_meta_data(d, NumChunks[d][r.body], 0)}
           /\ chunk_table' = Extended(d, r.body)
  <2>1. d \in Names /\ r.name = Whole(d) /\ r.body \in Versions
    BY <1>0, <1>2, <1>6, FromRepoIs
  <2>2. PICK v \in Versions : v = r.body
    BY <2>1
  <2>3. PICK p : p = generate_meta_data(d, NumChunks[d][v], 0)
    OBVIOUS
  <2>4. p.name = Whole(d) /\ p.type = "metadata" /\ p \in chunk_data(d, v)
    BY <1>6, <2>1, <2>2, <2>3, SplitHas
  <2>5. answers' = answers \cup {p} /\ chunk_table' = Extended(d, v)
    BY <1>6, <2>2, <2>3
  <2>6. /\ from_repo' \in Seq(FromRepo) /\ FromRepositorys(Whole(d))
        /\ \A m : /\ ToRepository(m)' <=> ToRepository(m)
                  /\ FromRepositorys(m)' => FromRepositorys(m)
        /\ \A c \in Names : InOnePlace(Whole(c))'
        /\ \A c \in Names : Quiet(Whole(c)) => Quiet(Whole(c))'
        /\ ~FromRepositorys(Whole(d))'
    BY <1>0, <1>1, <2>1, <2>4, <2>5, HandedDown
  <2>7. Uncut(d)
    BY <2>1, <2>6 DEF IInv, OneVersion, Cut
  <2>8. /\ Whole(d) \in DOMAIN Split(d, v)
        /\ \A n \in DOMAIN Split(d, v) :
              /\ Split(d, v)[n] \in chunk_data(d, v) /\ Split(d, v)[n].name = n
              /\ n \in PacketNames /\ n.of = d
    BY <1>6, <2>1, <2>2, SplitHas
  <2>9. /\ DOMAIN chunk_table' = DOMAIN chunk_table \cup DOMAIN Split(d, v)
        /\ \A n \in DOMAIN chunk_table : chunk_table'[n] = chunk_table[n]
        /\ \A n \in DOMAIN Split(d, v) : chunk_table'[n] = Split(d, v)[n]
    <3>1. \A n \in DOMAIN Split(d, v) : n \notin DOMAIN chunk_table
      BY <2>7, <2>8 DEF Uncut
    <3> HIDE DEF Split
    <3> QED  BY <2>5, <3>1 DEF Extended
  <2>10. Types'
    <3>1. DOMAIN chunk_table' \subseteq PacketNames
      BY <2>8, <2>9 DEF IInv, Types
    <3>2. \A q \in answers' :
             /\ q.name \in PacketNames
             /\ q.type = "nack" \/ Short(q) \/ q.type \in {"metadata", "chunk"}
      BY <2>1, <2>4, <2>5, WholesDiffer DEF IInv, Types
    <3> QED  BY <1>1, <2>6, <3>1, <3>2 DEF IInv, Types
  <2>11. Once'
    BY <1>1, <2>6 DEF IInv, Once
  <2>12. AwaitedIsAsked'
    BY <1>1 DEF IInv, AwaitedIsAsked
  <2>13. Cut(d, v)'
    <3>1. NumChunks[d][v] > 0 /\ Whole(d) \in DOMAIN chunk_table'
      BY <1>6, <2>2, <2>8, <2>9
    <3>2. ~ToRepository(Whole(d))' /\ ~FromRepositorys(Whole(d))'
      <4>1. InOnePlace(Whole(d))
        BY <2>1 DEF IInv, Once
      <4> QED  BY <2>6, <4>1 DEF InOnePlace
    <3>3. \A n \in DOMAIN chunk_table' :
             n.of = d => chunk_table'[n] \in chunk_data(d, v) /\ chunk_table'[n].name = n
      BY <2>7, <2>8, <2>9 DEF Uncut
    <3>4. \A q \in answers' : Piece(q, d) => q \in chunk_data(d, v)
      BY <2>4, <2>5, <2>7 DEF Uncut
    <3>5. ~(d \in DOMAIN request_table' /\ request_table'[d].chunked)
      BY <1>1, <2>7 DEF Uncut
    <3> QED  BY <3>1, <3>2, <3>3, <3>4, <3>5 DEF Cut
  <2>14. ASSUME NEW c \in Names \ {d}
         PROVE  /\ Uncut(c) => Uncut(c)'
                /\ \A u \in Versions : Cut(c, u) => Cut(c, u)'
    <3>1. \A n \in DOMAIN chunk_table' :
              n.of = c => n \in DOMAIN chunk_table /\ chunk_table'[n] = chunk_table[n]
      BY <2>8, <2>9
    <3>2. \A q \in answers' : Piece(q, c) => q \in answers
      BY <2>4, <2>5, WholesDiffer DEF Piece
    <3>3. Uncut(c) => Uncut(c)'
      BY <1>1, <3>1, <3>2 DEF Uncut
    <3>4. ASSUME NEW u \in Versions, Cut(c, u)  PROVE Cut(c, u)'
      <4>1. ~ToRepository(Whole(c))' /\ ~FromRepositorys(Whole(c))'
        BY <2>6, <3>4 DEF Cut
      <4> QED  BY <1>1, <2>9, <3>1, <3>2, <3>4, <4>1 DEF Cut
    <3> QED  BY <3>3, <3>4
  <2>15. OneVersion'
    BY <2>13, <2>14 DEF IInv, OneVersion
  <2> QED  BY <2>10, <2>11, <2>12, <2>15 DEF IInv
<1> QED  BY <1>0, <1>4, <1>5, <1>6 DEF FromRepository

LEMMA UpdateKeeps ==
    ASSUME IInv, NEW d \in Stored, NEW v \in Versions, Update(d, v)
    PROVE  IInv'
<1>1. /\ storage' = [storage EXCEPT ![d] = v]
      /\ UNCHANGED <<request_table, asked, asks, interests, answers, chunk_table, to_repo, from_repo>>
      /\ interests' \subseteq PacketNames
      /\ from_repo' \in Seq(FromRepo) /\ to_repo' \in Seq(PacketNames)
  BY DEF Update, program, network, IInv, Types
<1>2. DOMAIN storage' = Stored /\ \A c \in Stored : storage'[c] \in Versions
  BY <1>1 DEF IInv, Types
<1>3. \A m : /\ InAnswers(m)' <=> InAnswers(m)
             /\ ToRepository(m)' <=> ToRepository(m)
             /\ FromRepositorys(m)' <=> FromRepositorys(m)
  BY <1>1 DEF InAnswers, ToRepository, FromRepositorys
<1>4. \A c \in Names : InOnePlace(Whole(c))'
  BY <1>1, <1>3 DEF IInv, Once, InOnePlace
<1>5. \A c \in Names : Quiet(Whole(c)) => Quiet(Whole(c))'
  BY <1>1, <1>3 DEF Quiet
<1>6. answers' \ answers = {}
  BY <1>1
<1> QED  BY <1>1, <1>2, <1>3, <1>4, <1>5, <1>6, NetworkKeeps

(* Steps that change nothing the invariant is about.                       *)
LEMMA StutterKeeps ==
    ASSUME IInv, UNCHANGED <<request_table, asked, asks, network, repository>>
    PROVE  IInv'
BY DEF IInv, Types, Once, InOnePlace, Quiet, InAnswers, ToRepository, FromRepositorys,
       OneVersion, Uncut, Cut, AwaitedIsAsked, network, repository

-----------------------------------------------------------------------------
(* The invariant *)

LEMMA InitIInv ==
    ASSUME FetchedOnce, Init
    PROVE  IInv
<1>1. /\ asks \in [Names -> Nat] /\ \A d \in Names : asks[d] \in {0, 1}
  <2>1. asks \in Wanted /\ asks \in [Names -> Nat]
    BY ChunkAssumption DEF ChunkAssumption, Init
  <2> QED  BY <2>1 DEF FetchedOnce
<1>2. /\ request_table = << >> /\ asked = {} /\ interests = {} /\ answers = {}
      /\ chunk_table = << >> /\ to_repo = << >> /\ from_repo = << >>
      /\ storage = [d \in Stored |-> 1] /\ DOMAIN << >> = {}
  BY DEF Init
<1>3. \A n : Quiet(n) /\ InOnePlace(n)
  BY <1>2 DEF Quiet, InOnePlace, InAnswers, ToRepository, FromRepositorys
<1>4. Types
  BY <1>1, <1>2, ChunkAssumption DEF ChunkAssumption, Types
<1>5. Once
  BY <1>1, <1>2, <1>3 DEF Once
<1>6. OneVersion
  BY <1>2 DEF OneVersion, Uncut
<1>7. AwaitedIsAsked
  BY <1>2 DEF AwaitedIsAsked
<1> QED  BY <1>4, <1>5, <1>6, <1>7 DEF IInv

LEMMA NextIInv ==
    ASSUME WholeAnsweredOnce, IInv, [Next]_vars
    PROVE  IInv'
<1>1. CASE \E d \in Names : Fetch(d)
  BY <1>1, FetchKeeps
<1>2. CASE Take
  BY <1>2, StutterKeeps DEF Take, counters
<1>3. CASE Repository
  BY <1>3, RepositoryKeeps
<1>4. CASE FromRepository
  BY <1>4, FromRepositoryKeeps
<1>5. CASE Lose
  BY <1>5, LoseKeeps
<1>6. ASSUME NEW p \in answers, Receive(p)  PROVE IInv'
  <2>1. p.name \in PacketNames
    BY DEF IInv, Types
  <2> QED  BY <1>6, <2>1, EffectOfReceive, EffectKeeps
<1>7. CASE \E n \in asked : Repeat(n)
  BY <1>7, RepeatKeeps
<1>8. ASSUME NEW n \in asked, GiveUp(n)  PROVE IInv'
  <2>1. n \in PacketNames
    BY DEF IInv, Types
  <2> QED  BY <1>8, <2>1, EffectOfGiveUp, EffectKeeps
<1>9. CASE \E n \in interests : InterestArrives(n)
  BY <1>9, InterestArrivesKeeps
<1>10. CASE \E d \in Stored, v \in Versions : Update(d, v)
  BY <1>10, UpdateKeeps
<1>11. CASE UNCHANGED vars
  BY <1>11, StutterKeeps DEF vars, program, counters
<1> QED  BY <1>1, <1>2, <1>3, <1>4, <1>5, <1>6, <1>7, <1>8, <1>9, <1>10, <1>11 DEF Next

LEMMA AlwaysIInv ==
    ASSUME WholeAnsweredOnce, FetchedOnce
    PROVE  Spec => []IInv
<1>1. Init => IInv
  BY InitIInv
<1>2. IInv /\ [Next]_vars => IInv'
  BY NextIInv
<1> QED  BY <1>1, <1>2, PTL DEF Spec

(* Whatever an entry of the program's request table waits for, its timeout *)
(* prevention layer goes on asking for, until it is answered or given up:  *)
(* a fetch is never stuck with something missing that nobody asks for.     *)
THEOREM AwaitedIsAskedCorrect ==
    ASSUME WholeAnsweredOnce, FetchedOnce
    PROVE  Spec => []AwaitedIsAsked
<1>1. IInv => AwaitedIsAsked
  BY DEF IInv
<1> QED  BY <1>1, AlwaysIInv, PTL

-----------------------------------------------------------------------------
(* The refinement *)

LEMMA RefusalStep ==
    ASSUME NEW n, n.of \in Names, content' = content,
           request_table' = Dropped(n.of) \/ request_table' = request_table
    PROVE  [F!Next]_<<DOMAIN request_table, content>>
<1>1. CASE request_table' = Dropped(n.of)
  <2>1. DOMAIN request_table' = DOMAIN request_table \ {n.of}
    BY <1>1 DEF Dropped
  <2>2. F!Refuse(n.of)
    BY <2>1 DEF F!Refuse
  <2> QED  BY <2>2 DEF F!Next
<1>2. CASE request_table' = request_table
  BY <1>2
<1> QED  BY <1>1, <1>2

LEMMA DeliveryStep ==
    ASSUME NEW d \in Names, d \in DOMAIN request_table, request_table' = Dropped(d),
           NEW v \in Versions, content' = [name |-> d, chunks |-> SetToBag(ChunksOf(d, v))]
    PROVE  F!Next
<1>1. DOMAIN request_table' = DOMAIN request_table \ {d}
  BY DEF Dropped
<1>2. F!Deliver(d)
  BY <1>1 DEF F!Deliver, F!SetToBag, SetToBag
<1> QED  BY <1>2 DEF F!Next

LEMMA ReceiveStep ==
    ASSUME IInv, NEW p \in answers, Receive(p)
    PROVE  [F!Next]_<<DOMAIN request_table, content>>
<1> DEFINE d == p.name.of
<1>1. d \in Names
  BY WholesDiffer DEF IInv, Types
<1>2. CASE WholeArrives(p)
  <2>1. /\ p.type = "content" /\ d \in DOMAIN request_table /\ request_table' = Dropped(d)
        /\ content' = [name |-> d, chunks |-> p.body]
    BY <1>2 DEF WholeArrives, Requests
  <2>2. PICK v \in Versions : p.body = SetToBag(ChunksOf(d, v))
    BY <2>1, ShortIs DEF IInv, Types
  <2> QED  BY <1>1, <2>1, <2>2, DeliveryStep
<1>3. CASE MetadataArrives(p)
  <2>1. p.type = "metadata" /\ content' = content
    BY <1>3 DEF MetadataArrives
  <2>2. PICK v \in Versions : Cut(d, v)
    BY <2>1, PieceIs DEF IInv
  <2>3. DOMAIN request_table' = DOMAIN request_table
    BY <1>3, <2>2, MetadataStep DEF IInv
  <2> QED  BY <2>1, <2>3
<1>4. CASE ChunkArrives(p)
  <2>1. /\ d \in DOMAIN request_table
        /\ \/ /\ request_table' = Dropped(d)
              /\ \E v \in Versions : content' = [name |-> d, chunks |-> SetToBag(ChunksOf(d, v))]
           \/ DOMAIN request_table' = DOMAIN request_table /\ content' = content
    BY <1>4, ChunkStep DEF IInv
  <2> QED  BY <1>1, <2>1, DeliveryStep
<1>5. CASE Unexpected(p)
  BY <1>5 DEF Unexpected
<1>6. CASE NackArrives(p)
  BY <1>1, <1>6, RefusalStep DEF NackArrives
<1> QED  BY <1>2, <1>3, <1>4, <1>5, <1>6 DEF Receive, FromNetwork

LEMMA FetchStep ==
    ASSUME NEW d \in Names, Fetch(d)
    PROVE  [F!Next]_<<DOMAIN request_table, content>>
<1>1. DOMAIN request_table' = DOMAIN request_table \cup {d} /\ content' = content
  BY WholesDiffer DEF Fetch, With, Requests
<1>2. F!Ask(d)
  BY <1>1 DEF F!Ask
<1> QED  BY <1>2 DEF F!Next

(* The chunk layer of the program keeps the promise of FetchSpec: what it  *)
(* hands up is the whole content, of one version, of a name that was asked *)
(* for and had not been answered, however packets are lost and reordered,  *)
(* and although the repository's content changes in between.               *)
THEOREM IsFetchCorrect ==
    ASSUME WholeAnsweredOnce, FetchedOnce
    PROVE  Spec => IsFetch
<1>1. Init => F!Init
  BY DEF Init, F!Init, F!EmptyBag, EmptyBag, F!SetToBag, SetToBag
<1>2. ASSUME IInv, [Next]_vars
      PROVE  [F!Next]_<<DOMAIN request_table, content>>
  <2>1. CASE \E d \in Names : Fetch(d)
    BY <2>1, FetchStep
  <2>2. CASE Take \/ Repository \/ FromRepository \/ Lose
    BY <2>2 DEF Take, Repository, FromRepository, Lose, program
  <2>3. CASE \E p \in answers : Receive(p)
    BY <1>2, <2>3, ReceiveStep
  <2>4. CASE \E n \in asked : Repeat(n)
    BY <2>4 DEF Repeat, program
  <2>5. ASSUME NEW n \in asked, GiveUp(n)  PROVE [F!Next]_<<DOMAIN request_table, content>>
    <3>1. n.of \in Names
      BY <1>2, WholesDiffer DEF IInv, Types
    <3>2. /\ content' = content
          /\ request_table' = Dropped(n.of) \/ request_table' = request_table
      BY <2>5, NackOf DEF GiveUp, NackArrives
    <3> QED  BY <3>1, <3>2, RefusalStep
  <2>6. CASE \E n \in interests : InterestArrives(n)
    BY <2>6 DEF InterestArrives, program
  <2>7. CASE \E d \in Stored, v \in Versions : Update(d, v)
    BY <2>7 DEF Update, program
  <2>8. CASE UNCHANGED vars
    BY <2>8 DEF vars, program
  <2> QED  BY <1>2, <2>1, <2>2, <2>3, <2>4, <2>5, <2>6, <2>7, <2>8 DEF Next
<1> QED  BY <1>1, <1>2, AlwaysIInv, PTL DEF Spec, IsFetch, F!Spec

===============================================================================

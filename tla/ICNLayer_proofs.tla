--------------------------- MODULE ICNLayer_proofs ---------------------------
(***************************************************************************)
(* Proofs about ICNLayer, for any names, faces, routes and applications,   *)
(* and about ICNNeighbours, the same layer among neighbours that answer    *)
(* what they are asked.                                                    *)
(***************************************************************************)
EXTENDS ICNNeighbours, SequenceTheorems, FiniteSetTheorems, TLAPS

-----------------------------------------------------------------------------
(* Lemmas about the operators of the tables (ICNTables).                   *)

(* A non-empty set of positions of a finite sequence that is ordered by a  *)
(* total strict order has a greatest element; the order is given by the    *)
(* set above[k] of the positions that come after k.                        *)
LEMMA GreatestPosition ==
    ASSUME NEW m \in Nat, NEW U, U \subseteq 1 .. m, U # {},
           NEW above \in [U -> SUBSET U],
           \A k \in U : k \notin above[k],
           \A j, k \in U : j \in above[k] => above[j] \subseteq above[k]
    PROVE  \E k \in U : above[k] = {}
<1> DEFINE T == {above[k] : k \in U}
<1>1. IsFiniteSet(U)
  <2>1. IsFiniteSet(1 .. m) /\ U \in SUBSET (1 .. m)
    BY FS_Interval
  <2> QED BY <2>1, FS_Subset, Zenon
<1>2. T \subseteq FiniteSubsetsOf(U) /\ T # {}
  <2>1. \A k \in U : above[k] \in SUBSET U /\ above[k] \in T
    BY Zenon
  <2>2. T \subseteq SUBSET U /\ T # {}
    <3>1. T # {}
      BY <2>1, Zenon
    <3>2. ASSUME NEW x \in T PROVE x \in SUBSET U
      <4>1. PICK k \in U : x = above[k]
        BY Zenon
      <4> QED BY <2>1, <4>1
    <3> QED BY <3>1, <3>2
  <2>3. FiniteSubsetsOf(U) = SUBSET U
    BY <1>1, FS_FiniteSubsetsOfFinite, Zenon
  <2> QED BY <2>2, <2>3
<1>3. PICK k \in U : \A j \in U :
          ~ (<<above[j], above[k]>> \in StrictSubsetOrdering(U))
  <2>1. PICK x \in T : \A y \in T : ~ (<<y, x>> \in StrictSubsetOrdering(U))
    BY <1>2, WFMin, FS_StrictSubsetOrderingWellFounded, Zenon
  <2> QED BY <2>1, Zenon
<1>4. SUFFICES ASSUME NEW j \in above[k] PROVE FALSE
  BY ZenonT(60)
<1>5. j \in U /\ above[j] \subseteq above[k] /\ above[j] # above[k]
  BY <1>4
<1> QED BY <1>3, <1>5 DEF StrictSubsetOrdering

(* The entry find_fib_entry stops at.                                      *)
BestOf(entries, n, used, incoming) ==
    CHOOSE k \in Usable(entries, n, used, incoming) :
        \A j \in Usable(entries, n, used, incoming) :
            \/ Len(entries[j].name) < Len(entries[k].name)
            \/ Len(entries[j].name) = Len(entries[k].name) /\ k <= j

LEMMA FindFibIs ==
    ASSUME NEW entries, NEW n, NEW used, NEW incoming
    PROVE  FindFib(entries, n, used, incoming) =
               IF Usable(entries, n, used, incoming) = {} THEN None
               ELSE LET best == BestOf(entries, n, used, incoming)
                    IN  [name |-> entries[best].name, faceid |-> entries[best].faceid \ incoming]
BY DEF FindFib, BestOf

LEMMA BestUsable ==
    ASSUME NEW entries \in Seq(FibEntry), NEW n, NEW used, NEW incoming,
           Usable(entries, n, used, incoming) # {}
    PROVE  BestOf(entries, n, used, incoming) \in Usable(entries, n, used, incoming)
<1> DEFINE U == Usable(entries, n, used, incoming)
           Best(k) == \A j \in U :
                    \/ Len(entries[j].name) < Len(entries[k].name)
                    \/ Len(entries[j].name) = Len(entries[k].name) /\ k <= j
<1>1. U \subseteq 1 .. Len(entries) /\ Len(entries) \in Nat
  BY DEF Usable
<1>2. \A k \in U : entries[k] \in FibEntry
  BY <1>1, ElementOfSeq
<1>3. \A k \in U : Len(entries[k].name) \in Nat
  BY <1>2, NamesAssumption DEF FibEntry
<1> DEFINE above == [k \in U |-> {j \in U :
               \/ Len(entries[j].name) > Len(entries[k].name)
               \/ Len(entries[j].name) = Len(entries[k].name) /\ j < k}]
<1>4. PICK k \in U : above[k] = {}
  <2>1. above \in [U -> SUBSET U]
    OBVIOUS
  <2>2. \A k \in U : k \notin above[k]
    BY <1>1, <1>3
  <2>3. \A j, k \in U : j \in above[k] => above[j] \subseteq above[k]
    BY <1>1, <1>3
  <2> HIDE DEF above, U
  <2> QED BY <1>1, <2>1, <2>2, <2>3, GreatestPosition, Zenon DEF U
<1>5. Best(k)
  BY <1>1, <1>3, <1>4
<1> DEFINE best == CHOOSE i \in U : Best(i)
<1>6. best \in U
  BY <1>5
<1> QED BY <1>6 DEF BestOf

(* find_fib_entry returns nothing, or a prefix of a FIB entry with some of *)
(* the faces of that entry, and never a face the interest came from.       *)
LEMMA FindFibRoute ==
    ASSUME NEW entries \in Seq(FibEntry), NEW n, NEW used, NEW incoming
    PROVE  LET route == FindFib(entries, n, used, incoming) IN
           route # None =>
               /\ route \in Route
               /\ route.faceid \cap incoming = {}
<1> DEFINE best == BestOf(entries, n, used, incoming)
<1>1. CASE Usable(entries, n, used, incoming) = {}
  BY <1>1, FindFibIs
<1>2. CASE Usable(entries, n, used, incoming) # {}
  <2>1. best \in 1 .. Len(entries) /\ Len(entries) \in Nat
    BY <1>2, BestUsable DEF Usable
  <2>2. FindFib(entries, n, used, incoming) =
            [name |-> entries[best].name, faceid |-> entries[best].faceid \ incoming]
    BY <1>2, FindFibIs
  <2> HIDE DEF best
  <2>3. entries[best].name \in Prefixes /\ entries[best].faceid \in SUBSET Faces
    <3>1. entries[best] \in FibEntry
      BY <2>1, ElementOfSeq
    <3> QED BY <3>1 DEF FibEntry
  <2>4. entries[best].faceid \ incoming \in SUBSET Faces
    BY <2>3
  <2> QED BY <2>2, <2>3, <2>4 DEF Route
<1> QED BY <1>1, <1>2

-----------------------------------------------------------------------------
(* PIT entries *)

(* The faces of the consumers of an entry are faces of the link layer.     *)
LEMMA NetworkFacesType ==
    ASSUME NEW e \in PitEntry
    PROVE  NetworkFaces(e) \subseteq Faces
BY DEF NetworkFaces, LocalApps, PitEntry, Requester

LEMMA PairShape ==
    ASSUME NEW A, NEW B, NEW r \in A \X B
    PROVE  r = <<r[1], r[2]>> /\ r[1] \in A /\ r[2] \in B
OBVIOUS

LEMMA RequesterShape ==
    ASSUME NEW e \in PitEntry, NEW r \in e.faces
    PROVE  \/ r[1] \in Faces /\ r = <<r[1], FALSE>> /\ r[2] = FALSE
           \/ r[1] \in AppIds /\ r = <<r[1], TRUE>> /\ r[2] = TRUE
<1>1. r \in Faces \X {FALSE} \/ r \in AppIds \X {TRUE}
  BY DEF PitEntry, Requester
<1>2. CASE r \in Faces \X {FALSE}
  <2>1. r = <<r[1], r[2]>> /\ r[1] \in Faces /\ r[2] \in {FALSE}
    BY <1>2, PairShape, Zenon
  <2>2. r[2] = FALSE
    BY <2>1, Zenon
  <2> QED BY <2>1, <2>2, Zenon
<1>3. CASE r \in AppIds \X {TRUE}
  <2> DEFINE B == {TRUE}
  <2>a. r \in AppIds \X B
    BY <1>3
  <2> HIDE DEF B
  <2>1. r = <<r[1], r[2]>> /\ r[1] \in AppIds /\ r[2] \in B
    BY <2>a, PairShape, Zenon
  <2>2. r[2] = TRUE
    BY <2>1 DEF B
  <2> QED BY <2>1, <2>2, Zenon
<1> QED BY <1>1, <1>2, <1>3

LEMMA InNetworkFaces ==
    ASSUME NEW e \in PitEntry, NEW f
    PROVE  f \in NetworkFaces(e) <=> <<f, FALSE>> \in e.faces
<1>1. \A r \in e.faces : r[2] = FALSE => r = <<r[1], FALSE>>
  BY RequesterShape
<1>2. \A r \in e.faces : r \notin LocalApps(e) <=> r[2] = FALSE
  BY RequesterShape DEF LocalApps
<1>3. NetworkFaces(e) = {r[1] : r \in {q \in e.faces : q[2] = FALSE}}
  BY <1>2 DEF NetworkFaces
<1> QED BY <1>1, <1>3

(* Without local applications every requester is a network consumer.       *)
LEMMA NoLocalApps ==
    ASSUME NEW e \in PitEntry, AppIds = {}
    PROVE  LocalApps(e) = {}
BY DEF LocalApps, PitEntry, Requester

(* A consumer that asks is recorded, if no local application can shadow it.*)
LEMMA ConsumerRecorded ==
    ASSUME NEW e \in PitEntry, NEW f \in Faces, AppIds = {}, None \notin PitEntry
    PROVE  <<f, FALSE>> \in AddRequester(e, f, FALSE).faces
<1>1. CASE f \in FaceIds(e)
  <2>1. PICK r \in e.faces : r[1] = f
    BY <1>1 DEF FaceIds
  <2>2. r = <<f, FALSE>>
    BY <2>1, RequesterShape
  <2> QED BY <2>1, <2>2 DEF AddRequester, LocalFlags, FaceIds, PitEntry
<1>2. CASE f \notin FaceIds(e)
  BY <1>2 DEF AddRequester, PitEntry
<1> QED BY <1>1, <1>2

LEMMA NewConsumer ==
    ASSUME NEW f \in Faces
    PROVE  /\ NewEntry(f, FALSE) \in PitEntry
           /\ NewEntry(f, FALSE).faces = {<<f, FALSE>>}
           /\ NewEntry(f, FALSE).forwards = 0
<1>1. <<f, FALSE>> \in Requester
  BY DEF Requester
<1> QED BY <1>1 DEF NewEntry, PitEntry

LEMMA NewApp ==
    ASSUME NEW a \in AppIds
    PROVE  /\ NewEntry(a, TRUE) \in PitEntry
           /\ NewEntry(a, TRUE).faces = {<<a, TRUE>>}
           /\ NewEntry(a, TRUE).forwards = 0
           /\ AddRequester(None, a, TRUE) = NewEntry(a, TRUE)
<1>1. <<a, TRUE>> \in Requester
  BY DEF Requester
<1> QED BY <1>1 DEF NewEntry, PitEntry, AddRequester

(* add_pit_entry keeps the requesters an entry has, adds at most the new   *)
(* one, and touches nothing else of the entry.                             *)
LEMMA AddConsumer ==
    ASSUME NEW e \in PitEntry, NEW f \in Faces, None \notin PitEntry
    PROVE  /\ AddRequester(e, f, FALSE) \in PitEntry
           /\ e.faces \subseteq AddRequester(e, f, FALSE).faces
           /\ AddRequester(e, f, FALSE).faces \subseteq e.faces \cup {<<f, FALSE>>}
           /\ AddRequester(e, f, FALSE).nacked = e.nacked
           /\ AddRequester(e, f, FALSE).forwards = e.forwards
<1>1. <<f, FALSE>> \in Requester
  BY DEF Requester
<1> QED BY <1>1 DEF AddRequester, PitEntry

LEMMA AddApp ==
    ASSUME NEW e \in PitEntry, NEW a \in AppIds, None \notin PitEntry
    PROVE  /\ AddRequester(e, a, TRUE) \in PitEntry
           /\ e.faces \subseteq AddRequester(e, a, TRUE).faces
           /\ AddRequester(e, a, TRUE).faces \subseteq e.faces \cup {<<a, TRUE>>}
           /\ AddRequester(e, a, TRUE).nacked = e.nacked
           /\ AddRequester(e, a, TRUE).forwards = e.forwards
<1>1. <<a, TRUE>> \in Requester
  BY DEF Requester
<1> QED BY <1>1 DEF AddRequester, PitEntry

(* After an application has asked, the entry holds a local request, be it  *)
(* its own or one that shadows it.                                         *)
LEMMA AppRecorded ==
    ASSUME NEW e \in PitEntry, NEW a \in AppIds, None \notin PitEntry
    PROVE  LocalApps(AddRequester(e, a, TRUE)) # {}
<1>1. CASE TRUE \in LocalFlags(e)
  <2>1. PICK r \in e.faces : r[2]
    <3>1. PICK r \in e.faces : r[2] = TRUE
      BY <1>1 DEF LocalFlags
    <3> QED BY <3>1
  <2>2. r \in AddRequester(e, a, TRUE).faces
    BY <2>1, AddApp
  <2> QED BY <2>1, <2>2 DEF LocalApps
<1>2. CASE TRUE \notin LocalFlags(e)
  <2> DEFINE r == <<a, TRUE>>
  <2>1. r \in AddRequester(e, a, TRUE).faces /\ r[2]
    BY <1>2 DEF AddRequester, PitEntry
  <2> HIDE DEF r
  <2> QED BY <2>1 DEF LocalApps
<1> QED BY <1>1, <1>2

(* The faces a route still offers are finitely many, and among those that  *)
(* have not refused.                                                       *)
LEMMA UnnackedCount ==
    ASSUME NEW e \in PitEntry, NEW route \in Route
    PROVE  /\ Cardinality(Unnacked(e, route)) \in Nat
           /\ Cardinality(Faces \ e.nacked) \in Nat
           /\ Cardinality(Unnacked(e, route)) <= Cardinality(Faces \ e.nacked)
<1>1. IsFiniteSet(Faces \ e.nacked)
  BY FacesAssumption, FS_Difference, Zenon
<1>2. Unnacked(e, route) \in SUBSET (Faces \ e.nacked)
  BY DEF Unnacked, Route
<1> QED BY <1>1, <1>2, FS_Subset, FS_CardinalityType, Zenon

LEMMA CountForwardsType ==
    ASSUME NEW e \in PitEntry, NEW route \in Route
    PROVE  /\ CountForwards(e, route) \in PitEntry
           /\ CountForwards(e, route).faces = e.faces
           /\ CountForwards(e, route).nacked = e.nacked
           /\ e.forwards = 0 =>
                  CountForwards(e, route).forwards <= Cardinality(Faces \ e.nacked)
BY UnnackedCount DEF CountForwards, PitEntry

-----------------------------------------------------------------------------
(* The content store and the FIB *)

LEMMA AddContentType ==
    ASSUME NEW items \in Seq(CsItem), NEW d \in Data, NEW static \in BOOLEAN
    PROVE  AddContent(items, d, static) \in Seq(CsItem)
<1>1. [data |-> d, static |-> static] \in CsItem
  BY DEF CsItem
<1>2. \A c \in CsItem : Append(items, c) \in Seq(CsItem)
  OBVIOUS
<1> QED BY <1>1, <1>2 DEF AddContent

LEMMA TouchedType ==
    ASSUME NEW items \in Seq(CsItem), items # << >>
    PROVE  Touched(items) \in Seq(CsItem)
<1>1. Tail(items) \in Seq(CsItem) /\ items[1] \in CsItem
  BY HeadTailProperties, EmptySeq, ElementOfSeq
<1> QED BY <1>1 DEF Touched

LEMMA SweptType ==
    ASSUME NEW items \in Seq(CsItem), NEW k \in 0 .. Len(items)
    PROVE  Swept(items, k) \in Seq(CsItem)
<1>1. Cardinality(Expired(items, k)) \in Nat
  <2>1. IsFiniteSet(1 .. k) /\ Expired(items, k) \in SUBSET (1 .. k)
    BY FS_Interval DEF Expired
  <2> QED BY <2>1, FS_Subset, FS_CardinalityType, Zenon
<1>2. \A i \in Cardinality(Expired(items, k)) + 1 .. Len(items) :
          items[i] \in CsItem
  BY <1>1, ElementOfSeq
<1> QED BY <1>1, <1>2, SubSeqProperties DEF Swept

(* The object a lookup moves to the end of the list is as static as it was. *)
LEMMA StaticTouched ==
    ASSUME NEW items \in Seq(CsItem), items # << >>,
           \A i \in DOMAIN items : items[i].static
    PROVE  \A i \in DOMAIN Touched(items) : Touched(items)[i].static
<1>1. /\ Tail(items) \in Seq(CsItem)
      /\ Len(items) \in Nat \ {0}
      /\ Len(Tail(items)) = Len(items) - 1
      /\ \A i \in 1 .. Len(Tail(items)) : Tail(items)[i] = items[i + 1]
  BY HeadTailProperties, EmptySeq
<1>2. items[1] \in CsItem
  BY <1>1, ElementOfSeq
<1>3. /\ DOMAIN Touched(items) = 1 .. Len(items)
      /\ \A i \in 1 .. Len(items) : Touched(items)[i] =
             IF i = Len(items) THEN items[1] ELSE items[i + 1]
  <2> DEFINE rest == Tail(items)
             first == items[1]
  <2>1. rest \in Seq(CsItem) /\ first \in CsItem
    BY <1>1, <1>2
  <2>2. Touched(items) = Append(rest, first)
    BY DEF Touched
  <2> HIDE DEF rest, first
  <2>3. /\ Len(Append(rest, first)) = Len(rest) + 1
        /\ Append(rest, first) \in Seq(CsItem)
        /\ \A i \in 1 .. Len(rest) : Append(rest, first)[i] = rest[i]
        /\ Append(rest, first)[Len(rest) + 1] = first
    BY <2>1, AppendProperties
  <2>4. /\ Len(rest) = Len(items) - 1 /\ Len(items) \in Nat \ {0}
        /\ \A i \in 1 .. Len(rest) : rest[i] = items[i + 1]
    BY <1>1 DEF rest
  <2>5. DOMAIN Touched(items) = 1 .. Len(items)
    BY <2>2, <2>3, <2>4
  <2>6. ASSUME NEW i \in 1 .. Len(items)
        PROVE  Touched(items)[i] = IF i = Len(items) THEN first
                                   ELSE items[i + 1]
    <3>1. CASE i = Len(items)
      BY <2>2, <2>3, <2>4, <3>1
    <3>2. CASE i # Len(items)
      <4>1. i \in 1 .. Len(rest)
        BY <2>4, <3>2
      <4> QED BY <2>2, <2>3, <2>4, <3>2, <4>1
    <3> QED BY <3>1, <3>2
  <2> QED BY <2>5, <2>6 DEF first
<1>4. \A i \in 1 .. Len(items) : items[i].static
  BY <1>1
<1>5. ASSUME NEW i \in 1 .. Len(items)
      PROVE  Touched(items)[i].static
  <2> DEFINE j == IF i = Len(items) THEN 1 ELSE i + 1
  <2>1. j \in 1 .. Len(items)
    <3>1. Len(items) \in Nat \ {0}
      BY <1>1
    <3> QED BY <3>1
  <2>2. Touched(items)[i] = items[j]
    BY <1>3
  <2> HIDE DEF j
  <2> QED BY <1>4, <2>1, <2>2
<1> QED BY <1>3, <1>5

(* A sweep leaves a name alone if all its objects are static.              *)
LEMMA StaticNotSwept ==
    ASSUME NEW items \in Seq(CsItem), NEW k \in 0 .. Len(items),
           \A i \in DOMAIN items : items[i].static
    PROVE  Swept(items, k) = items
<1>1. Expired(items, k) = {}
  BY DEF Expired
<1>2. Cardinality(Expired(items, k)) = 0
  BY <1>1, FS_EmptySet
<1> QED BY <1>2, SubSeqFull DEF Swept

LEMMA AddFibType ==
    ASSUME NEW entries \in Seq(FibEntry), NEW prefix \in Prefixes,
           NEW faceid \in SUBSET Faces, NEW static \in BOOLEAN
    PROVE  AddFib(entries, prefix, faceid, static) \in Seq(FibEntry)
<1> DEFINE e == [name |-> prefix, faceid |-> faceid, static |-> static]
<1>1. e \in FibEntry
  BY DEF FibEntry
<1>2. <<e>> \o entries \in Seq(FibEntry)
  BY <1>1
<1> QED BY <1>2 DEF AddFib

-----------------------------------------------------------------------------
(* The PIT entry of a name that is pending, and the route a lookup finds.  *)
LEMMA PendingEntry ==
    ASSUME TypeOK, NEW n \in Names, pit[n] # None
    PROVE  pit[n] \in PitEntry
BY DEF TypeOK

LEMMA FibRoute ==
    ASSUME TypeOK, NEW n, NEW used, NEW incoming
    PROVE  LET route == FindFib(fib, n, used, incoming) IN
           route # None =>
               /\ route \in Route
               /\ route.faceid \subseteq Faces
               /\ route.faceid \cap incoming = {}
<1>1. fib \in Seq(FibEntry)
  BY DEF TypeOK
<1>2. \A r \in Route : r.faceid \subseteq Faces
  BY DEF Route
<1> QED BY <1>1, <1>2, FindFibRoute

(* Packets of a name of the instance, and queues of such packets.          *)
LEMMA PacketType ==
    ASSUME NEW n \in Names
    PROVE  /\ Interest(n) \in Packet
           /\ \A d \in Data : Content(n, d) \in Packet
           /\ \A r \in Reason : Nack(n, r) \in Packet
BY DEF Packet, Interest, Content, Nack

LEMMA ToType ==
    ASSUME NEW S, NEW ids \in SUBSET S, NEW p \in Packet
    PROVE  To(ids, p) \in SUBSET (S \X Packet)
BY DEF To

(* The entry an exhausted route leaves has the requesters it had before.   *)
LEMMA ExhaustedType ==
    ASSUME TypeOK, NEW n \in Names, NEW src \in Ids, pit[n] # None
    PROVE  /\ Exhausted(src, n) \in PitEntry
           /\ Exhausted(src, n).faces = pit[n].faces
           /\ Exhausted(src, n).forwards = 0
<1> DEFINE current == FindFib(fib, n, pit[n].used, FaceIds(pit[n]))
           used == IF current = None THEN pit[n].used
                   ELSE pit[n].used \cup {current}
<1>1. pit[n] \in PitEntry
  BY PendingEntry
<1>2. used \in SUBSET Route
  BY <1>1, FibRoute DEF PitEntry
<1>3. Exhausted(src, n) = [pit[n] EXCEPT !.nacked = @ \cup {src},
                                         !.forwards = 0, !.used = used]
  BY DEF Exhausted
<1> DEFINE nacked == pit[n].nacked \cup {src}
<1>4. nacked \in SUBSET Ids
  BY <1>1 DEF PitEntry
<1> HIDE DEF used
<1>5. Exhausted(src, n) =
          [pit[n] EXCEPT !.nacked = nacked, !.forwards = 0, !.used = used]
  BY <1>3
<1> HIDE DEF nacked
<1> DEFINE e == pit[n]
<1>6. e \in PitEntry /\ Exhausted(src, n) =
          [e EXCEPT !.nacked = nacked, !.forwards = 0, !.used = used]
  BY <1>1, <1>5
<1> HIDE DEF e
<1> DEFINE x == [e EXCEPT !.nacked = nacked, !.forwards = 0, !.used = used]
<1>7. x \in PitEntry /\ x.faces = e.faces /\ x.forwards = 0
  BY <1>2, <1>4, <1>6 DEF PitEntry
<1> QED BY <1>6, <1>7, Zenon DEF e

-----------------------------------------------------------------------------
(* Every table, every queue and every history variable keeps its type; in  *)
(* particular the counter of outstanding answers never gets negative, and  *)
(* only link-layer faces are ever asked or answered on the lower queue.    *)
THEOREM TypeCorrect == Spec => []TypeOK
<1>1. Init => TypeOK
  BY LayerAssumption DEF Init, TypeOK, Quiet, Queues
<1>2. TypeOK /\ [Next]_vars => TypeOK'
  <2> SUFFICES ASSUME TypeOK, [Next]_vars PROVE TypeOK'
    OBVIOUS
  <2> USE NoneAssumption
  <2>a. /\ pit \in [Names -> PitEntry \cup {None}]
        /\ cs \in [Names -> Seq(CsItem)]
        /\ fib \in Seq(FibEntry)
        /\ waiting \subseteq Names \X Faces
        /\ apps \subseteq Names
    BY DEF TypeOK
  <2>b. Quiet \in Queues
    BY DEF Quiet, Queues
  <2>c. \A n \in Names : cs[n] # << >> => Found(cs[n]).data \in Data
    <3> SUFFICES ASSUME NEW n \in Names, cs[n] # << >>
                 PROVE  Found(cs[n]).data \in Data
      OBVIOUS
    <3>1. cs[n] \in Seq(CsItem) /\ 1 \in 1 .. Len(cs[n])
      BY <2>a, EmptySeq
    <3>2. cs[n][1] \in CsItem
      BY <3>1, ElementOfSeq
    <3> QED BY <3>2 DEF Found, CsItem
  <2>d. \A n \in Names, f \in Faces : waiting \cup {<<n, f>>} \subseteq Names \X Faces
    BY <2>a
  <2>e. \A n \in Names, e \in PitEntry \cup {None} :
            [pit EXCEPT ![n] = e] \in [Names -> PitEntry \cup {None}]
    BY <2>a
  <2>1. ASSUME NEW n \in Names, NEW f \in Faces, InterestFromLower(f, n)
        PROVE  TypeOK'
    <3>1. CASE InterestHit(f, n)
      <4>1. sent' \in Queues
        BY <2>c, <3>1, PacketType, ToType DEF InterestHit, Lower, Queues
      <4>2. Touched(cs[n]) \in Seq(CsItem)
        BY <2>a, <3>1, TouchedType DEF InterestHit
      <4> QED BY <2>a, <3>1, <4>1, <4>2 DEF InterestHit, TypeOK
    <3>2. CASE InterestAggregated(f, n)
      <4>1. Refreshed(pit[n]) \in PitEntry
        BY <2>a, <3>2 DEF InterestAggregated, Refreshed, PitEntry
      <4>2. AddRequester(Refreshed(pit[n]), f, FALSE) \in PitEntry
        BY <4>1, AddConsumer
      <4> QED BY <2>a, <2>b, <2>d, <2>e, <3>2, <4>2 DEF InterestAggregated, TypeOK
    <3>3. CASE InterestGoesUp(f, n)
      <4>1. NewEntry(f, FALSE) \in PitEntry
        BY NewConsumer
      <4>2. sent' \in Queues
        BY <3>3, PacketType, ToType DEF InterestGoesUp, Higher, Ids, Queues
      <4> QED BY <2>a, <2>d, <2>e, <3>3, <4>1, <4>2 DEF InterestGoesUp, TypeOK
    <3>4. CASE InterestForwarded(f, n)
      <4> DEFINE route == FindFib(fib, n, {}, {f})
      <4>1. route \in Route /\ route.faceid \subseteq Faces
        BY <3>4, FibRoute DEF InterestForwarded
      <4>2. CountForwards(NewEntry(f, FALSE), route) \in PitEntry
        BY <4>1, NewConsumer, CountForwardsType
      <4>3. sent' \in Queues
        BY <3>4, <4>1, PacketType, ToType DEF InterestForwarded, Lower, Queues
      <4> HIDE DEF route
      <4> QED BY <2>a, <2>d, <2>e, <3>4, <4>2, <4>3 DEF InterestForwarded, TypeOK, route
    <3>5. CASE InterestRefused(f, n)
      <4>1. sent' \in Queues
        BY <3>5, PacketType, ToType DEF InterestRefused, Lower, Reason, Queues
      <4> QED BY <2>a, <3>5, <4>1 DEF InterestRefused, TypeOK
    <3> QED BY <2>1, <3>1, <3>2, <3>3, <3>4, <3>5 DEF InterestFromLower, Queues
  <2>2. ASSUME NEW n \in Names, NEW a \in AppIds, InterestFromHigher(a, n)
        PROVE  TypeOK'
    <3>1. CASE AppHit(a, n)
      <4>1. sent' \in Queues
        BY <2>c, <3>1, PacketType, ToType DEF AppHit, Higher, Ids, Queues
      <4> QED BY <2>a, <3>1, <4>1 DEF AppHit, TypeOK
    <3>a. AddRequester(pit[n], a, TRUE) \in PitEntry
      <4>1. pit[n] \in PitEntry \/ pit[n] = None
        BY <2>a
      <4>2. None \notin PitEntry
        OBVIOUS
      <4>3. CASE pit[n] # None
        BY <4>1, <4>3, AddApp
      <4>4. CASE pit[n] = None
        BY <4>4, NewApp
      <4> QED BY <4>3, <4>4
    <3>2. CASE AppForwarded(a, n)
      <4> DEFINE e == [AddRequester(pit[n], a, TRUE) EXCEPT !.forwards = 0]
      <4>1. e \in PitEntry
        BY <3>a DEF PitEntry
      <4>2. AppRoute(n) \in Route /\ AppRoute(n).faceid \subseteq Faces
        BY <3>2, FibRoute DEF AppForwarded, AppRoute
      <4>3. CountForwards(e, AppRoute(n)) \in PitEntry
        BY <4>1, <4>2, CountForwardsType
      <4>4. Unnacked(e, AppRoute(n)) \subseteq Faces
        BY <4>2 DEF Unnacked
      <4>5. sent' \in Queues
        BY <3>2, <4>4, PacketType, ToType DEF AppForwarded, Lower, Queues
      <4> HIDE DEF e
      <4> QED BY <2>a, <3>2, <4>3, <4>5 DEF AppForwarded, TypeOK, e
    <3>3. CASE AppRefused(a, n)
      <4> DEFINE nack == Nack(n, "no_route")
      <4>1. nack \in Packet
        BY PacketType DEF Reason
      <4>a. {a} \subseteq Ids
        BY DEF Ids
      <4> HIDE DEF nack
      <4>2. ASSUME pit[n] = None PROVE sent' \in Queues
        <5>1. To({a}, nack) \in SUBSET (Ids \X Packet)
          BY <4>1, <4>a, ToType
        <5>2. sent' = Higher(To({a}, nack))
          BY <3>3, <4>2 DEF AppRefused, nack
        <5> QED BY <5>1, <5>2 DEF Higher, Queues
      <4>3. ASSUME pit[n] # None PROVE sent' \in Queues
        <5>1. NetworkFaces(pit[n]) \subseteq Faces
          BY <4>3, PendingEntry, NetworkFacesType
        <5>2. To(NetworkFaces(pit[n]), nack) \in SUBSET (Faces \X Packet)
          BY <4>1, <5>1, ToType
        <5>3. To({a}, nack) \in SUBSET (Ids \X Packet)
          BY <4>1, <4>a, ToType
        <5>4. sent' = [lower  |-> To(NetworkFaces(pit[n]), nack),
                       higher |-> IF LocalApps(pit[n]) = {} THEN {}
                                  ELSE To({a}, nack)]
          BY <3>3, <4>3 DEF AppRefused, nack
        <5> QED BY <5>2, <5>3, <5>4 DEF Queues
      <4>4. sent' \in Queues
        BY <4>2, <4>3
      <4> QED BY <2>a, <3>3, <3>a, <4>4 DEF AppRefused, TypeOK
    <3> QED BY <2>2, <3>1, <3>2, <3>3 DEF InterestFromHigher
  <2>3. ASSUME NEW n \in Names, NEW src \in Ids, NEW d \in Data,
               ContentArrives(src, n, d)
        PROVE  TypeOK'
    <3>1. NetworkFaces(pit[n]) \subseteq Faces
      BY <2>3, PendingEntry, NetworkFacesType DEF ContentArrives
    <3>2. sent' \in Queues
      BY <2>3, <3>1, PacketType, ToType DEF ContentArrives, Queues
    <3>3. AddContent(cs[n], d, FALSE) \in Seq(CsItem)
      BY <2>a, AddContentType
    <3> QED BY <2>a, <2>3, <3>2, <3>3 DEF ContentArrives, TypeOK
  <2>4. ASSUME NEW n \in Names, NEW src \in Ids, NEW reason \in Reason,
               NEW fromLocal \in BOOLEAN, NackArrives(src, n, reason, fromLocal)
        PROVE  TypeOK'
    <3>1. CASE NackCounted(src, n)
      <4>1. [pit[n] EXCEPT !.nacked = @ \cup {src}, !.forwards = @ - 1] \in PitEntry
        <5>1. pit[n] \in PitEntry /\ pit[n].forwards > 1
          BY <3>1, PendingEntry DEF NackCounted
        <5>2. pit[n].forwards - 1 \in Nat /\ pit[n].nacked \cup {src} \in SUBSET Ids
          BY <5>1 DEF PitEntry
        <5> QED BY <5>1, <5>2 DEF PitEntry
      <4> QED BY <2>a, <2>b, <3>1, <4>1 DEF NackCounted, TypeOK
    <3>2. CASE NackTriesNextRoute(src, n)
      <4> DEFINE e == Exhausted(src, n)
                 route == NextRoute(e, n)
      <4>1. e \in PitEntry
        BY <3>2, ExhaustedType DEF NackTriesNextRoute
      <4>2. route # None
        BY <3>2 DEF NackTriesNextRoute, LastNack
      <4>3. route \in Route /\ route.faceid \subseteq Faces
        BY <4>2, FibRoute DEF NextRoute
      <4>4. CountForwards(e, route) \in PitEntry
        BY <4>1, <4>3, CountForwardsType
      <4>5. Unnacked(e, route) \subseteq Faces
        BY <4>3 DEF Unnacked
      <4>6. sent' \in Queues
        BY <3>2, <4>5, PacketType, ToType DEF NackTriesNextRoute, Lower, Queues
      <4> HIDE DEF e, route
      <4> QED BY <2>a, <3>2, <4>4, <4>6 DEF NackTriesNextRoute, TypeOK, e, route
    <3>3. CASE LastNack(src, n)
      <4>1. Exhausted(src, n) \in PitEntry
        BY <3>3, ExhaustedType DEF LastNack
      <4>2. Higher(To({src}, Nack(n, reason))) \in Queues
        BY PacketType, ToType DEF Higher, Queues
      <4>3. CASE NackOnThunk(src, n, reason)
        BY <2>a, <4>1, <4>2, <4>3 DEF NackOnThunk, TypeOK
      <4>4. CASE NackToApps(src, n, reason)
        <5>1. [Exhausted(src, n) EXCEPT !.faces = @ \ LocalApps(pit[n])] \in PitEntry
          BY <4>1 DEF PitEntry
        <5> QED BY <2>a, <4>2, <4>4, <5>1 DEF NackToApps, TypeOK
      <4>5. CASE NackToConsumers(src, n, reason)
        <5>1. NetworkFaces(pit[n]) \subseteq Faces
          BY <3>3, PendingEntry, NetworkFacesType DEF LastNack
        <5>2. sent' \in Queues
          BY <4>5, <5>1, PacketType, ToType DEF NackToConsumers, Lower, Queues
        <5> QED BY <2>a, <4>5, <5>2 DEF NackToConsumers, TypeOK
      <4>6. ~NackCounted(src, n) /\ ~NackTriesNextRoute(src, n)
        BY <2>a, <3>3 DEF LastNack, NackCounted, NackTriesNextRoute, TypeOK, PitEntry
      <4> QED BY <2>4, <4>3, <4>4, <4>5, <4>6 DEF NackArrives
    <3> QED BY <2>4, <3>1, <3>2, <3>3
            DEF NackArrives, NackOnThunk, NackToApps, NackToConsumers
  <2>5. ASSUME NEW late \in SUBSET Names, NEW k \in Expiries, Ageing(late, k)
        PROVE  TypeOK'
    <3> DEFINE dead == {n \in late : pit[n].retransmits > PitRetransmits}
               kept == Pending \ dead
    <3>1. kept \subseteq Pending /\ Pending \subseteq Names /\ dead \subseteq Pending
      BY <2>5 DEF Pending, Ageing
    <3>2. pit' \in [Names -> PitEntry \cup {None}]
      <4>1. \A n \in Pending : Older(pit[n]) \in PitEntry
        <5> SUFFICES ASSUME NEW n \in Pending PROVE Older(pit[n]) \in PitEntry
          OBVIOUS
        <5>1. pit[n] \in PitEntry
          BY <2>a DEF Pending
        <5>2. pit[n].retransmits + 1 \in Nat
          BY <5>1 DEF PitEntry
        <5> QED BY <5>1, <5>2 DEF Older, PitEntry
      <4> QED BY <2>5, <3>1, <4>1 DEF Ageing
    <3>3. cs' \in [Names -> Seq(CsItem)]
      <4>1. \A n \in Names : k[n] \in 0 .. Len(cs[n])
        BY <2>a DEF Expiries
      <4>2. \A n \in Names : Swept(cs[n], k[n]) \in Seq(CsItem)
        BY <2>a, <4>1, SweptType
      <4> QED BY <2>5, <4>2 DEF Ageing
    <3>4. sent' \in Queues
      <4>1. \A n \in kept : Retransmissions(n) \in SUBSET (Faces \X Packet)
        <5> SUFFICES ASSUME NEW n \in kept
                     PROVE  Retransmissions(n) \in SUBSET (Faces \X Packet)
          OBVIOUS
        <5> DEFINE route == FindFib(fib, n, pit[n].used, FaceIds(pit[n]))
        <5>1. route # None => Unnacked(pit[n], route) \subseteq Faces
          BY FibRoute DEF Unnacked
        <5>2. Interest(n) \in Packet
          BY <3>1, PacketType
        <5> QED BY <5>1, <5>2, ToType DEF Retransmissions
      <4>2. \A n \in dead : {<<r[1], Nack(n, "pit_timeout")>> : r \in LocalApps(pit[n])}
                               \in SUBSET (Ids \X Packet)
        <5> SUFFICES ASSUME NEW n \in dead, NEW r \in LocalApps(pit[n])
                     PROVE  <<r[1], Nack(n, "pit_timeout")>> \in Ids \X Packet
          OBVIOUS
        <5>1. r[1] \in Ids
          <6>1. pit[n] \in PitEntry
            BY <2>a, <3>1 DEF Pending
          <6> QED BY <6>1 DEF LocalApps, PitEntry, Requester, Ids
        <5>2. Nack(n, "pit_timeout") \in Packet
          BY <3>1, PacketType DEF Reason
        <5> QED BY <5>1, <5>2
      <4> DEFINE lower == UNION {Retransmissions(n) : n \in kept}
                 higher == UNION {{<<r[1], Nack(n, "pit_timeout")>> :
                                      r \in LocalApps(pit[n])} : n \in dead}
      <4>3. lower \in SUBSET (Faces \X Packet)
        BY <4>1
      <4>4. higher \in SUBSET (Ids \X Packet)
        BY <4>2
      <4>5. sent' = [lower |-> lower, higher |-> higher]
        BY <2>5, Zenon DEF Ageing
      <4> HIDE DEF lower, higher
      <4> QED BY <4>3, <4>4, <4>5 DEF Queues
    <3> QED BY <2>a, <2>5, <3>2, <3>3, <3>4 DEF Ageing, TypeOK
  <2>6. ASSUME NEW rule \in Rules, NewForwardingRule(rule)
        PROVE  TypeOK'
    <3>1. AddFib(fib, rule.name, rule.faceid, TRUE) \in Seq(FibEntry)
      BY <2>a, LayerAssumption, AddFibType
    <3> QED BY <2>a, <2>b, <2>6, <3>1 DEF NewForwardingRule, TypeOK
  <2>7. ASSUME NEW n \in Names, NEW d \in MgmtData, NewContent(n, d)
        PROVE  TypeOK'
    <3>1. AddContent(cs[n], d, TRUE) \in Seq(CsItem)
      BY <2>a, LayerAssumption, AddContentType
    <3> QED BY <2>a, <2>b, <2>7, <3>1 DEF NewContent, TypeOK
  <2>8. CASE UNCHANGED vars
    BY <2>8 DEF TypeOK, vars
  <2>9. Faces \subseteq Ids /\ AppIds \subseteq Ids /\ "upstream" \in Reason
    BY DEF Ids, Reason
  <2> QED BY <2>1, <2>2, <2>3, <2>4, <2>5, <2>6, <2>7, <2>8, <2>9
          DEF Next, Network, Application, Management
<1> QED BY <1>1, <1>2, PTL DEF Spec

-----------------------------------------------------------------------------
Bounded(e) == e.forwards <= Cardinality(Faces \ e.nacked)

LEMMA ZeroIsBounded ==
    ASSUME NEW e \in PitEntry, e.forwards = 0
    PROVE  Bounded(e)
<1>1. IsFiniteSet(Faces \ e.nacked)
  BY FacesAssumption, FS_Difference, Zenon
<1> QED BY <1>1, FS_CardinalityType DEF Bounded

LEMMA CountedIsBounded ==
    ASSUME NEW e \in PitEntry, NEW route \in Route, e.forwards = 0
    PROVE  Bounded(CountForwards(e, route))
BY CountForwardsType DEF Bounded

(* One Nack takes one from the counter, and at most one face from those    *)
(* that have not refused.                                                  *)
LEMMA NackKeepsBound ==
    ASSUME NEW e \in PitEntry, Bounded(e), NEW src, e.forwards > 0
    PROVE  e.forwards - 1 <= Cardinality(Faces \ (e.nacked \cup {src}))
<1> DEFINE left == Faces \ e.nacked
<1>1. IsFiniteSet(left) /\ Cardinality(left) \in Nat
  BY FacesAssumption, FS_Difference, FS_CardinalityType, Zenon
<1>2. Cardinality(left \ {src}) = IF src \in left THEN Cardinality(left) - 1
                                  ELSE Cardinality(left)
  BY <1>1, FS_RemoveElement, Zenon
<1>3. Faces \ (e.nacked \cup {src}) = left \ {src}
  OBVIOUS
<1>4. e.forwards \in Nat
  BY DEF PitEntry
<1> QED BY <1>1, <1>2, <1>3, <1>4 DEF Bounded

(* The counter of outstanding answers of a PIT entry never exceeds the     *)
(* number of faces that have not refused the interest yet, so a forwarder  *)
(* never waits for more answers than there are faces to give them.         *)
THEOREM CounterCorrect == Spec => []CounterWithinFaces
<1> DEFINE Inv == \A n \in Names : pit[n] # None => Bounded(pit[n])
<1>1. Init => Inv
  BY DEF Init
<1>2. TypeOK /\ Inv /\ [Next]_vars => Inv'
  <2> SUFFICES ASSUME TypeOK, Inv, [Next]_vars PROVE Inv'
    OBVIOUS
  <2> USE NoneAssumption
  <2>a. pit \in [Names -> PitEntry \cup {None}]
    BY DEF TypeOK
  <2>b. ASSUME NEW n \in Names, NEW e, e # None => Bounded(e),
               pit' = [pit EXCEPT ![n] = e]
        PROVE  Inv'
    BY <2>a, <2>b
  <2>1. ASSUME NEW n \in Names, NEW f \in Faces, InterestFromLower(f, n)
        PROVE  Inv'
    <3>1. NewEntry(f, FALSE) \in PitEntry /\ NewEntry(f, FALSE).forwards = 0
      BY NewConsumer
    <3>2. CASE InterestAggregated(f, n)
      <4>1. /\ Refreshed(pit[n]) \in PitEntry
            /\ Refreshed(pit[n]).nacked = pit[n].nacked
            /\ Refreshed(pit[n]).forwards = pit[n].forwards
        BY <2>a, <3>2 DEF InterestAggregated, Refreshed, PitEntry
      <4> DEFINE e == AddRequester(Refreshed(pit[n]), f, FALSE)
      <4>2. e.nacked = pit[n].nacked /\ e.forwards = pit[n].forwards
        BY <4>1, AddConsumer
      <4>3. Bounded(e)
        BY <3>2, <4>2 DEF InterestAggregated, Bounded
      <4> QED BY <2>b, <3>2, <4>3 DEF InterestAggregated
    <3>3. CASE InterestGoesUp(f, n)
      BY <2>b, <3>1, <3>3, ZeroIsBounded DEF InterestGoesUp
    <3>4. CASE InterestForwarded(f, n)
      <4> DEFINE route == FindFib(fib, n, {}, {f})
      <4>1. route \in Route
        BY <3>4, FibRoute DEF InterestForwarded
      <4>2. Bounded(CountForwards(NewEntry(f, FALSE), route))
        BY <3>1, <4>1, CountedIsBounded
      <4> QED BY <2>b, <3>4, <4>2 DEF InterestForwarded
    <3>5. CASE InterestHit(f, n) \/ InterestRefused(f, n)
      BY <3>5 DEF InterestHit, InterestRefused
    <3> QED BY <2>1, <3>2, <3>3, <3>4, <3>5 DEF InterestFromLower
  <2>2. ASSUME NEW n \in Names, NEW a \in AppIds, InterestFromHigher(a, n)
        PROVE  Inv'
    <3> DEFINE added == AddRequester(pit[n], a, TRUE)
    <3>1. /\ added \in PitEntry
          /\ pit[n] = None => added.forwards = 0
          /\ pit[n] # None => /\ added.forwards = pit[n].forwards
                              /\ added.nacked = pit[n].nacked
      <4>1. pit[n] \in PitEntry \/ pit[n] = None
        BY <2>a
      <4>2. CASE pit[n] = None
        <5>1. added = NewEntry(a, TRUE)
          BY <4>2, NewApp, Zenon
        <5> QED BY <4>2, <5>1, NewApp
      <4>3. CASE pit[n] # None
        BY <4>1, <4>3, AddApp
      <4> QED BY <4>2, <4>3
    <3>2. CASE AppForwarded(a, n)
      <4> DEFINE e == [added EXCEPT !.forwards = 0]
      <4>1. e \in PitEntry /\ e.forwards = 0
        BY <3>1 DEF PitEntry
      <4>2. AppRoute(n) \in Route
        BY <3>2, FibRoute DEF AppForwarded, AppRoute
      <4>3. Bounded(CountForwards(e, AppRoute(n)))
        BY <4>1, <4>2, CountedIsBounded
      <4> QED BY <2>b, <3>2, <4>3 DEF AppForwarded
    <3>3. CASE AppRefused(a, n)
      <4>1. Bounded(added)
        BY <3>1, ZeroIsBounded DEF Bounded
      <4> QED BY <2>b, <3>3, <4>1 DEF AppRefused
    <3>4. CASE AppHit(a, n)
      BY <3>4 DEF AppHit
    <3> QED BY <2>2, <3>2, <3>3, <3>4 DEF InterestFromHigher
  <2>3. ASSUME NEW n \in Names, NEW src \in Ids, NEW d \in Data,
               ContentArrives(src, n, d)
        PROVE  Inv'
    BY <2>b, <2>3 DEF ContentArrives
  <2>4. ASSUME NEW n \in Names, NEW src \in Ids, NEW reason \in Reason,
               NEW fromLocal \in BOOLEAN, NackArrives(src, n, reason, fromLocal)
        PROVE  Inv'
    <3>1. CASE NackCounted(src, n)
      <4>1. pit[n] \in PitEntry /\ Bounded(pit[n]) /\ pit[n].forwards > 0
        <5>1. pit[n] \in PitEntry /\ pit[n].forwards > 1 /\ pit[n].forwards \in Nat
          BY <2>a, <3>1 DEF NackCounted, PitEntry
        <5> QED BY <3>1, <5>1 DEF NackCounted
      <4> DEFINE e == [pit[n] EXCEPT !.nacked = @ \cup {src}, !.forwards = @ - 1]
      <4>2. /\ e.nacked = pit[n].nacked \cup {src}
            /\ e.forwards = pit[n].forwards - 1
        BY <4>1 DEF PitEntry
      <4>3. Bounded(e)
        BY <4>1, <4>2, NackKeepsBound DEF Bounded
      <4>4. pit' = [pit EXCEPT ![n] = e]
        BY <2>a, <3>1 DEF NackCounted
      <4> QED BY <2>b, <4>3, <4>4
    <3>2. CASE NackTriesNextRoute(src, n)
      <4> DEFINE e == Exhausted(src, n)
                 route == NextRoute(e, n)
      <4>1. e \in PitEntry /\ e.forwards = 0
        BY <3>2, ExhaustedType DEF NackTriesNextRoute
      <4>2. route # None
        BY <3>2 DEF NackTriesNextRoute, LastNack
      <4>3. route \in Route
        BY <4>2, FibRoute DEF NextRoute
      <4>4. Bounded(CountForwards(e, route))
        BY <4>1, <4>3, CountedIsBounded
      <4> QED BY <2>b, <3>2, <4>4 DEF NackTriesNextRoute
    <3>3. CASE NackOnThunk(src, n, reason)
      <4>1. Bounded(Exhausted(src, n))
        BY <3>3, ExhaustedType, ZeroIsBounded DEF NackOnThunk, LastNack
      <4> QED BY <2>b, <3>3, <4>1 DEF NackOnThunk
    <3>4. CASE NackToApps(src, n, reason)
      <4> DEFINE e == [Exhausted(src, n) EXCEPT !.faces = @ \ LocalApps(pit[n])]
      <4>1. Exhausted(src, n) \in PitEntry /\ Exhausted(src, n).forwards = 0
        BY <3>4, ExhaustedType DEF NackToApps, LastNack
      <4>2. e \in PitEntry /\ e.forwards = 0
        BY <4>1 DEF PitEntry
      <4>3. Bounded(e)
        BY <4>2, ZeroIsBounded
      <4> QED BY <2>b, <3>4, <4>3 DEF NackToApps
    <3>5. CASE NackToConsumers(src, n, reason)
      BY <2>b, <3>5 DEF NackToConsumers
    <3> QED BY <2>4, <3>1, <3>2, <3>3, <3>4, <3>5 DEF NackArrives
  <2>5. ASSUME NEW late \in SUBSET Names, NEW k \in Expiries, Ageing(late, k)
        PROVE  Inv'
    <3>1. ASSUME NEW n \in Names, pit'[n] # None
          PROVE  pit[n] # None /\ pit'[n] = Older(pit[n])
      BY <2>5, <3>1 DEF Ageing, Pending
    <3>2. ASSUME NEW n \in Names, pit[n] # None
          PROVE  Bounded(Older(pit[n]))
      <4>1. /\ Older(pit[n]).nacked = pit[n].nacked
            /\ Older(pit[n]).forwards = pit[n].forwards
        BY <2>a, <3>2 DEF Older, PitEntry
      <4> QED BY <3>2, <4>1 DEF Bounded
    <3> QED BY <3>1, <3>2
  <2>6. CASE Management \/ UNCHANGED vars
    BY <2>6 DEF Management, NewForwardingRule, NewContent, vars
  <2>7. Faces \subseteq Ids /\ AppIds \subseteq Ids /\ "upstream" \in Reason
    BY DEF Ids, Reason
  <2> QED BY <2>1, <2>2, <2>3, <2>4, <2>5, <2>6, <2>7
          DEF Next, Network, Application
<1>3. Inv => CounterWithinFaces
  BY DEF CounterWithinFaces, Pending, Bounded
<1> QED BY <1>1, <1>2, <1>3, TypeCorrect, PTL DEF Spec

-----------------------------------------------------------------------------
(* A name that is pending is not cached, except for static objects that    *)
(* management added, so a consumer is never left waiting for content that  *)
(* the network has delivered.                                              *)
THEOREM CachedCorrect == Spec => []CachedNotPending
<1> DEFINE Static(items) == \A i \in DOMAIN items : items[i].static
           Inv == \A n \in Names : pit[n] # None => Static(cs[n])
<1>1. Init => Inv
  BY DEF Init
<1>2. TypeOK /\ Inv /\ [Next]_vars => Inv'
  <2> SUFFICES ASSUME TypeOK, Inv, [Next]_vars PROVE Inv'
    OBVIOUS
  <2>a. /\ pit \in [Names -> PitEntry \cup {None}]
        /\ cs \in [Names -> Seq(CsItem)]
    BY DEF TypeOK
  <2>b. ASSUME NEW n \in Names, NEW e, pit' = [pit EXCEPT ![n] = e],
               UNCHANGED cs, e # None => Static(cs[n])
        PROVE  Inv'
    BY <2>a, <2>b
  <2>c. Static(<< >>)
    OBVIOUS
  <2>1. ASSUME NEW n \in Names, NEW f \in Faces, InterestFromLower(f, n)
        PROVE  Inv'
    <3>1. CASE InterestHit(f, n)
      <4> SUFFICES ASSUME pit[n] # None PROVE Static(cs'[n])
        BY <2>a, <3>1 DEF InterestHit
      <4> DEFINE items == cs[n]
      <4>1. items \in Seq(CsItem) /\ items # << >> /\ Static(items)
        BY <2>a, <3>1 DEF InterestHit
      <4> HIDE DEF items
      <4>2. Static(Touched(items))
        BY <4>1, StaticTouched
      <4>3. cs'[n] = Touched(items)
        BY <2>a, <3>1 DEF InterestHit, items
      <4> QED BY <4>2, <4>3
    <3>2. CASE InterestAggregated(f, n)
      BY <2>b, <2>c, <3>2 DEF InterestAggregated
    <3>3. CASE InterestGoesUp(f, n)
      BY <2>b, <2>c, <3>3 DEF InterestGoesUp
    <3>4. CASE InterestForwarded(f, n)
      BY <2>b, <2>c, <3>4 DEF InterestForwarded
    <3>5. CASE InterestRefused(f, n)
      BY <3>5 DEF InterestRefused
    <3> QED BY <2>1, <3>1, <3>2, <3>3, <3>4, <3>5 DEF InterestFromLower
  <2>2. ASSUME NEW n \in Names, NEW a \in AppIds, InterestFromHigher(a, n)
        PROVE  Inv'
    <3>1. CASE AppHit(a, n)
      BY <3>1 DEF AppHit
    <3>2. CASE AppForwarded(a, n)
      BY <2>b, <2>c, <3>2 DEF AppForwarded
    <3>3. CASE AppRefused(a, n)
      BY <2>b, <2>c, <3>3 DEF AppRefused
    <3> QED BY <2>2, <3>1, <3>2, <3>3 DEF InterestFromHigher
  <2>3. ASSUME NEW n \in Names, NEW src \in Ids, NEW d \in Data,
               ContentArrives(src, n, d)
        PROVE  Inv'
    BY <2>a, <2>3 DEF ContentArrives
  <2>4. ASSUME NEW n \in Names, NEW src \in Ids, NEW reason \in Reason,
               NEW fromLocal \in BOOLEAN, NackArrives(src, n, reason, fromLocal)
        PROVE  Inv'
    <3>1. pit[n] # None /\ UNCHANGED cs /\ \E e : pit' = [pit EXCEPT ![n] = e]
      BY <2>4 DEF NackArrives, NackCounted, NackTriesNextRoute, NackOnThunk,
                  NackToApps, NackToConsumers, LastNack
    <3> QED BY <2>b, <3>1
  <2>5. ASSUME NEW late \in SUBSET Names, NEW k \in Expiries, Ageing(late, k)
        PROVE  Inv'
    <3> SUFFICES ASSUME NEW n \in Names, pit'[n] # None PROVE Static(cs'[n])
      OBVIOUS
    <3>1. Static(cs[n])
      BY <2>5 DEF Ageing, Pending
    <3>2. cs'[n] = Swept(cs[n], k[n])
      BY <2>5 DEF Ageing
    <3>3. k[n] \in 0 .. Len(cs[n]) /\ cs[n] \in Seq(CsItem)
      BY <2>a DEF Expiries
    <3>4. Swept(cs[n], k[n]) = cs[n]
      BY <3>1, <3>3, StaticNotSwept
    <3> QED BY <3>1, <3>2, <3>4
  <2>6. ASSUME NEW rule \in Rules, NewForwardingRule(rule)
        PROVE  Inv'
    BY <2>6 DEF NewForwardingRule
  <2>7. ASSUME NEW n \in Names, NEW d \in MgmtData, NewContent(n, d)
        PROVE  Inv'
    <3> SUFFICES ASSUME pit[n] # None PROVE Static(cs'[n])
      BY <2>a, <2>7 DEF NewContent
    <3> DEFINE items == cs[n]
               new == [data |-> d, static |-> TRUE]
    <3>1. items \in Seq(CsItem) /\ Static(items) /\ new \in CsItem /\ new.static
      BY <2>a, LayerAssumption DEF CsItem
    <3>2. cs'[n] = IF Cached(items, d) THEN items ELSE Append(items, new)
      BY <2>a, <2>7 DEF NewContent, AddContent
    <3> HIDE DEF items, new
    <3> QED BY <3>1, <3>2
  <2>8. CASE UNCHANGED vars
    BY <2>8 DEF vars
  <2>9. Faces \subseteq Ids /\ AppIds \subseteq Ids /\ "upstream" \in Reason
    BY DEF Ids, Reason
  <2> QED BY <2>1, <2>2, <2>3, <2>4, <2>5, <2>6, <2>7, <2>8, <2>9
          DEF Next, Network, Application, Management
<1>3. Inv => CachedNotPending
  BY DEF CachedNotPending, Pending
<1> QED BY <1>1, <1>2, <1>3, TypeCorrect, PTL DEF Spec

-----------------------------------------------------------------------------
(* Which names, and which consumers, a handler's output answers.           *)
LEMMA AppAnswer ==
    ASSUME NEW out, NEW m \in out.higher, m[2].type # "interest"
    PROVE  m[2].name \in AppsAnswered(out)
BY DEF AppsAnswered, Replies

(* As long as the higher layer waits for a name, the PIT entry of the name *)
(* holds a local request, so that whatever ends the entry (content, the    *)
(* last Nack, the timeout) tells the higher layer.                         *)
THEOREM AppsCorrect == Spec => []NoAppForgotten
<1>1. Init => NoAppForgotten
  BY DEF Init, NoAppForgotten
<1>2. TypeOK /\ NoAppForgotten /\ [Next]_vars => NoAppForgotten'
  <2> SUFFICES ASSUME TypeOK, NoAppForgotten, [Next]_vars PROVE NoAppForgotten'
    OBVIOUS
  <2> USE NoneAssumption
  <2>a. pit \in [Names -> PitEntry \cup {None}] /\ apps \subseteq Names
    BY DEF TypeOK
  <2>b. \A n \in apps : pit[n] \in PitEntry /\ LocalApps(pit[n]) # {}
    BY <2>a DEF NoAppForgotten
  <2>c. ASSUME NEW n \in Names, NEW e, pit' = [pit EXCEPT ![n] = e],
               apps' \subseteq apps \cup {n},
               n \in apps' => e # None /\ LocalApps(e) # {}
        PROVE  NoAppForgotten'
    BY <2>a, <2>b, <2>c DEF NoAppForgotten
  <2>1. ASSUME NEW n \in Names, NEW f \in Faces, InterestFromLower(f, n)
        PROVE  NoAppForgotten'
    <3>1. CASE InterestHit(f, n) \/ InterestRefused(f, n)
      BY <3>1 DEF InterestHit, InterestRefused, NoAppForgotten
    <3>2. CASE InterestAggregated(f, n)
      <4> DEFINE old == Refreshed(pit[n])
                 e == AddRequester(old, f, FALSE)
      <4>1. old \in PitEntry /\ old.faces = pit[n].faces
        BY <2>a, <3>2 DEF InterestAggregated, Refreshed, PitEntry
      <4> HIDE DEF old
      <4>2. e \in PitEntry /\ old.faces \subseteq e.faces
        BY <4>1, AddConsumer
      <4>3. n \in apps' => e # None /\ LocalApps(e) # {}
        BY <2>b, <3>2, <4>1, <4>2 DEF InterestAggregated, LocalApps
      <4> QED BY <2>c, <3>2, <4>3 DEF InterestAggregated, old
    <3>3. CASE InterestGoesUp(f, n) \/ InterestForwarded(f, n)
      <4>1. pit[n] = None /\ apps' = apps
            /\ \E e : pit' = [pit EXCEPT ![n] = e]
        BY <3>3 DEF InterestGoesUp, InterestForwarded
      <4>2. n \notin apps
        BY <2>b, <4>1
      <4> QED BY <2>c, <4>1, <4>2
    <3> QED BY <2>1, <3>1, <3>2, <3>3 DEF InterestFromLower
  <2>2. ASSUME NEW n \in Names, NEW a \in AppIds, InterestFromHigher(a, n)
        PROVE  NoAppForgotten'
    <3> DEFINE added == AddRequester(pit[n], a, TRUE)
    <3>1. added \in PitEntry /\ LocalApps(added) # {}
      <4>1. CASE pit[n] = None
        <5>1. added = NewEntry(a, TRUE)
          BY <4>1, NewApp, Zenon
        <5>2. LocalApps(NewEntry(a, TRUE)) # {}
          <6> DEFINE r == <<a, TRUE>>
          <6>1. NewEntry(a, TRUE).faces = {r} /\ r[2]
            BY NewApp
          <6> HIDE DEF r
          <6> QED BY <6>1 DEF LocalApps
        <5> QED BY <5>1, <5>2, NewApp
      <4>2. CASE pit[n] # None
        BY <2>a, <4>2, AddApp, AppRecorded
      <4> QED BY <4>1, <4>2
    <3>2. CASE AppForwarded(a, n)
      <4> DEFINE e == [added EXCEPT !.forwards = 0]
                 x == CountForwards(e, AppRoute(n))
      <4>1. e \in PitEntry /\ e.faces = added.faces
        BY <3>1 DEF PitEntry
      <4>2. AppRoute(n) \in Route
        BY <3>2, FibRoute DEF AppForwarded, AppRoute
      <4>3. x \in PitEntry /\ x.faces = added.faces
        BY <4>1, <4>2, CountForwardsType
      <4>4. x # None /\ LocalApps(x) # {}
        BY <3>1, <4>3 DEF LocalApps
      <4> QED BY <2>c, <3>2, <4>4 DEF AppForwarded
    <3>3. CASE AppRefused(a, n)
      BY <2>c, <3>1, <3>3 DEF AppRefused
    <3>4. CASE AppHit(a, n)
      BY <3>4 DEF AppHit, NoAppForgotten
    <3> QED BY <2>2, <3>2, <3>3, <3>4 DEF InterestFromHigher
  <2>3. ASSUME NEW n \in Names, NEW src \in Ids, NEW d \in Data,
               ContentArrives(src, n, d)
        PROVE  NoAppForgotten'
    <3>1. n \notin apps'
      <4> SUFFICES ASSUME n \in apps PROVE n \in AppsAnswered(sent')
        BY <2>3 DEF ContentArrives
      <4> DEFINE m == <<src, Content(n, d)>>
      <4>1. m \in sent'.higher
        BY <2>3, <2>b DEF ContentArrives, To
      <4>2. m[2].type # "interest" /\ m[2].name = n
        BY DEF Content
      <4> HIDE DEF m
      <4> QED BY <4>1, <4>2, AppAnswer
    <3> QED BY <2>c, <2>3, <3>1 DEF ContentArrives
  <2>4. ASSUME NEW n \in Names, NEW src \in Ids, NEW reason \in Reason,
               NEW fromLocal \in BOOLEAN, NackArrives(src, n, reason, fromLocal)
        PROVE  NoAppForgotten'
    <3>1. CASE NackCounted(src, n)
      <4> DEFINE e == [pit[n] EXCEPT !.nacked = @ \cup {src}, !.forwards = @ - 1]
      <4>1. pit[n] \in PitEntry /\ pit[n].forwards \in Nat /\ pit[n].forwards > 1
        BY <2>a, <3>1 DEF NackCounted, PitEntry
      <4>2. e.faces = pit[n].faces /\ e # None
        <5>1. pit[n].forwards - 1 \in Nat /\ pit[n].nacked \cup {src} \in SUBSET Ids
          BY <4>1 DEF PitEntry
        <5>2. e \in PitEntry /\ e.faces = pit[n].faces
          BY <4>1, <5>1 DEF PitEntry
        <5> QED BY <5>2
      <4>3. pit' = [pit EXCEPT ![n] = e]
        BY <2>a, <3>1 DEF NackCounted
      <4>4. n \in apps' => LocalApps(e) # {}
        BY <2>b, <3>1, <4>2 DEF NackCounted, LocalApps
      <4> QED BY <2>c, <3>1, <4>2, <4>3, <4>4 DEF NackCounted
    <3>2. CASE NackTriesNextRoute(src, n)
      <4> DEFINE e == Exhausted(src, n)
                 route == NextRoute(e, n)
                 x == CountForwards(e, route)
      <4>1. e \in PitEntry /\ e.faces = pit[n].faces
        BY <3>2, ExhaustedType DEF NackTriesNextRoute
      <4>2. route # None
        BY <3>2 DEF NackTriesNextRoute, LastNack
      <4>3. route \in Route
        BY <4>2, FibRoute DEF NextRoute
      <4>4. x \in PitEntry /\ x.faces = pit[n].faces
        BY <4>1, <4>3, CountForwardsType
      <4>5. n \in apps' => x # None /\ LocalApps(x) # {}
        BY <2>b, <3>2, <4>4 DEF NackTriesNextRoute, LocalApps
      <4> QED BY <2>c, <3>2, <4>5 DEF NackTriesNextRoute
    <3>3. CASE NackOnThunk(src, n, reason) \/ NackToApps(src, n, reason)
      <4>1. apps' = apps \ {n} /\ \E e : pit' = [pit EXCEPT ![n] = e]
        BY <3>3 DEF NackOnThunk, NackToApps
      <4> QED BY <2>c, <4>1
    <3>4. CASE NackToConsumers(src, n, reason)
      BY <2>b, <2>c, <3>4 DEF NackToConsumers
    <3> QED BY <2>4, <3>1, <3>2, <3>3, <3>4 DEF NackArrives
  <2>5. ASSUME NEW late \in SUBSET Names, NEW k \in Expiries, Ageing(late, k)
        PROVE  NoAppForgotten'
    <3> DEFINE dead == {n \in late : pit[n].retransmits > PitRetransmits}
    <3> SUFFICES ASSUME NEW n \in apps' PROVE pit'[n] # None /\ LocalApps(pit'[n]) # {}
      BY DEF NoAppForgotten
    <3>1. n \in apps /\ n \in Names /\ n \notin AppsAnswered(sent')
      BY <2>a, <2>5 DEF Ageing
    <3>2. pit[n] \in PitEntry /\ LocalApps(pit[n]) # {} /\ n \in Pending
      BY <2>b, <3>1 DEF Pending
    <3>3. n \notin dead
      <4> SUFFICES ASSUME n \in dead PROVE n \in AppsAnswered(sent')
        BY <3>1
      <4>1. PICK r \in LocalApps(pit[n]) : TRUE
        BY <3>2
      <4> DEFINE m == <<r[1], Nack(n, "pit_timeout")>>
      <4>2. sent'.higher = UNION {{<<q[1], Nack(i, "pit_timeout")>> :
                                      q \in LocalApps(pit[i])} : i \in dead}
        BY <2>5 DEF Ageing
      <4>3. m \in sent'.higher
        BY <4>1, <4>2
      <4>4. m[2].type # "interest" /\ m[2].name = n
        BY DEF Nack
      <4> HIDE DEF m
      <4> QED BY <4>3, <4>4, AppAnswer
    <3>4. pit'[n] = Older(pit[n])
      BY <2>5, <3>1, <3>2, <3>3 DEF Ageing
    <3>5. Older(pit[n]) \in PitEntry /\ Older(pit[n]).faces = pit[n].faces
      <4>1. pit[n].retransmits + 1 \in Nat
        BY <3>2 DEF PitEntry
      <4> QED BY <3>2, <4>1 DEF Older, PitEntry
    <3> QED BY <3>2, <3>4, <3>5 DEF LocalApps
  <2>6. CASE Management \/ UNCHANGED vars
    BY <2>6 DEF Management, NewForwardingRule, NewContent, NoAppForgotten, vars
  <2>7. Faces \subseteq Ids /\ AppIds \subseteq Ids /\ "upstream" \in Reason
    BY DEF Ids, Reason
  <2> QED BY <2>1, <2>2, <2>3, <2>4, <2>5, <2>6, <2>7
          DEF Next, Network, Application
<1> QED BY <1>1, <1>2, TypeCorrect, PTL DEF Spec

-----------------------------------------------------------------------------
LEMMA ConsumersAnswered ==
    ASSUME NEW out, NEW ids, NEW p, p.type # "interest", out.lower = To(ids, p)
    PROVE  Answered(out) = {<<p.name, g>> : g \in ids}
<1>1. \A m : m \in out.lower <=> \E g \in ids : m = <<g, p>>
  BY DEF To
<1>2. Replies(out.lower) = out.lower
  BY <1>1 DEF Replies
<1>3. ASSUME NEW x \in Answered(out) PROVE x \in {<<p.name, g>> : g \in ids}
  <2>1. PICK m \in Replies(out.lower) : x = <<m[2].name, m[1]>>
    BY <1>3 DEF Answered
  <2>2. PICK g \in ids : m = <<g, p>>
    BY <1>1, <1>2, <2>1
  <2> QED BY <2>1, <2>2
<1>4. ASSUME NEW g \in ids PROVE <<p.name, g>> \in Answered(out)
  <2> DEFINE m == <<g, p>>
  <2>1. m \in Replies(out.lower) /\ m[2].name = p.name /\ m[1] = g
    BY <1>1, <1>2
  <2> HIDE DEF m
  <2> QED BY <2>1 DEF Answered
<1> QED BY <1>3, <1>4

(* In a forwarder without a higher layer the PIT holds exactly the         *)
(* consumers that wait.                                                    *)
LEMMA ConsumersHeld ==
    ASSUME AppIds = {}
    PROVE  Spec => [](NobodyForgotten /\ NobodyAnsweredTwice)
<1> DEFINE Held(n, f) == pit[n] # None /\ <<f, FALSE>> \in pit[n].faces
           Inv == \A n \in Names, f \in Faces :
                     /\ <<n, f>> \in waiting => Held(n, f)
                     /\ Held(n, f) /\ cs[n] = << >> => <<n, f>> \in waiting
<1>1. Init => Inv
  BY DEF Init
<1>2. TypeOK /\ CachedNotPending /\ Inv /\ [Next]_vars => Inv'
  <2> SUFFICES ASSUME TypeOK, CachedNotPending, Inv, [Next]_vars PROVE Inv'
    OBVIOUS
  <2> USE NoneAssumption
  <2>a. /\ pit \in [Names -> PitEntry \cup {None}]
        /\ cs \in [Names -> Seq(CsItem)]
        /\ waiting \subseteq Names \X Faces
    BY DEF TypeOK
  (* A handler that changes the entry of one name. *)
  <2>b. ASSUME NEW n \in Names, NEW e, pit' = [pit EXCEPT ![n] = e],
               \A i \in Names \ {n}, g \in Faces :
                   /\ <<i, g>> \in waiting' <=> <<i, g>> \in waiting
                   /\ cs'[i] = cs[i],
               \A g \in Faces :
                   <<n, g>> \in waiting' <=> e # None /\ <<g, FALSE>> \in e.faces
        PROVE  Inv'
    BY <2>a, <2>b
  (* A handler that keeps the requesters of every name. *)
  <2>c. ASSUME UNCHANGED waiting,
               \A n \in Names : /\ pit'[n] = None <=> pit[n] = None
                                /\ pit[n] # None => pit'[n].faces = pit[n].faces
                                /\ cs'[n] = << >> => cs[n] = << >>
        PROVE  Inv'
    BY <2>c
  <2>1. ASSUME NEW n \in Names, NEW f \in Faces, InterestFromLower(f, n)
        PROVE  Inv'
    <3>1. CASE InterestHit(f, n)
      <4>1. cs[n] # << >> /\ cs[n] \in Seq(CsItem)
        BY <2>a, <3>1 DEF InterestHit
      <4>2. Touched(cs[n]) # << >>
        <5>1. Tail(cs[n]) \in Seq(CsItem) /\ cs[n][1] \in CsItem
          BY <4>1, HeadTailProperties, EmptySeq, ElementOfSeq
        <5> DEFINE rest == Tail(cs[n])
                   first == cs[n][1]
        <5>2. rest \in Seq(CsItem) /\ first \in CsItem /\
              Touched(cs[n]) = Append(rest, first)
          BY <5>1 DEF Touched
        <5> HIDE DEF rest, first
        <5> QED BY <5>2, AppendProperties
      <4>3. /\ \A i \in Names \ {n}, g \in Faces :
                   <<i, g>> \in waiting' <=> <<i, g>> \in waiting
            /\ waiting' \subseteq waiting /\ UNCHANGED pit
            /\ cs'[n] # << >> /\ \A i \in Names \ {n} : cs'[i] = cs[i]
        BY <2>a, <3>1, <4>2 DEF InterestHit
      <4> QED BY <2>a, <4>3
    <3>2. CASE InterestAggregated(f, n)
      <4> DEFINE old == Refreshed(pit[n])
                 e == AddRequester(old, f, FALSE)
      <4>1. old \in PitEntry /\ old.faces = pit[n].faces
        BY <2>a, <3>2 DEF InterestAggregated, Refreshed, PitEntry
      <4> HIDE DEF old
      <4>2. e \in PitEntry /\ e.faces = pit[n].faces \cup {<<f, FALSE>>}
        <5>1. e \in PitEntry /\ old.faces \subseteq e.faces
              /\ e.faces \subseteq old.faces \cup {<<f, FALSE>>}
          BY <4>1, AddConsumer
        <5>2. <<f, FALSE>> \in e.faces
          BY <4>1, ConsumerRecorded
        <5> HIDE DEF e
        <5> QED BY <4>1, <5>1, <5>2
      <4>3. cs[n] = << >> /\ pit[n] # None /\ waiting' = waiting \cup {<<n, f>>}
            /\ UNCHANGED cs /\ pit' = [pit EXCEPT ![n] = e]
        BY <3>2 DEF InterestAggregated, old
      <4> HIDE DEF e
      <4>4. \A g \in Faces : <<n, g>> \in waiting' <=>
                                  e # None /\ <<g, FALSE>> \in e.faces
        BY <4>2, <4>3
      <4> QED BY <2>b, <4>3, <4>4
    <3>3. ASSUME pit[n] = None, UNCHANGED cs, waiting' = waiting \cup {<<n, f>>},
                 NEW e \in PitEntry, e.faces = {<<f, FALSE>>},
                 pit' = [pit EXCEPT ![n] = e]
          PROVE  Inv'
      <4>1. \A g \in Faces : <<n, g>> \in waiting' <=>
                                  e # None /\ <<g, FALSE>> \in e.faces
        BY <3>3
      <4> QED BY <2>b, <3>3, <4>1
    <3>4. CASE InterestGoesUp(f, n)
      BY <3>3, <3>4, NewConsumer DEF InterestGoesUp
    <3>5. CASE InterestForwarded(f, n)
      <4> DEFINE route == FindFib(fib, n, {}, {f})
                 e == CountForwards(NewEntry(f, FALSE), route)
      <4>1. route \in Route
        BY <3>5, FibRoute DEF InterestForwarded
      <4>2. e \in PitEntry /\ e.faces = {<<f, FALSE>>}
        BY <4>1, NewConsumer, CountForwardsType
      <4> QED BY <3>3, <3>5, <4>2 DEF InterestForwarded
    <3>6. CASE InterestRefused(f, n)
      BY <2>a, <3>6 DEF InterestRefused
    <3> QED BY <2>1, <3>1, <3>2, <3>4, <3>5, <3>6 DEF InterestFromLower
  (* A handler that answers all the consumers of a name and drops its entry. *)
  <2>2. ASSUME NEW n \in Names, pit[n] # None, NEW p \in Packet,
               p.type # "interest", p.name = n,
               sent'.lower = To(NetworkFaces(pit[n]), p),
               waiting' = waiting \ Answered(sent'),
               pit' = [pit EXCEPT ![n] = None],
               \A i \in Names \ {n} : cs'[i] = cs[i]
        PROVE  Inv'
    <3>1. Answered(sent') = {<<n, g>> : g \in NetworkFaces(pit[n])}
      BY <2>2, ConsumersAnswered
    <3>2. \A g \in Faces : <<n, g>> \in waiting => g \in NetworkFaces(pit[n])
      BY <2>a, <2>2, InNetworkFaces
    <3>3. \A g \in Faces : <<n, g>> \notin waiting'
      BY <2>2, <3>1, <3>2
    <3>4. \A i \in Names \ {n}, g \in Faces :
              <<i, g>> \in waiting' <=> <<i, g>> \in waiting
      BY <2>2, <3>1
    <3>5. \A i \in Names \ {n}, g \in Faces :
              /\ <<i, g>> \in waiting' <=> <<i, g>> \in waiting
              /\ cs'[i] = cs[i]
      BY <2>2, <3>4
    <3>6. \A i \in Names \ {n} : pit'[i] = pit[i]
      BY <2>a, <2>2
    <3>7. pit'[n] = None
      BY <2>a, <2>2
    <3> QED BY <3>3, <3>5, <3>6, <3>7
  <2>3. ASSUME NEW n \in Names, NEW src \in Ids, NEW d \in Data,
               ContentArrives(src, n, d)
        PROVE  Inv'
    <3>1. Content(n, d) \in Packet /\ Content(n, d).type # "interest"
          /\ Content(n, d).name = n
      BY PacketType DEF Content
    <3>2. pit[n] # None /\ sent'.lower = To(NetworkFaces(pit[n]), Content(n, d))
      BY <2>3 DEF ContentArrives
    <3> QED BY <2>a, <2>2, <2>3, <3>1, <3>2 DEF ContentArrives
  <2>4. ASSUME NEW n \in Names, NEW src \in Ids, NEW reason \in Reason,
               NEW fromLocal \in BOOLEAN, NackArrives(src, n, reason, fromLocal)
        PROVE  Inv'
    <3>a. ASSUME NEW e \in PitEntry, e.faces = pit[n].faces, pit[n] # None,
                 pit' = [pit EXCEPT ![n] = e], UNCHANGED <<cs, waiting>>
          PROVE  Inv'
      BY <2>a, <2>c, <3>a
    <3>1. CASE NackCounted(src, n)
      <4> DEFINE e == [pit[n] EXCEPT !.nacked = @ \cup {src}, !.forwards = @ - 1]
      <4>1. pit[n] \in PitEntry /\ pit[n].forwards \in Nat /\ pit[n].forwards > 1
        BY <2>a, <3>1 DEF NackCounted, PitEntry
      <4>2. pit[n].forwards - 1 \in Nat /\ pit[n].nacked \cup {src} \in SUBSET Ids
        BY <4>1 DEF PitEntry
      <4>3. e \in PitEntry /\ e.faces = pit[n].faces
        BY <4>1, <4>2 DEF PitEntry
      <4>4. pit' = [pit EXCEPT ![n] = e]
        BY <2>a, <3>1 DEF NackCounted
      <4> QED BY <3>a, <3>1, <4>3, <4>4 DEF NackCounted
    <3>2. CASE NackTriesNextRoute(src, n)
      <4> DEFINE e == Exhausted(src, n)
                 route == NextRoute(e, n)
                 x == CountForwards(e, route)
      <4>1. e \in PitEntry /\ e.faces = pit[n].faces
        BY <3>2, ExhaustedType DEF NackTriesNextRoute
      <4>2. route # None
        BY <3>2 DEF NackTriesNextRoute, LastNack
      <4>3. route \in Route
        BY <4>2, FibRoute DEF NextRoute
      <4>4. x \in PitEntry /\ x.faces = pit[n].faces
        BY <4>1, <4>3, CountForwardsType
      <4> QED BY <3>a, <3>2, <4>4 DEF NackTriesNextRoute
    <3>3. CASE NackOnThunk(src, n, reason)
      BY <3>a, <3>3, ExhaustedType DEF NackOnThunk, LastNack
    <3>4. ~NackToApps(src, n, reason)
      BY <2>a, NoLocalApps DEF NackToApps, LastNack
    <3>5. CASE NackToConsumers(src, n, reason)
      <4>1. Nack(n, reason) \in Packet /\ Nack(n, reason).type # "interest"
            /\ Nack(n, reason).name = n
        BY PacketType DEF Nack
      <4>2. pit[n] # None /\ sent'.lower = To(NetworkFaces(pit[n]), Nack(n, reason))
        BY <3>5 DEF NackToConsumers, LastNack, Lower
      <4> QED BY <2>2, <3>5, <4>1, <4>2 DEF NackToConsumers
    <3> QED BY <2>4, <3>1, <3>2, <3>3, <3>4, <3>5 DEF NackArrives
  <2>5. ASSUME NEW late \in SUBSET Names, NEW k \in Expiries, Ageing(late, k)
        PROVE  Inv'
    <3> SUFFICES ASSUME NEW n \in Names, NEW f \in Faces
                 PROVE  /\ <<n, f>> \in waiting' => Held(n, f)'
                        /\ Held(n, f)' /\ cs'[n] = << >> => <<n, f>> \in waiting'
      OBVIOUS
    <3> DEFINE dead == {i \in late : pit[i].retransmits > PitRetransmits}
    <3>1. /\ pit'[n] = IF n \in Pending \ dead THEN Older(pit[n]) ELSE None
          /\ <<n, f>> \in waiting' <=> <<n, f>> \in waiting /\ n \notin dead
          /\ cs'[n] = Swept(cs[n], k[n])
      BY <2>5 DEF Ageing
    <3>2. CASE n \in Pending \ dead
      <4>1. pit[n] \in PitEntry /\ pit[n] # None
        BY <2>a, <3>2 DEF Pending
      <4>2. Older(pit[n]) \in PitEntry /\ Older(pit[n]).faces = pit[n].faces
        <5>1. pit[n].retransmits + 1 \in Nat
          BY <4>1 DEF PitEntry
        <5> QED BY <4>1, <5>1 DEF Older, PitEntry
      <4>3. Held(n, f)' <=> Held(n, f)
        BY <3>1, <3>2, <4>1, <4>2
      <4>4. cs'[n] = cs[n]
        <5>1. cs[n] \in Seq(CsItem) /\ k[n] \in 0 .. Len(cs[n])
          BY <2>a DEF Expiries
        <5>2. \A i \in DOMAIN cs[n] : cs[n][i].static
          BY <3>2 DEF CachedNotPending
        <5> QED BY <3>1, <5>1, <5>2, StaticNotSwept
      <4> QED BY <3>1, <3>2, <4>3, <4>4
    <3>3. CASE n \notin Pending \ dead
      BY <3>1, <3>3 DEF Pending
    <3> QED BY <3>2, <3>3
  <2>6. ASSUME NEW rule \in Rules, NewForwardingRule(rule)
        PROVE  Inv'
    BY <2>6 DEF NewForwardingRule
  <2>7. ASSUME NEW n \in Names, NEW d \in MgmtData, NewContent(n, d)
        PROVE  Inv'
    <3>1. AddContent(cs[n], d, TRUE) = << >> => cs[n] = << >>
      <4> DEFINE items == cs[n]
                 new == [data |-> d, static |-> TRUE]
      <4>1. items \in Seq(CsItem) /\ new \in CsItem
        BY <2>a, LayerAssumption DEF CsItem
      <4>2. AddContent(items, d, TRUE) = IF Cached(items, d) THEN items
                                         ELSE Append(items, new)
        BY DEF AddContent
      <4> HIDE DEF items, new
      <4>3. Append(items, new) # << >>
        BY <4>1, AppendProperties, ZenonT(60)
      <4>4. AddContent(items, d, TRUE) = << >> => items = << >>
        BY <4>2, <4>3
      <4> QED BY <4>4 DEF items
    <3>2. \A i \in Names : cs'[i] = << >> => cs[i] = << >>
      BY <2>a, <2>7, <3>1 DEF NewContent
    <3> QED BY <2>c, <2>7, <3>2 DEF NewContent
  <2>8. CASE UNCHANGED vars
    BY <2>8 DEF vars
  <2>9. Faces \subseteq Ids /\ AppIds \subseteq Ids /\ "upstream" \in Reason
    BY DEF Ids, Reason
  <2> QED BY <2>1, <2>3, <2>4, <2>5, <2>6, <2>7, <2>8, <2>9
          DEF Next, Network, Application, Management
<1>3. TypeOK /\ Inv => NobodyForgotten /\ NobodyAnsweredTwice
  <2> SUFFICES ASSUME TypeOK, Inv PROVE NobodyForgotten /\ NobodyAnsweredTwice
    OBVIOUS
  <2>1. \A n \in Names, f \in Faces : pit[n] # None =>
            (f \in NetworkFaces(pit[n]) <=> <<f, FALSE>> \in pit[n].faces)
    BY PendingEntry, InNetworkFaces
  <2>2. \A n \in Names : pit[n] # None => NetworkFaces(pit[n]) \subseteq Faces
    BY PendingEntry, NetworkFacesType
  <2>3. NobodyForgotten
    <3> SUFFICES ASSUME NEW w \in waiting
                 PROVE  pit[w[1]] # None /\ w[2] \in NetworkFaces(pit[w[1]])
      BY DEF NobodyForgotten
    <3>1. w \in Names \X Faces
      BY DEF TypeOK
    <3>2. w = <<w[1], w[2]>> /\ w[1] \in Names /\ w[2] \in Faces
      BY <3>1, PairShape
    <3> QED BY <2>1, <3>2
  <2>4. NobodyAnsweredTwice
    BY <2>1, <2>2 DEF NobodyAnsweredTwice, Pending
  <2> QED BY <2>3, <2>4
<1> QED BY <1>1, <1>2, <1>3, TypeCorrect, CachedCorrect, PTL DEF Spec

(* No handler of a forwarder drops a consumer unanswered: whoever waits is *)
(* in the PIT entry of the name, whatever arrives, is refused, is sent     *)
(* again or is managed meanwhile.                                          *)
THEOREM ConsumersCorrect ==
    ASSUME AppIds = {}
    PROVE  Spec => []NobodyForgotten
BY ConsumersHeld, PTL

(* No handler of a forwarder answers a consumer and keeps it in the PIT,   *)
(* where a later packet would answer it once more.                         *)
THEOREM AnsweredOnceCorrect ==
    ASSUME AppIds = {}
    PROVE  Spec => []NobodyAnsweredTwice
BY ConsumersHeld, PTL

-----------------------------------------------------------------------------
LEMMA NetworkFacesAreFaceIds ==
    ASSUME NEW e
    PROVE  NetworkFaces(e) \subseteq FaceIds(e)
BY DEF NetworkFaces, FaceIds

(* No interest, forwarded or retransmitted, goes to a face that waits for  *)
(* the same name, whichever route is tried and whoever joined in between.  *)
THEOREM HairpinCorrect == Spec => []NoHairpin
<1>1. Init => NoHairpin
  BY DEF Init, NoHairpin, Quiet
<1>2. TypeOK /\ NoHairpin /\ [Next]_vars => NoHairpin'
  <2> SUFFICES ASSUME TypeOK, NoHairpin, [Next]_vars PROVE NoHairpin'
    OBVIOUS
  <2> USE NoneAssumption
  <2>a. pit \in [Names -> PitEntry \cup {None}]
    BY DEF TypeOK
  (* A handler that sends no interest. *)
  <2>b. ASSUME \A m \in sent'.lower : m[2].type # "interest"
        PROVE  NoHairpin'
    BY <2>b DEF NoHairpin
  <2>c. ASSUME NEW ids, NEW p, p.type # "interest", sent'.lower = To(ids, p)
        PROVE  NoHairpin'
    <3>1. \A m \in sent'.lower : m[2] = p
      BY <2>c DEF To
    <3> QED BY <2>b, <2>c, <3>1
  <2>d. ASSUME sent'.lower = {}
        PROVE  NoHairpin'
    BY <2>b, <2>d
  (* A handler that sends the interest of one name. *)
  <2>e. ASSUME NEW n \in Names, NEW ids, NEW e \in PitEntry,
               sent' = Lower(To(ids, Interest(n))), pit' = [pit EXCEPT ![n] = e],
               ids \cap NetworkFaces(e) = {}
        PROVE  NoHairpin'
    <3>1. sent'.lower = To(ids, Interest(n)) /\ pit'[n] = e /\ e # None
      BY <2>a, <2>e DEF Lower
    <3>2. \A m \in sent'.lower : m[2].name = n /\ m[1] \in ids
      BY <3>1 DEF To, Interest
    <3> QED BY <2>e, <3>1, <3>2 DEF NoHairpin
  <2>1. ASSUME NEW n \in Names, NEW f \in Faces, InterestFromLower(f, n)
        PROVE  NoHairpin'
    <3>1. CASE InterestHit(f, n)
      <4> DEFINE p == Content(n, Found(cs[n]).data)
      <4>1. sent'.lower = To({f}, p) /\ p.type # "interest"
        BY <3>1 DEF InterestHit, Lower, Content
      <4> HIDE DEF p
      <4> QED BY <2>c, <4>1
    <3>2. CASE InterestAggregated(f, n) \/ InterestGoesUp(f, n)
      <4>1. sent' = Quiet \/ \E ms : sent' = Higher(ms)
        BY <3>2 DEF InterestAggregated, InterestGoesUp
      <4>2. sent'.lower = {}
        BY <4>1 DEF Quiet, Higher
      <4> QED BY <2>d, <4>2
    <3>3. CASE InterestForwarded(f, n)
      <4> DEFINE route == FindFib(fib, n, {}, {f})
                 e == CountForwards(NewEntry(f, FALSE), route)
      <4>1. route \in Route /\ route.faceid \cap {f} = {}
        BY <3>3, FibRoute DEF InterestForwarded
      <4>2. e \in PitEntry /\ e.faces = {<<f, FALSE>>}
        BY <4>1, NewConsumer, CountForwardsType
      <4>3. NetworkFaces(e) \subseteq {f}
        <5>1. \A g \in NetworkFaces(e) : <<g, FALSE>> \in e.faces
          BY <4>2, InNetworkFaces
        <5>2. \A g : <<g, FALSE>> \in {<<f, FALSE>>} => g = f
          OBVIOUS
        <5> QED BY <4>2, <5>1, <5>2, Zenon
      <4>4. /\ sent' = Lower(To(route.faceid, Interest(n)))
            /\ pit' = [pit EXCEPT ![n] = e]
        BY <3>3 DEF InterestForwarded
      <4> HIDE DEF route, e
      <4> QED BY <2>e, <4>1, <4>2, <4>3, <4>4
    <3>4. CASE InterestRefused(f, n)
      <4> DEFINE p == Nack(n, "no_route")
      <4>1. sent'.lower = To({f}, p) /\ p.type # "interest"
        BY <3>4 DEF InterestRefused, Lower, Nack
      <4> HIDE DEF p
      <4> QED BY <2>c, <4>1
    <3> QED BY <2>1, <3>1, <3>2, <3>3, <3>4 DEF InterestFromLower
  <2>2. ASSUME NEW n \in Names, NEW a \in AppIds, InterestFromHigher(a, n)
        PROVE  NoHairpin'
    <3>1. CASE AppHit(a, n)
      BY <2>d, <3>1 DEF AppHit, Higher
    <3>2. CASE AppForwarded(a, n)
      <4> DEFINE added == AddRequester(pit[n], a, TRUE)
                 e == [added EXCEPT !.forwards = 0]
                 x == CountForwards(e, AppRoute(n))
                 known == IF pit[n] = None THEN {} ELSE FaceIds(pit[n])
                 ids == Unnacked(e, AppRoute(n))
      <4>1. /\ AppRoute(n) \in Route
            /\ AppRoute(n).faceid \cap known = {}
        BY <3>2, FibRoute DEF AppForwarded, AppRoute
      <4>2. added \in PitEntry /\ NetworkFaces(added) \subseteq known
        <5>1. CASE pit[n] = None
          <6>1. added = NewEntry(a, TRUE)
            BY <5>1, NewApp, Zenon
          <6>2. added \in PitEntry /\ added.faces = {<<a, TRUE>>}
            BY <6>1, NewApp
          <6>3. <<a, TRUE>> \in LocalApps(added)
            <7> DEFINE r == <<a, TRUE>>
            <7>1. r[2] /\ added.faces = {r}
              BY <6>2
            <7> HIDE DEF r
            <7> QED BY <7>1 DEF LocalApps, r
          <6> QED BY <6>2, <6>3 DEF NetworkFaces
        <5>2. CASE pit[n] # None
          <6>1. /\ pit[n] \in PitEntry /\ added \in PitEntry
                /\ added.faces \subseteq pit[n].faces \cup {<<a, TRUE>>}
            BY <2>a, <5>2, AddApp
          <6>2. ASSUME NEW g \in NetworkFaces(added)
                PROVE  g \in FaceIds(pit[n])
            <7>1. <<g, FALSE>> \in added.faces
              BY <6>1, InNetworkFaces
            <7>2. <<g, FALSE>> # <<a, TRUE>>
              OBVIOUS
            <7>3. <<g, FALSE>> \in pit[n].faces
              BY <6>1, <7>1, <7>2
            <7>4. g \in NetworkFaces(pit[n])
              BY <6>1, <7>3, InNetworkFaces
            <7> QED BY <7>4, NetworkFacesAreFaceIds
          <6> QED BY <5>2, <6>1, <6>2
        <5> QED BY <5>1, <5>2
      <4>3. e \in PitEntry /\ e.faces = added.faces
        BY <4>2 DEF PitEntry
      <4>4. x \in PitEntry /\ x.faces = added.faces
        BY <4>1, <4>3, CountForwardsType
      <4>5. NetworkFaces(x) = NetworkFaces(added)
        BY <4>4 DEF NetworkFaces, LocalApps
      <4>6. ids \subseteq AppRoute(n).faceid
        BY DEF Unnacked
      <4>7. sent' = Lower(To(ids, Interest(n))) /\ pit' = [pit EXCEPT ![n] = x]
        BY <3>2 DEF AppForwarded
      <4> HIDE DEF added, e, x, known, ids
      <4> QED BY <2>e, <4>1, <4>2, <4>4, <4>5, <4>6, <4>7
    <3>3. CASE AppRefused(a, n)
      <4> DEFINE p == Nack(n, "no_route")
      <4>1. sent'.lower = {} \/ sent'.lower = To(NetworkFaces(pit[n]), p)
        BY <3>3 DEF AppRefused, Higher
      <4>2. p.type # "interest"
        BY DEF Nack
      <4> HIDE DEF p
      <4> QED BY <2>c, <2>d, <4>1, <4>2
    <3> QED BY <2>2, <3>1, <3>2, <3>3 DEF InterestFromHigher
  <2>3. ASSUME NEW n \in Names, NEW src \in Ids, NEW d \in Data,
               ContentArrives(src, n, d)
        PROVE  NoHairpin'
    <3> DEFINE p == Content(n, d)
    <3>1. sent'.lower = To(NetworkFaces(pit[n]), p) /\ p.type # "interest"
      BY <2>3 DEF ContentArrives, Content
    <3> HIDE DEF p
    <3> QED BY <2>c, <3>1
  <2>4. ASSUME NEW n \in Names, NEW src \in Ids, NEW reason \in Reason,
               NEW fromLocal \in BOOLEAN, NackArrives(src, n, reason, fromLocal)
        PROVE  NoHairpin'
    <3>1. CASE NackCounted(src, n)
      BY <2>d, <3>1 DEF NackCounted, Quiet
    <3>2. CASE NackTriesNextRoute(src, n)
      <4> DEFINE e == Exhausted(src, n)
                 route == NextRoute(e, n)
                 x == CountForwards(e, route)
                 ids == Unnacked(e, route)
      <4>1. e \in PitEntry
        BY <3>2, ExhaustedType DEF NackTriesNextRoute
      <4>2. route # None
        BY <3>2 DEF NackTriesNextRoute, LastNack
      <4>3. route \in Route /\ route.faceid \cap FaceIds(e) = {}
        BY <4>2, FibRoute DEF NextRoute
      <4>4. x \in PitEntry /\ x.faces = e.faces
        BY <4>1, <4>3, CountForwardsType
      <4>5. NetworkFaces(x) \subseteq FaceIds(e)
        BY <4>4, NetworkFacesAreFaceIds DEF FaceIds
      <4>6. ids \subseteq route.faceid
        BY DEF Unnacked
      <4>7. sent' = Lower(To(ids, Interest(n))) /\ pit' = [pit EXCEPT ![n] = x]
        BY <3>2 DEF NackTriesNextRoute
      <4> HIDE DEF e, x, route, ids
      <4> QED BY <2>e, <4>3, <4>4, <4>5, <4>6, <4>7
    <3>3. CASE NackOnThunk(src, n, reason) \/ NackToApps(src, n, reason)
      BY <2>d, <3>3 DEF NackOnThunk, NackToApps, Higher
    <3>4. CASE NackToConsumers(src, n, reason)
      <4> DEFINE p == Nack(n, reason)
      <4>1. sent'.lower = To(NetworkFaces(pit[n]), p) /\ p.type # "interest"
        BY <3>4 DEF NackToConsumers, Lower, Nack
      <4> HIDE DEF p
      <4> QED BY <2>c, <4>1
    <3> QED BY <2>4, <3>1, <3>2, <3>3, <3>4 DEF NackArrives
  <2>5. ASSUME NEW late \in SUBSET Names, NEW k \in Expiries, Ageing(late, k)
        PROVE  NoHairpin'
    <3> DEFINE kept == Pending \ {n \in late : pit[n].retransmits > PitRetransmits}
    <3> SUFFICES ASSUME NEW m \in sent'.lower
                 PROVE  pit'[m[2].name] # None
                        /\ m[1] \notin NetworkFaces(pit'[m[2].name])
      BY DEF NoHairpin
    <3>1. sent'.lower = UNION {Retransmissions(n) : n \in kept}
      BY <2>5 DEF Ageing
    <3>2. PICK n \in kept : m \in Retransmissions(n)
      BY <3>1
    <3>3. n \in Names /\ pit[n] \in PitEntry
      BY <2>a DEF Pending
    <3> DEFINE route == FindFib(fib, n, pit[n].used, FaceIds(pit[n]))
    <3>4. route # None /\ m \in To(Unnacked(pit[n], route), Interest(n))
      BY <3>2 DEF Retransmissions
    <3>5. m[1] \in route.faceid /\ m[2].name = n
      BY <3>4 DEF To, Unnacked, Interest
    <3>6. m[1] \notin FaceIds(pit[n])
      BY <3>4, <3>5, FibRoute
    <3>7. pit'[n] = Older(pit[n])
      BY <2>5, <3>3 DEF Ageing
    <3>8. Older(pit[n]) \in PitEntry /\ Older(pit[n]).faces = pit[n].faces
      <4>1. pit[n].retransmits + 1 \in Nat
        BY <3>3 DEF PitEntry
      <4> QED BY <3>3, <4>1 DEF Older, PitEntry
    <3>9. NetworkFaces(Older(pit[n])) \subseteq FaceIds(pit[n])
      BY <3>8, NetworkFacesAreFaceIds DEF FaceIds
    <3> QED BY <3>5, <3>6, <3>7, <3>8, <3>9
  <2>6. CASE Management
    <3>1. sent' = Quiet
      BY <2>6 DEF Management, NewForwardingRule, NewContent
    <3> QED BY <2>d, <3>1 DEF Quiet
  <2>7. CASE UNCHANGED vars
    BY <2>7 DEF vars, NoHairpin
  <2>8. Faces \subseteq Ids /\ AppIds \subseteq Ids /\ "upstream" \in Reason
    BY DEF Ids, Reason
  <2> QED BY <2>1, <2>2, <2>3, <2>4, <2>5, <2>6, <2>7, <2>8
          DEF Next, Network, Application
<1> QED BY <1>1, <1>2, TypeCorrect, PTL DEF Spec
-----------------------------------------------------------------------------
(* A forwarder among neighbours.  Interests are answered once, answers do  *)
(* not come after the entry is gone, and the faces of the routes are apart *)
(* from one another and from those of the consumers.                       *)
Apart(table) ==
    /\ table \in Seq(FibEntry)
    /\ \A k \in DOMAIN table : table[k].faceid \cap Consumers = {}
    /\ \A j, k \in DOMAIN table : j # k => table[j].faceid \cap table[k].faceid = {}

Tidy ==
    /\ ~InterestToApp /\ MaxOwed = 1 /\ ~LateAnswers
    /\ \A table \in InitialFibs : Apart(table)

(* The faces of consumers make no difference to a lookup.                  *)
LEMMA LookupApart ==
    ASSUME NEW table, Apart(table), NEW n, NEW used, NEW incoming \in SUBSET Consumers
    PROVE  FindFib(table, n, used, incoming) = FindFib(table, n, used, {})
<1>1. \A k \in DOMAIN table : table[k].faceid \ incoming = table[k].faceid \ {}
  BY DEF Apart
<1>2. Usable(table, n, used, incoming) = Usable(table, n, used, {})
  BY <1>1 DEF Usable
<1>3. BestOf(table, n, used, incoming) = BestOf(table, n, used, {})
  BY <1>2 DEF BestOf
<1>4. CASE Usable(table, n, used, {}) = {}
  BY <1>2, <1>4, FindFibIs
<1>5. CASE Usable(table, n, used, {}) # {}
  <2> DEFINE best == BestOf(table, n, used, {})
  <2>1. best \in DOMAIN table
    BY <1>5, BestUsable DEF Usable, Apart
  <2>2. FindFib(table, n, used, incoming) =
            [name |-> table[best].name, faceid |-> table[best].faceid \ incoming]
    BY <1>2, <1>3, <1>5, FindFibIs
  <2>3. FindFib(table, n, used, {}) =
            [name |-> table[best].name, faceid |-> table[best].faceid \ {}]
    BY <1>5, FindFibIs
  <2> HIDE DEF best
  <2> QED  BY <1>1, <2>1, <2>2, <2>3
<1> QED  BY <1>4, <1>5

LEMMA LookupIs ==
    ASSUME NEW table, Apart(table), NEW n, NEW used, FindFib(table, n, used, {}) # None
    PROVE  /\ FindFib(table, n, used, {}) \in Route \ used
           /\ FindFib(table, n, used, {}).faceid # {}
           /\ \E k \in DOMAIN table : FindFib(table, n, used, {}) = RouteOf(table[k])
<1> DEFINE best == BestOf(table, n, used, {})
<1>1. Usable(table, n, used, {}) # {}
  BY FindFibIs
<1>2. /\ best \in DOMAIN table /\ RouteOf(table[best]) \notin used
      /\ table[best].faceid # {}
  BY <1>1, BestUsable DEF Usable, Apart
<1>3. FindFib(table, n, used, {}) =
          [name |-> table[best].name, faceid |-> table[best].faceid \ {}]
  BY <1>1, FindFibIs
<1> HIDE DEF best
<1>4. FindFib(table, n, used, {}) = RouteOf(table[best])
  BY <1>3 DEF RouteOf
<1>5. RouteOf(table[best]).faceid = table[best].faceid
  BY DEF RouteOf
<1>6. FindFib(table, n, used, {}) \in Route
  BY FindFibRoute DEF Apart
<1> QED  BY <1>2, <1>4, <1>5, <1>6

(* What a pending entry waits for: the faces of the route in use that have *)
(* not refused; the counter says how many they are, whoever owes an answer *)
(* is among them, and a face that has refused is on no other route that is *)
(* left.                                                                   *)
Expects(e, table, n, owing) ==
    LET current == FindFib(table, n, e.used, {}) IN
    /\ e \in PitEntry /\ e.faces \subseteq Consumers \X {FALSE}
    /\ current # None
    /\ e.forwards = Cardinality(current.faceid \ e.nacked)
    /\ current.faceid \ e.nacked # {}
    /\ owing \subseteq current.faceid \ e.nacked
    /\ \A k \in DOMAIN table :
          table[k].faceid \cap e.nacked # {} => RouteOf(table[k]) \in e.used \cup {current}

LEMMA AskersAre ==
    ASSUME NEW e, e.faces \subseteq Consumers \X {FALSE}
    PROVE  FaceIds(e) \subseteq Consumers /\ LocalApps(e) = {}
<1>1. \A r \in e.faces : r[1] \in Consumers /\ r[2] = FALSE
  OBVIOUS
<1> QED  BY <1>1 DEF FaceIds, LocalApps

LEMMA FreshExpects ==
    ASSUME NEW table, Apart(table), NEW n, NEW f \in Consumers,
           FindFib(table, n, {}, {f}) # None
    PROVE  LET route == FindFib(table, n, {}, {f})
           IN  Expects(CountForwards(NewEntry(f, FALSE), route), table, n, route.faceid)
<1> DEFINE route == FindFib(table, n, {}, {})
           e == CountForwards(NewEntry(f, FALSE), route)
<1>1. FindFib(table, n, {}, {f}) = route
  BY LookupApart
<1>2. route # None /\ route \in Route /\ route.faceid # {}
  BY <1>1, LookupIs
<1> HIDE DEF route
<1>3. f \in Faces /\ NewEntry(f, FALSE) \in PitEntry
  BY NewConsumer, NeighbourAssumption
<1>4. e \in PitEntry
  BY <1>2, <1>3, CountForwardsType
<1>5. Unnacked(NewEntry(f, FALSE), route) = route.faceid
  BY DEF Unnacked, NewEntry
<1>6. Cardinality(route.faceid) \in Nat
  BY <1>2, <1>3, <1>5, UnnackedCount
<1>7. /\ e.faces = {<<f, FALSE>>} /\ e.nacked = {} /\ e.used = {}
      /\ e.forwards = Cardinality(route.faceid)
  BY <1>5, <1>6 DEF CountForwards, NewEntry
<1> HIDE DEF e
<1>8. Expects(e, table, n, route.faceid)
  <2>1. FindFib(table, n, e.used, {}) = route /\ route.faceid \ e.nacked = route.faceid
    BY <1>7 DEF route
  <2>2. e.faces \subseteq Consumers \X {FALSE}
    <3>1. <<f, FALSE>> \in Consumers \X {FALSE}
      OBVIOUS
    <3> QED  BY <1>7, <3>1, Zenon
  <2>3. \A k \in DOMAIN table : table[k].faceid \cap e.nacked = {}
    BY <1>7
  <2> QED  BY <1>2, <1>4, <1>7, <2>1, <2>2, <2>3 DEF Expects
<1> QED  BY <1>1, <1>8 DEF e

LEMMA JoinedExpects ==
    ASSUME NEW table, NEW n, NEW e, NEW owing, Expects(e, table, n, owing), NEW f \in Consumers
    PROVE  Expects(AddRequester(Refreshed(e), f, FALSE), table, n, owing)
<1>1. e \in PitEntry /\ Refreshed(e) \in PitEntry /\ f \in Faces /\ None \notin PitEntry
  BY NeighbourAssumption, NoneAssumption DEF Expects, Refreshed, PitEntry
<1>2. /\ Refreshed(e).faces = e.faces /\ Refreshed(e).nacked = e.nacked
      /\ Refreshed(e).used = e.used /\ Refreshed(e).forwards = e.forwards
  BY <1>1 DEF Refreshed, PitEntry
<1> DEFINE r == Refreshed(e)
           x == AddRequester(r, f, FALSE)
<1> HIDE DEF r
<1>3. /\ x \in PitEntry /\ x.faces \subseteq e.faces \cup {<<f, FALSE>>}
      /\ x.nacked = e.nacked /\ x.forwards = e.forwards
  BY <1>1, <1>2, AddConsumer DEF r
<1>4. x.used = e.used
  BY <1>1, <1>2 DEF AddRequester, r, PitEntry
<1> HIDE DEF x
<1>5. Expects(x, table, n, owing)
  <2>1. <<f, FALSE>> \in Consumers \X {FALSE} /\ e.faces \subseteq Consumers \X {FALSE}
    BY DEF Expects
  <2>2. x.faces \subseteq Consumers \X {FALSE}
    BY <1>3, <2>1, Zenon
  <2>3. FindFib(table, n, x.used, {}) = FindFib(table, n, e.used, {})
    BY <1>4
  <2> QED  BY <1>3, <1>4, <2>2, <2>3 DEF Expects
<1> QED  BY <1>5 DEF x, r

LEMMA OlderExpects ==
    ASSUME NEW table, NEW n, NEW e, NEW owing, Expects(e, table, n, owing),
           NEW asked, asked \subseteq FindFib(table, n, e.used, {}).faceid \ e.nacked
    PROVE  Expects(Older(e), table, n, owing \cup asked)
<1>1. /\ Older(e) \in PitEntry
      /\ Older(e).faces = e.faces /\ Older(e).nacked = e.nacked
      /\ Older(e).used = e.used /\ Older(e).forwards = e.forwards
  BY DEF Expects, Older, PitEntry
<1> QED  BY <1>1 DEF Expects

LEMMA FewerExpects ==
    ASSUME NEW table, NEW n, NEW e, NEW owing, Expects(e, table, n, owing),
           NEW fewer, fewer \subseteq owing
    PROVE  Expects(e, table, n, fewer)
BY DEF Expects

(* The faces that may still answer are finitely many.                      *)
LEMMA LeftCount ==
    ASSUME NEW table, Apart(table), NEW n, NEW e, NEW owing, Expects(e, table, n, owing)
    PROVE  LET left == FindFib(table, n, e.used, {}).faceid \ e.nacked
           IN  /\ IsFiniteSet(left) /\ Cardinality(left) \in Nat
               /\ \A f \in left : Cardinality(left \ {f}) = Cardinality(left) - 1
               /\ e.forwards <= 1 => \A f \in left : left = {f}
<1> DEFINE current == FindFib(table, n, e.used, {})
           left == current.faceid \ e.nacked
<1>1. current \in Route
  BY LookupIs DEF Expects
<1>2. left \subseteq Faces
  BY <1>1 DEF Route
<1>3. e.forwards = Cardinality(left) /\ left # {}
  BY DEF Expects
<1> HIDE DEF left
<1>4. IsFiniteSet(left) /\ Cardinality(left) \in Nat
  BY <1>2, FacesAssumption, FS_Subset, FS_CardinalityType
<1>5. \A f \in left : Cardinality(left \ {f}) = Cardinality(left) - 1
  BY <1>4, FS_RemoveElement
<1>6. ASSUME e.forwards <= 1, NEW f \in left  PROVE left = {f}
  <2>1. Cardinality(left) = 1
    <3>1. Cardinality(left) # 0
      BY <1>3, <1>4, FS_EmptySet
    <3> QED  BY <1>3, <1>4, <1>6, <3>1
  <2>2. PICK x : left = {x}
    BY <1>4, <2>1, FS_Singleton
  <2> QED  BY <1>6, <2>2
<1> QED  BY <1>4, <1>5, <1>6 DEF left

LEMMA CountedExpects ==
    ASSUME NEW table, Apart(table), NEW n, NEW e, NEW owing, Expects(e, table, n, owing),
           NEW f \in owing, e.forwards > 1
    PROVE  Expects([e EXCEPT !.nacked = @ \cup {f}, !.forwards = @ - 1], table, n, owing \ {f})
<1> DEFINE current == FindFib(table, n, e.used, {})
           left == current.faceid \ e.nacked
           x == [e EXCEPT !.nacked = @ \cup {f}, !.forwards = @ - 1]
<1>1. /\ e \in PitEntry /\ current # None /\ f \in left /\ e.forwards = Cardinality(left)
      /\ f \in current.faceid
  BY DEF Expects
<1>2. current \in Route /\ \E j \in DOMAIN table : current = RouteOf(table[j])
  BY <1>1, LookupIs
<1>3. f \in Ids
  BY <1>1, <1>2 DEF Route, Ids
<1>4. /\ x.faces = e.faces /\ x.used = e.used /\ x.nacked = e.nacked \cup {f}
      /\ x.forwards = e.forwards - 1 /\ x.retransmits = e.retransmits
      /\ x = [faces |-> x.faces, nacked |-> x.nacked, used |-> x.used,
              forwards |-> x.forwards, retransmits |-> x.retransmits]
  <2> DEFINE more == e.nacked \cup {f}
             fewer == e.forwards - 1
  <2>1. x = [e EXCEPT !.nacked = more, !.forwards = fewer]
    OBVIOUS
  <2> HIDE DEF more, fewer, x
  <2>2. /\ x.faces = e.faces /\ x.used = e.used /\ x.nacked = more
        /\ x.forwards = fewer /\ x.retransmits = e.retransmits
        /\ x = [faces |-> x.faces, nacked |-> x.nacked, used |-> x.used,
                forwards |-> x.forwards, retransmits |-> x.retransmits]
    BY <1>1, <2>1 DEF PitEntry
  <2> QED  BY <2>2 DEF more, fewer
<1> HIDE DEF x
<1>5. e.forwards \in Nat /\ e.forwards - 1 \in Nat /\ e.forwards - 1 >= 1
  BY <1>1 DEF PitEntry
<1>6. x \in PitEntry
  BY <1>1, <1>3, <1>4, <1>5 DEF PitEntry
<1>7. current.faceid \ x.nacked = left \ {f}
  BY <1>4
<1>8. /\ Cardinality(left \ {f}) = e.forwards - 1 /\ left \ {f} # {}
  <2>1. Cardinality(left \ {f}) = e.forwards - 1
    BY <1>1, LeftCount
  <2> QED  BY <1>5, <2>1, FS_EmptySet
<1>9. ASSUME NEW k \in DOMAIN table, table[k].faceid \cap x.nacked # {}
      PROVE  RouteOf(table[k]) \in x.used \cup {current}
  <2>1. CASE table[k].faceid \cap e.nacked # {}
    BY <1>4, <2>1 DEF Expects
  <2>2. CASE f \in table[k].faceid
    <3>1. PICK j \in DOMAIN table : current = RouteOf(table[j])
      BY <1>2
    <3>2. f \in table[j].faceid
      BY <1>1, <3>1 DEF RouteOf
    <3>3. j = k
      BY <2>2, <3>2 DEF Apart
    <3> QED  BY <3>1, <3>3
  <2> QED  BY <1>4, <1>9, <2>1, <2>2
<1>10. owing \subseteq left /\ x.faces \subseteq Consumers \X {FALSE}
  BY <1>4 DEF Expects
<1> HIDE DEF left
<1>11. Expects(x, table, n, owing \ {f})
  <2>1. FindFib(table, n, x.used, {}) = current
    BY <1>4
  <2> HIDE DEF current
  <2> QED  BY <1>1, <1>4, <1>6, <1>7, <1>8, <1>9, <1>10, <2>1 DEF Expects
<1> QED  BY <1>11 DEF x

(* The entry after the last refusal, with the route in use marked as used. *)
Spent(e, table, n, f) ==
    [e EXCEPT !.nacked = @ \cup {f}, !.forwards = 0,
              !.used = @ \cup {FindFib(table, n, e.used, {})}]

(* When the last face of a route has refused, the next route has only      *)
(* faces that have not, and not this one.                                  *)
LEMMA NextExpects ==
    ASSUME NEW table, Apart(table), NEW n, NEW e, NEW owing, Expects(e, table, n, owing),
           NEW f \in owing, e.forwards <= 1,
           FindFib(table, n, Spent(e, table, n, f).used, {}) # None
    PROVE  LET x == Spent(e, table, n, f)
               route == FindFib(table, n, x.used, {})
           IN  /\ Unnacked(x, route) = route.faceid /\ f \notin route.faceid /\ route.faceid # {}
               /\ Expects(CountForwards(x, route), table, n, route.faceid)
<1> DEFINE current == FindFib(table, n, e.used, {})
           x == Spent(e, table, n, f)
           route == FindFib(table, n, x.used, {})
           y == CountForwards(x, route)
<1>1. e \in PitEntry /\ current # None /\ f \in current.faceid
  BY DEF Expects
<1>2. PICK j \in DOMAIN table : current = RouteOf(table[j])
  BY <1>1, LookupIs
<1>3. current \in Route
  BY <1>1, LookupIs
<1>4. route \in Route /\ route \notin x.used /\ route.faceid # {} /\ route # None
  BY LookupIs
<1>5. PICK k \in DOMAIN table : route = RouteOf(table[k])
  BY LookupIs
<1> HIDE DEF current, x
<1>6. /\ x.faces = e.faces /\ x.used = e.used \cup {current} /\ x.nacked = e.nacked \cup {f}
      /\ x.forwards = 0 /\ x.retransmits = e.retransmits
      /\ x = [faces |-> x.faces, nacked |-> x.nacked, used |-> x.used,
              forwards |-> x.forwards, retransmits |-> x.retransmits]
  <2> DEFINE more == e.nacked \cup {f}
             used == e.used \cup {current}
  <2>1. x = [e EXCEPT !.nacked = more, !.forwards = 0, !.used = used]
    BY DEF Spent, x, current
  <2> HIDE DEF more, used
  <2>2. /\ x.faces = e.faces /\ x.used = used /\ x.nacked = more
        /\ x.forwards = 0 /\ x.retransmits = e.retransmits
        /\ x = [faces |-> x.faces, nacked |-> x.nacked, used |-> x.used,
                forwards |-> x.forwards, retransmits |-> x.retransmits]
    BY <1>1, <2>1 DEF PitEntry
  <2> QED  BY <2>2 DEF more, used
<1> HIDE DEF route
<1>7. f \in Ids
  BY <1>1, <1>3 DEF Route, Ids
<1>8. x \in PitEntry
  BY <1>1, <1>3, <1>6, <1>7 DEF PitEntry
<1>9. ASSUME NEW i \in DOMAIN table, table[i].faceid \cap x.nacked # {}
      PROVE  RouteOf(table[i]) \in x.used
  <2>1. CASE table[i].faceid \cap e.nacked # {}
    BY <1>6, <2>1 DEF Expects, current
  <2>2. CASE f \in table[i].faceid
    <3>1. f \in table[j].faceid
      BY <1>1, <1>2 DEF RouteOf
    <3>2. i = j
      BY <2>2, <3>1 DEF Apart
    <3> QED  BY <1>2, <1>6, <3>2
  <2> QED  BY <1>6, <1>9, <2>1, <2>2
<1>10. route.faceid \cap x.nacked = {}
  <2>1. route.faceid = table[k].faceid
    BY <1>5 DEF RouteOf
  <2> QED  BY <1>4, <1>5, <1>9, <2>1
<1>11. Unnacked(x, route) = route.faceid /\ f \notin route.faceid
  BY <1>6, <1>10 DEF Unnacked
<1>12. Cardinality(route.faceid) \in Nat
  BY <1>4, <1>8, <1>11, UnnackedCount
<1>13. /\ y \in PitEntry /\ y.faces = e.faces /\ y.nacked = x.nacked /\ y.used = x.used
       /\ y.forwards = Cardinality(route.faceid)
  <2>1. y \in PitEntry /\ y.faces = x.faces /\ y.nacked = x.nacked
    BY <1>4, <1>8, CountForwardsType
  <2>2. y.used = x.used /\ y.forwards = 0 + Cardinality(route.faceid)
    BY <1>6, <1>8, <1>11 DEF CountForwards, PitEntry
  <2> QED  BY <1>6, <1>12, <2>1, <2>2
<1> HIDE DEF y
<1>14. route.faceid \ y.nacked = route.faceid
  BY <1>10, <1>13
<1>15. FindFib(table, n, y.used, {}) = route /\ y.faces \subseteq Consumers \X {FALSE}
  BY <1>13 DEF route, Expects
<1>16. Expects(y, table, n, route.faceid)
  BY <1>4, <1>9, <1>13, <1>14, <1>15 DEF Expects
<1> QED  BY <1>4, <1>11, <1>16 DEF y, route, x

-----------------------------------------------------------------------------
OwedBy(n) == {f \in Faces : owes[<<f, n>>] > 0}

NInv ==
    /\ fib \in InitialFibs
    /\ pit \in [Names -> PitEntry \cup {None}]
    /\ owes \in [Faces \X Names -> {0, 1}]
    /\ \A n \in Names : IF pit[n] = None THEN OwedBy(n) = {}
                       ELSE Expects(pit[n], fib, n, OwedBy(n))

(* With one answer owed at most, owing answers is a set.                   *)
LEMMA OwingIs ==
    ASSUME Tidy, owes \in [Faces \X Names -> {0, 1}],
           NEW paid, \A p \in paid : p \in Faces \X Names => owes[p] > 0, Owing(paid)
    PROVE  /\ owes' \in [Faces \X Names -> {0, 1}]
           /\ \A n \in Names : pit'[n] = None => OwedBy(n)' = {}
           /\ \A n \in Names : OwedBy(n)' \subseteq
                 {f \in OwedBy(n) : <<f, n>> \notin paid}
                     \cup {f \in Faces : <<f, n>> \in Interests(sent')}
<1> DEFINE Left(p) == IF p \in paid THEN owes[p] - 1 ELSE owes[p]
<1>1. owes' = [p \in Faces \X Names |->
                IF pit'[p[2]] = None THEN 0
                ELSE IF p \in Interests(sent') /\ Left(p) < 1 THEN Left(p) + 1 ELSE Left(p)]
  BY DEF Owing, Tidy
<1>2. \A p \in Faces \X Names : Left(p) \in {0, 1} /\ (p \in paid => Left(p) = 0)
                               /\ (p \notin paid => Left(p) = owes[p])
  OBVIOUS
<1> HIDE DEF Left
<1>3. owes' \in [Faces \X Names -> {0, 1}]
  BY <1>1, <1>2
<1>4. ASSUME NEW n \in Names, NEW f \in Faces
      PROVE  owes'[<<f, n>>] = IF pit'[n] = None THEN 0
                           ELSE IF <<f, n>> \in Interests(sent') /\ Left(<<f, n>>) < 1
                                THEN Left(<<f, n>>) + 1 ELSE Left(<<f, n>>)
  BY <1>1
<1>5. ASSUME NEW n \in Names, NEW f \in OwedBy(n)'
      PROVE  /\ f \in Faces /\ pit'[n] # None
             /\ \/ f \in OwedBy(n) /\ <<f, n>> \notin paid
                \/ <<f, n>> \in Interests(sent')
  <2>1. f \in Faces /\ owes'[<<f, n>>] > 0
    BY DEF OwedBy
  <2>2. pit'[n] # None
    BY <1>4, <2>1
  <2>3. <<f, n>> \in Interests(sent') \/ Left(<<f, n>>) > 0
    BY <1>4, <2>1
  <2>4. Left(<<f, n>>) > 0 => <<f, n>> \notin paid /\ owes[<<f, n>>] > 0
    BY <1>2, <2>1
  <2> QED  BY <2>1, <2>2, <2>3, <2>4 DEF OwedBy
<1> QED  BY <1>3, <1>5

LEMMA AsksAre ==
    ASSUME NEW ids, NEW n
    PROVE  /\ Interests(Lower(To(ids, Interest(n)))) \subseteq {<<f, n>> : f \in ids}
           /\ Interests(Quiet) = {}
           /\ \A p, hs : p.type # "interest" => Interests([lower |-> To(ids, p), higher |-> hs]) = {}
  BY DEF Interests, Lower, To, Interest, Quiet, Replies

(* A step that changes the entry of one name and what is owed for it.      *)
LEMMA OneName ==
    ASSUME Tidy, NInv, NEW paid, Owing(paid),
           \A p \in paid : p \in Faces \X Names => owes[p] > 0,
           NEW n \in Names, NEW e \in PitEntry \cup {None}, pit' = [pit EXCEPT ![n] = e], fib' = fib,
           \A f \in Faces, m \in Names : <<f, m>> \in Interests(sent') => m = n,
           NEW owing, \A f \in OwedBy(n) : <<f, n>> \notin paid => f \in owing,
           \A f \in Faces : <<f, n>> \in Interests(sent') => f \in owing,
           e # None => Expects(e, fib, n, owing)
    PROVE  NInv'
<1>1. /\ owes' \in [Faces \X Names -> {0, 1}]
      /\ \A m \in Names : pit'[m] = None => OwedBy(m)' = {}
      /\ \A m \in Names : OwedBy(m)' \subseteq
             {f \in OwedBy(m) : <<f, m>> \notin paid}
                 \cup {f \in Faces : <<f, m>> \in Interests(sent')}
  BY OwingIs DEF NInv
<1>2. pit' \in [Names -> PitEntry \cup {None}] /\ pit'[n] = e /\ \A m \in Names \ {n} : pit'[m] = pit[m]
  BY DEF NInv
<1>3. ASSUME NEW m \in Names, pit'[m] # None
      PROVE  Expects(pit'[m], fib, m, OwedBy(m)')
  <2> DEFINE fewer == OwedBy(m)'
  <2>1. CASE m = n
    <3>1. fewer \subseteq owing
      BY <1>1, <2>1
    <3> HIDE DEF fewer
    <3>2. Expects(e, fib, n, fewer)
      BY <1>2, <1>3, <2>1, <3>1, FewerExpects
    <3> QED  BY <1>2, <2>1, <3>2 DEF fewer
  <2>2. CASE m # n
    <3>1. fewer \subseteq OwedBy(m)
      BY <1>1, <2>2
    <3> HIDE DEF fewer
    <3>2. Expects(pit[m], fib, m, OwedBy(m))
      BY <1>2, <1>3, <2>2 DEF NInv
    <3>3. Expects(pit[m], fib, m, fewer)
      BY <3>1, <3>2, FewerExpects
    <3> QED  BY <1>2, <2>2, <3>3 DEF fewer
  <2> QED  BY <2>1, <2>2
<1> QED  BY <1>1, <1>2, <1>3 DEF NInv

LEMMA Unasked ==
    ASSUME Tidy, NInv, NEW paid, Owing(paid),
           \A p \in paid : p \in Faces \X Names => owes[p] > 0,
           pit' = pit, fib' = fib, Interests(sent') = {}
    PROVE  NInv'
<1>1. /\ owes' \in [Faces \X Names -> {0, 1}]
      /\ \A m \in Names : pit'[m] = None => OwedBy(m)' = {}
      /\ \A m \in Names : OwedBy(m)' \subseteq OwedBy(m)
  BY OwingIs DEF NInv
<1>2. ASSUME NEW m \in Names, pit[m] # None
      PROVE  Expects(pit[m], fib, m, OwedBy(m)')
  <2> DEFINE owing == OwedBy(m)'
  <2>1. owing \subseteq OwedBy(m)
    BY <1>1
  <2> HIDE DEF owing
  <2>2. Expects(pit[m], fib, m, OwedBy(m))
    BY <1>2 DEF NInv
  <2>3. Expects(pit[m], fib, m, owing)
    BY <2>1, <2>2, FewerExpects
  <2> QED  BY <2>3 DEF owing
<1> QED  BY <1>1, <1>2 DEF NInv

LEMMA ConsumeKeeps ==
    ASSUME Tidy, NInv, NEW f \in Consumers, NEW n \in Names, Consume(f, n)
    PROVE  NInv'
<1>1. f \in Faces /\ Apart(fib) /\ Owing({}) /\ InterestFromLower(f, n)
  BY NeighbourAssumption DEF NInv, Tidy, Consume
<1>2. CASE InterestHit(f, n)
  <2> DEFINE p == Content(n, Found(cs[n]).data)
  <2>1. p.type # "interest" /\ sent' = [lower |-> To({f}, p), higher |-> {}]
    BY <1>2 DEF InterestHit, Content, Lower
  <2> HIDE DEF p
  <2>2. Interests(sent') = {}
    BY <2>1, AsksAre
  <2> QED  BY <1>1, <1>2, <2>2, Unasked DEF InterestHit
<1>3. CASE InterestAggregated(f, n)
  <2> DEFINE e == AddRequester(Refreshed(pit[n]), f, FALSE)
  <2>1. pit' = [pit EXCEPT ![n] = e] /\ fib' = fib /\ Interests(sent') = {}
    BY <1>3, AsksAre DEF InterestAggregated
  <2>2. Expects(e, fib, n, OwedBy(n))
    BY <1>3, JoinedExpects DEF InterestAggregated, NInv
  <2>3. e \in PitEntry
    BY <2>2 DEF Expects
  <2> HIDE DEF e
  <2> QED  BY <1>1, <2>1, <2>2, <2>3, OneName
<1>4. CASE InterestForwarded(f, n)
  <2> DEFINE route == FindFib(fib, n, {}, {f})
             e == CountForwards(NewEntry(f, FALSE), route)
  <2>1. /\ route # None /\ pit[n] = None /\ fib' = fib
        /\ pit' = [pit EXCEPT ![n] = e] /\ sent' = Lower(To(route.faceid, Interest(n)))
    BY <1>4 DEF InterestForwarded
  <2>2. Expects(e, fib, n, route.faceid) /\ e \in PitEntry
    <3>1. Expects(e, fib, n, route.faceid)
      BY <1>1, <2>1, FreshExpects
    <3> QED  BY <3>1 DEF Expects
  <2> HIDE DEF route, e
  <2>3. Interests(sent') \subseteq {<<g, n>> : g \in route.faceid} /\ OwedBy(n) = {}
    BY <2>1, AsksAre DEF NInv
  <2>4. \A g \in Faces, m \in Names : <<g, m>> \in Interests(sent') => m = n /\ g \in route.faceid
    BY <2>3
  <2>5. Owing({}) /\ e \in PitEntry \cup {None} /\ pit' = [pit EXCEPT ![n] = e] /\ fib' = fib
    BY <1>1, <2>1, <2>2 DEF e
  <2> QED  BY <2>2, <2>3, <2>4, <2>5, OneName
<1>5. CASE InterestRefused(f, n)
  <2> DEFINE p == Nack(n, "no_route")
  <2>1. p.type # "interest" /\ sent' = [lower |-> To({f}, p), higher |-> {}]
    BY <1>5 DEF InterestRefused, Nack, Lower
  <2> HIDE DEF p
  <2>2. Interests(sent') = {}
    BY <2>1, AsksAre
  <2> QED  BY <1>1, <1>5, <2>2, Unasked DEF InterestRefused
<1> QED  BY <1>1, <1>2, <1>3, <1>4, <1>5 DEF InterestFromLower, InterestGoesUp, Tidy

(* What is known when a neighbour that owes an answer answers.             *)
LEMMA AnswerFinds ==
    ASSUME Tidy, NInv, NEW f \in Faces, NEW n \in Names, owes[<<f, n>>] > 0, pit[n] # None
    PROVE  /\ Apart(fib) /\ f \in OwedBy(n) /\ Expects(pit[n], fib, n, OwedBy(n))
           /\ LocalApps(pit[n]) = {} /\ pit[n] \in PitEntry /\ pit[n].forwards \in Nat
           /\ \A used : FindFib(fib, n, used, FaceIds(pit[n])) = FindFib(fib, n, used, {})
           /\ pit[n].forwards <= 1 => OwedBy(n) = {f}
           /\ \A p \in {<<f, n>>} : p \in Faces \X Names => owes[p] > 0
<1>1. Apart(fib) /\ f \in OwedBy(n) /\ Expects(pit[n], fib, n, OwedBy(n))
  BY DEF NInv, Tidy, OwedBy
<1>2. pit[n].faces \subseteq Consumers \X {FALSE} /\ pit[n] \in PitEntry /\ pit[n].forwards \in Nat
  BY <1>1 DEF Expects, PitEntry
<1>3. LocalApps(pit[n]) = {} /\ FaceIds(pit[n]) \in SUBSET Consumers
  BY <1>2, AskersAre
<1>4. \A used : FindFib(fib, n, used, FaceIds(pit[n])) = FindFib(fib, n, used, {})
  BY <1>1, <1>3, LookupApart
<1>5. ASSUME pit[n].forwards <= 1  PROVE OwedBy(n) = {f}
  <2> DEFINE left == FindFib(fib, n, pit[n].used, {}).faceid \ pit[n].nacked
  <2>1. OwedBy(n) \subseteq left
    BY <1>1 DEF Expects
  <2>2. \A g \in left : left = {g}
    BY <1>1, <1>5, LeftCount
  <2> HIDE DEF left
  <2> QED  BY <1>1, <2>1, <2>2
<1> QED  BY <1>1, <1>2, <1>3, <1>4, <1>5

(* The entry when the last answer of a route has been a Nack.              *)
LEMMA ExhaustedIs ==
    ASSUME Tidy, NInv, NEW f \in Faces, NEW n \in Names, owes[<<f, n>>] > 0, pit[n] # None
    PROVE  /\ Exhausted(f, n) = Spent(pit[n], fib, n, f)
           /\ NextRoute(Exhausted(f, n), n) = FindFib(fib, n, Exhausted(f, n).used, {})
<1>1. /\ FindFib(fib, n, pit[n].used, {}) # None /\ pit[n] \in PitEntry
      /\ \A used : FindFib(fib, n, used, FaceIds(pit[n])) = FindFib(fib, n, used, {})
  BY AnswerFinds DEF Expects
<1>2. Exhausted(f, n) = Spent(pit[n], fib, n, f)
  BY <1>1 DEF Exhausted, Spent
<1>3. Exhausted(f, n).faces = pit[n].faces
  BY <1>1, <1>2 DEF PitEntry, Spent
<1>4. FaceIds(Exhausted(f, n)) = FaceIds(pit[n])
  BY <1>3 DEF FaceIds
<1> QED  BY <1>1, <1>2, <1>4 DEF NextRoute

LEMMA AnswerKeeps ==
    ASSUME Tidy, NInv, NEW f \in Faces, NEW n \in Names, Answer(f, n)
    PROVE  NInv'
<1>1. /\ owes[<<f, n>>] > 0 /\ pit[n] # None /\ Owing({<<f, n>>})
      /\ \/ \E d \in Data : ContentArrives(f, n, d)
         \/ NackArrives(f, n, "upstream", FALSE)
  BY DEF Answer
<1>2. /\ Apart(fib) /\ f \in OwedBy(n) /\ Expects(pit[n], fib, n, OwedBy(n))
      /\ LocalApps(pit[n]) = {} /\ pit[n] \in PitEntry /\ pit[n].forwards \in Nat
      /\ pit[n].forwards <= 1 => OwedBy(n) = {f}
      /\ \A p \in {<<f, n>>} : p \in Faces \X Names => owes[p] > 0
  BY <1>1, AnswerFinds
(* The entry is resolved. *)
<1>3. ASSUME pit' = [pit EXCEPT ![n] = None], fib' = fib,
             NEW ids, NEW p, NEW hs, p.type # "interest", sent' = [lower |-> To(ids, p), higher |-> hs]
      PROVE  NInv'
  <2>1. Interests(sent') = {}
    BY <1>3, AsksAre
  <2> QED  BY <1>1, <1>2, <1>3, <2>1, OneName
<1>4. ASSUME NEW d \in Data, ContentArrives(f, n, d)  PROVE NInv'
  <2> DEFINE p == Content(n, d)
  <2>1. /\ p.type # "interest" /\ pit' = [pit EXCEPT ![n] = None] /\ fib' = fib
        /\ \E ids, hs : sent' = [lower |-> To(ids, p), higher |-> hs]
    BY <1>4 DEF ContentArrives, Content
  <2> HIDE DEF p
  <2> QED  BY <1>3, <2>1
<1>5. CASE NackCounted(f, n)
  <2> DEFINE e == [pit[n] EXCEPT !.nacked = @ \cup {f}, !.forwards = @ - 1]
  <2>1. /\ pit[n].forwards > 1 /\ fib' = fib /\ sent' = Quiet
        /\ pit' = [pit EXCEPT ![n] = e]
    BY <1>5 DEF NackCounted
  <2>2. Expects(e, fib, n, OwedBy(n) \ {f})
    BY <1>2, <2>1, CountedExpects
  <2>3. e \in PitEntry /\ Interests(sent') = {}
    BY <2>1, <2>2, AsksAre DEF Expects
  <2> HIDE DEF e
  <2> QED  BY <1>1, <1>2, <2>1, <2>2, <2>3, OneName
<1>6. CASE NackTriesNextRoute(f, n)
  <2> DEFINE x == Exhausted(f, n)
             route == NextRoute(x, n)
             e == CountForwards(x, route)
  <2>1. /\ pit[n].forwards <= 1 /\ route # None /\ fib' = fib
        /\ pit' = [pit EXCEPT ![n] = e]
        /\ sent' = Lower(To(Unnacked(x, route), Interest(n)))
    BY <1>6 DEF NackTriesNextRoute, LastNack
  <2>2. x = Spent(pit[n], fib, n, f) /\ route = FindFib(fib, n, x.used, {})
    BY <1>1, ExhaustedIs
  <2> HIDE DEF x, route
  <2>3. Unnacked(x, route) = route.faceid /\ Expects(e, fib, n, route.faceid)
    <3> DEFINE next == FindFib(fib, n, x.used, {})
    <3>1. next # None
      BY <2>1, <2>2
    <3>2. Unnacked(x, next) = next.faceid /\ Expects(CountForwards(x, next), fib, n, next.faceid)
      BY <1>2, <2>1, <2>2, <3>1, NextExpects
    <3> QED  BY <2>2, <3>2
  <2>4. e \in PitEntry
    BY <2>3 DEF Expects
  <2> HIDE DEF e
  <2>5. Interests(sent') \subseteq {<<g, n>> : g \in route.faceid}
    BY <2>1, <2>3, AsksAre
  <2> DEFINE paid == {<<f, n>>}
             owing == route.faceid
  <2>6. \A g \in Faces, m \in Names : <<g, m>> \in Interests(sent') => m = n /\ g \in owing
    BY <2>5
  <2>7. \A g \in OwedBy(n) : <<g, n>> \notin paid => g \in owing
    BY <1>2, <2>1
  <2>8. \A p \in paid : p \in Faces \X Names => owes[p] > 0
    BY <1>2
  <2>9. Owing(paid) /\ e \in PitEntry \cup {None} /\ pit' = [pit EXCEPT ![n] = e] /\ fib' = fib
    BY <1>1, <2>1, <2>4 DEF e
  <2> HIDE DEF paid, owing
  <2>10. Expects(e, fib, n, owing)
    BY <2>3 DEF owing
  <2>11. /\ \A g \in Faces, m \in Names : <<g, m>> \in Interests(sent') => m = n
         /\ \A g \in Faces : <<g, n>> \in Interests(sent') => g \in owing
    BY <2>6
  <2> QED  BY <2>7, <2>8, <2>9, <2>10, <2>11, OneName
<1>7. CASE NackToConsumers(f, n, "upstream")
  <2> DEFINE p == Nack(n, "upstream")
  <2>1. /\ p.type # "interest" /\ pit' = [pit EXCEPT ![n] = None] /\ fib' = fib
        /\ \E ids, hs : sent' = [lower |-> To(ids, p), higher |-> hs]
    BY <1>7 DEF NackToConsumers, Nack, Lower
  <2> HIDE DEF p
  <2> QED  BY <1>3, <2>1
<1> QED  BY <1>1, <1>2, <1>4, <1>5, <1>6, <1>7 DEF NackArrives, NackToApps, Tidy

LEMMA TickKeeps ==
    ASSUME Tidy, NInv, Tick
    PROVE  NInv'
<1>1. PICK late \in SUBSET Pending, k \in Expiries : Ageing(late, k) /\ Owing({})
  BY DEF Tick
<1> DEFINE dead == {n \in late : pit[n].retransmits > PitRetransmits}
           kept == Pending \ dead
<1>2. /\ pit' = [n \in Names |-> IF n \in kept THEN Older(pit[n]) ELSE None]
      /\ sent'.lower = UNION {Retransmissions(n) : n \in kept} /\ fib' = fib
  BY <1>1 DEF Ageing
<1>3. /\ owes' \in [Faces \X Names -> {0, 1}]
      /\ \A n \in Names : pit'[n] = None => OwedBy(n)' = {}
      /\ \A n \in Names : OwedBy(n)' \subseteq
             OwedBy(n) \cup {f \in Faces : <<f, n>> \in Interests(sent')}
  BY <1>1, OwingIs DEF NInv
<1>4. Apart(fib) /\ kept \subseteq Pending
  BY DEF NInv, Tidy
<1> HIDE DEF kept
<1>5. ASSUME NEW n \in kept
      PROVE  /\ pit[n] # None /\ n \in Names /\ Expects(pit[n], fib, n, OwedBy(n))
             /\ \A f : <<f, n>> \in Interests(sent') =>
                   f \in FindFib(fib, n, pit[n].used, {}).faceid \ pit[n].nacked
  <2>1. pit[n] # None /\ n \in Names /\ Expects(pit[n], fib, n, OwedBy(n))
    BY <1>4 DEF Pending, NInv
  <2>2. ASSUME NEW f, <<f, n>> \in Interests(sent')
        PROVE  f \in FindFib(fib, n, pit[n].used, {}).faceid \ pit[n].nacked
    <3>1. PICK m \in sent'.lower : <<f, n>> = <<m[1], m[2].name>>
      BY <2>2 DEF Interests
    <3>2. PICK i \in kept : m \in Retransmissions(i)
      BY <1>2, <3>1
    <3> DEFINE route == FindFib(fib, i, pit[i].used, FaceIds(pit[i]))
    <3>3. m \in To(Unnacked(pit[i], route), Interest(i))
      BY <3>2 DEF Retransmissions
    <3>4. FaceIds(pit[n]) \in SUBSET Consumers
      BY <2>1, AskersAre DEF Expects
    <3> HIDE DEF route
    <3>5. m[1] \in Unnacked(pit[i], route) /\ m[2].name = i
      BY <3>3 DEF To, Interest
    <3>6. m[1] = f /\ i = n
      BY <3>1, <3>5
    <3>7. route = FindFib(fib, n, pit[n].used, {})
      BY <1>4, <3>4, <3>6, LookupApart DEF route
    <3> QED  BY <3>5, <3>6, <3>7 DEF Unnacked
  <2> QED  BY <2>1, <2>2
<1>6. ASSUME NEW n \in Names, pit'[n] # None
      PROVE  Expects(pit'[n], fib, n, OwedBy(n)') /\ pit'[n] \in PitEntry
  <2>1. n \in kept /\ pit'[n] = Older(pit[n])
    BY <1>2, <1>6
  <2> DEFINE asked == {f \in Faces : <<f, n>> \in Interests(sent')}
             owing == OwedBy(n)'
  <2>2. asked \subseteq FindFib(fib, n, pit[n].used, {}).faceid \ pit[n].nacked
    BY <1>5, <2>1
  <2>3. owing \subseteq OwedBy(n) \cup asked
    BY <1>3
  <2> HIDE DEF asked, owing
  <2>4. Expects(Older(pit[n]), fib, n, OwedBy(n) \cup asked)
    BY <1>5, <2>1, <2>2, OlderExpects
  <2>5. Expects(Older(pit[n]), fib, n, owing)
    BY <2>3, <2>4, FewerExpects
  <2> QED  BY <2>1, <2>5 DEF owing, Expects
<1>7. pit' \in [Names -> PitEntry \cup {None}]
  <2>1. pit' = [n \in Names |-> pit'[n]]
    BY <1>2
  <2> QED  BY <1>6, <2>1
<1> QED  BY <1>2, <1>3, <1>6, <1>7 DEF NInv

LEMMA NStep ==
    ASSUME Tidy, NInv, [NNext]_nvars
    PROVE  NInv'
<1>1. ASSUME NEW f \in Faces, NEW n \in Names, Lose(f, n)  PROVE NInv'
  <2>1. Interests(sent') = {} /\ pit' = pit /\ fib' = fib /\ Owing({<<f, n>>})
    BY <1>1, AsksAre DEF Lose
  <2>2. \A p \in {<<f, n>>} : p \in Faces \X Names => owes[p] > 0
    BY <1>1 DEF Lose
  <2> QED  BY <2>1, <2>2, Unasked
<1>2. CASE UNCHANGED nvars
  BY <1>2 DEF nvars, vars, NInv, OwedBy
<1> QED  BY <1>1, <1>2, ConsumeKeeps, AnswerKeeps, TickKeeps DEF NNext

LEMMA NStart == Tidy /\ NInit => NInv
<1> SUFFICES ASSUME Tidy, NInit PROVE NInv
  OBVIOUS
<1>1. \A f \in Faces, n \in Names : owes[<<f, n>>] = 0
  BY DEF NInit
<1>2. \A n \in Names : OwedBy(n) = {}
  BY <1>1 DEF OwedBy
<1> QED  BY <1>2 DEF NInit, Init, NInv

LEMMA NHolds ==
    ASSUME Tidy
    PROVE  NSpec => []NInv
<1>1. NInit => NInv
  BY NStart
<1>2. NInv /\ [NNext]_nvars => NInv'
  BY NStep
<1> QED  BY <1>1, <1>2, PTL DEF NSpec

(* A pending name never waits for nobody: a neighbour owes an answer, or   *)
(* the next round of ageing asks one again, although packets are lost and  *)
(* routes are used up one after the other.                                 *)
THEOREM NeverStuckCorrect ==
    ASSUME Tidy
    PROVE  NSpec => []NeverStuck
<1>1. Tidy /\ NInv => NeverStuck
  <2> SUFFICES ASSUME Tidy, NInv, NEW n \in Pending
               PROVE  Retransmissions(n) # {}
    BY DEF NeverStuck
  <2>1. /\ pit[n] # None /\ Apart(fib) /\ Expects(pit[n], fib, n, OwedBy(n))
    BY DEF Pending, NInv, Tidy
  <2>2. FaceIds(pit[n]) \in SUBSET Consumers
    BY <2>1, AskersAre DEF Expects
  <2> DEFINE route == FindFib(fib, n, pit[n].used, FaceIds(pit[n]))
  <2>3. route = FindFib(fib, n, pit[n].used, {})
    BY <2>1, <2>2, LookupApart
  <2>4. Retransmissions(n) = IF route = None THEN {} ELSE To(Unnacked(pit[n], route), Interest(n))
    BY DEF Retransmissions
  <2> HIDE DEF route
  <2>5. route # None /\ Unnacked(pit[n], route) # {}
    BY <2>1, <2>3 DEF Expects, Unnacked
  <2> QED  BY <2>4, <2>5 DEF To
<1>2. NInv => NeverStuck
  BY <1>1
<1> QED  BY <1>2, NHolds, PTL

(* When a Nack goes to the consumers of a pending name, the answer that    *)
(* caused it was the last one owed for the name.                           *)
THEOREM NackMeansExhaustedCorrect ==
    ASSUME Tidy
    PROVE  NSpec => NackMeansExhausted
<1> DEFINE Told(n) == \E m \in Replies(sent'.lower) : m[2].type = "nack" /\ m[2].name = n
           LastOwed(n) == \E f \in Faces : /\ owes[<<f, n>>] = 1
                                           /\ \A g \in Faces \ {f} : owes[<<g, n>>] = 0
<1>1. ASSUME Tidy, NInv, NNext, NEW n \in Pending, Told(n)
      PROVE  LastOwed(n)
  <2>1. n \in Names /\ pit[n] # None
    BY DEF Pending
  <2>2. PICK m \in sent'.lower : m[2].type = "nack" /\ m[2].name = n
    BY <1>1 DEF Replies
  (* A handler that sends no Nack, or one for another name.                *)
  <2>3. ASSUME NEW ids, NEW p, sent'.lower = To(ids, p)  PROVE p.type = "nack" /\ p.name = n
    <3>1. m[2] = p
      BY <2>2, <2>3 DEF To
    <3> QED  BY <2>2, <3>1
  <2>4. sent'.lower # {}
    BY <2>2
  <2>5. ASSUME NEW f \in Consumers, NEW i \in Names, Consume(f, i)  PROVE FALSE
    <3>1. InterestFromLower(f, i)
      BY <2>5 DEF Consume
    <3>2. CASE InterestHit(f, i)
      <4> DEFINE p == Content(i, Found(cs[i]).data)
      <4>1. sent'.lower = To({f}, p) /\ p.type = "content"
        BY <3>2 DEF InterestHit, Lower, Content
      <4> HIDE DEF p
      <4> QED  BY <2>3, <4>1
    <3>3. CASE InterestAggregated(f, i) \/ InterestGoesUp(f, i)
      <4>1. sent' = Quiet \/ \E ms : sent' = Higher(ms)
        BY <3>3 DEF InterestAggregated, InterestGoesUp
      <4> QED  BY <2>4, <4>1 DEF Quiet, Higher
    <3>4. CASE InterestForwarded(f, i)
      <4> DEFINE ids == FindFib(fib, i, {}, {f}).faceid
      <4>1. sent'.lower = To(ids, Interest(i)) /\ Interest(i).type = "interest"
        BY <3>4 DEF InterestForwarded, Lower, Interest
      <4> HIDE DEF ids
      <4> QED  BY <2>3, <4>1
    <3>5. CASE InterestRefused(f, i)
      <4>1. pit[i] = None /\ sent'.lower = To({f}, Nack(i, "no_route"))
        BY <3>5 DEF InterestRefused, Lower
      <4>2. Nack(i, "no_route").name = n
        BY <2>3, <4>1
      <4> QED  BY <2>1, <4>1, <4>2 DEF Nack
    <3> QED  BY <3>1, <3>2, <3>3, <3>4, <3>5 DEF InterestFromLower
  <2>6. ASSUME NEW f \in Faces, NEW i \in Names, Answer(f, i)  PROVE LastOwed(n)
    <3>1. /\ owes[<<f, i>>] > 0 /\ pit[i] # None
          /\ \/ \E d \in Data : ContentArrives(f, i, d)
             \/ NackArrives(f, i, "upstream", FALSE)
      BY <2>6 DEF Answer
    <3>2. LocalApps(pit[i]) = {} /\ (pit[i].forwards <= 1 => OwedBy(i) = {f})
      BY <1>1, <3>1, AnswerFinds
    <3>3. ASSUME NEW d \in Data, ContentArrives(f, i, d)  PROVE FALSE
      <4>1. sent'.lower = To(NetworkFaces(pit[i]), Content(i, d)) /\ Content(i, d).type = "content"
        BY <3>3 DEF ContentArrives, Content
      <4> QED  BY <2>3, <4>1
    <3>4. CASE NackCounted(f, i)
      BY <2>4, <3>4 DEF NackCounted, Quiet
    <3>5. CASE NackTriesNextRoute(f, i)
      <4> DEFINE ids == Unnacked(Exhausted(f, i), NextRoute(Exhausted(f, i), i))
      <4>1. sent'.lower = To(ids, Interest(i)) /\ Interest(i).type = "interest"
        BY <3>5 DEF NackTriesNextRoute, Lower, Interest
      <4> HIDE DEF ids
      <4> QED  BY <2>3, <4>1
    <3>6. CASE NackToConsumers(f, i, "upstream")
      <4>1. pit[i].forwards <= 1 /\ sent'.lower = To(NetworkFaces(pit[i]), Nack(i, "upstream"))
        BY <3>6 DEF NackToConsumers, LastNack, Lower
      <4>2. Nack(i, "upstream").name = n
        BY <2>3, <4>1
      <4>3. i = n /\ OwedBy(n) = {f}
        BY <3>2, <4>1, <4>2 DEF Nack
      <4>4. \A g \in Faces : owes[<<g, n>>] \in {0, 1} /\ (owes[<<g, n>>] > 0 <=> g = f)
        BY <1>1, <2>1, <4>3 DEF OwedBy, NInv
      <4> QED  BY <4>4
    <3> QED  BY <1>1, <3>1, <3>2, <3>3, <3>4, <3>5, <3>6 DEF NackArrives, NackToApps, Tidy
  <2>7. ASSUME NEW f \in Faces, NEW i \in Names, Lose(f, i)  PROVE FALSE
    BY <2>4, <2>7 DEF Lose, Quiet
  <2>8. ASSUME Tick  PROVE FALSE
    <3>1. PICK late \in SUBSET Pending, k \in Expiries : Ageing(late, k)
      BY <2>8 DEF Tick
    <3>2. PICK i : m \in Retransmissions(i)
      BY <2>2, <3>1 DEF Ageing
    <3> DEFINE ids == Unnacked(pit[i], FindFib(fib, i, pit[i].used, FaceIds(pit[i])))
    <3>3. m \in To(ids, Interest(i))
      BY <3>2 DEF Retransmissions
    <3> HIDE DEF ids
    <3> QED  BY <2>2, <3>3 DEF To, Interest
  <2> QED  BY <1>1, <2>5, <2>6, <2>7, <2>8 DEF NNext
<1>2. NInv /\ [NNext]_nvars => [\A n \in Pending :
          (\E m \in Replies(sent'.lower) : m[2].type = "nack" /\ m[2].name = n)
          => \E f \in Faces : /\ owes[<<f, n>>] = 1
                             /\ \A g \in Faces \ {f} : owes[<<g, n>>] = 0]_nvars
  BY <1>1
<1>3. NSpec => []NInv
  BY NHolds
<1> QED  BY <1>2, <1>3, PTL DEF NSpec, NackMeansExhausted

===============================================================================

--------------------------- MODULE FaceTable_proofs ---------------------------
(***************************************************************************)
(* Proofs about FaceTable for calls that do not overlap, and about the     *)
(* LinkStack that makes such calls: the table has one caller.  The         *)
(* inductive invariant of the table says, label by label, how far its      *)
(* three structures may disagree while the caller is between two           *)
(* statements; that of the stack counts what has come past each queue on   *)
(* the way up and on the way down.  The encoder of the stack reads what it *)
(* has written: offset by offset, what lies there is what was put there.   *)
(***************************************************************************)
EXTENDS LinkStack, SequenceTheorems, FiniteSetTheorems, WellFoundedInduction,
        TLAPS

Ascending(s) == \A j, k \in DOMAIN s : j < k => s[j] < s[k]

-----------------------------------------------------------------------------
(* Lists of face ids *)

(* list.remove of the first element leaves the rest of the list. *)
LEMMA RemoveHead ==
    ASSUME NEW s \in Seq(FaceIds), s # << >>
    PROVE  RemoveFirst(s, Head(s)) = Tail(s) /\ Contains(s, Head(s))
<1> DEFINE I == {i \in 1 .. Len(s) : s[i] = Head(s)}
<1>1. 1 \in I /\ \A i \in I : 1 <= i /\ i \in Int
  OBVIOUS
<1>2. Min(I) = 1
  <2> HIDE DEF I
  <2> QED  BY <1>1 DEF Min
<1>3. SelectInSeq(s, LAMBDA v : v = Head(s)) = 1
  BY <1>1, <1>2 DEF SelectInSeq
<1>4. RemoveFirst(s, Head(s)) = RemoveAt(s, 1)
  <2> \E i \in 1 .. Len(s) : s[i] = Head(s)
    BY <1>1
  <2> QED  BY <1>3 DEF RemoveFirst
<1>5. RemoveAt(s, 1) = Tail(s)
  BY DEF RemoveAt
<1>6. Contains(s, Head(s))
  BY <1>1 DEF Contains
<1> QED  BY <1>4, <1>5, <1>6

(* An ascending list has its first element once. *)
LEMMA TailAscending ==
    ASSUME NEW s \in Seq(FaceIds), s # << >>, Ascending(s)
    PROVE  /\ Tail(s) \in Seq(FaceIds) /\ Len(Tail(s)) = Len(s) - 1
           /\ \A k \in 1 .. Len(s) - 1 : Tail(s)[k] = s[k + 1]
           /\ Ascending(Tail(s))
           /\ \A i \in FaceIds :
                 Contains(Tail(s), i) <=> Contains(s, i) /\ i # Head(s)
<1> DEFINE t == Tail(s)
<1>1. t \in Seq(FaceIds) /\ Len(t) = Len(s) - 1
      /\ \A k \in 1 .. Len(t) : t[k] = s[k + 1]
  OBVIOUS
<1>2. FaceIds \subseteq Int
  BY DEF FaceIds
<1>3. ASSUME NEW i \in FaceIds
      PROVE  Contains(t, i) <=> Contains(s, i) /\ i # Head(s)
  <2>1. ASSUME Contains(t, i) PROVE Contains(s, i) /\ i # Head(s)
    <3>1. PICK k \in 1 .. Len(t) : t[k] = i
      BY <2>1 DEF Contains
    <3>2. s[k + 1] = i /\ k + 1 \in DOMAIN s /\ 1 \in DOMAIN s
      BY <3>1, <1>1
    <3>3. s[1] < s[k + 1]
      BY <3>2, 1 < k + 1 DEF Ascending
    <3> QED  BY <3>2, <3>3, <1>2 DEF Contains
  <2>2. ASSUME Contains(s, i), i # Head(s) PROVE Contains(t, i)
    <3>1. PICK k \in 1 .. Len(s) : s[k] = i
      BY <2>2 DEF Contains
    <3>2. k # 1
      BY <3>1, <2>2
    <3>3. k - 1 \in 1 .. Len(t) /\ t[k - 1] = i
      BY <3>1, <3>2, <1>1
    <3> QED  BY <3>3 DEF Contains
  <2> QED  BY <2>1, <2>2
<1>4. Ascending(t)
  <2> SUFFICES ASSUME NEW j \in DOMAIN t, NEW k \in DOMAIN t, j < k
               PROVE  t[j] < t[k]
    BY DEF Ascending
  <2>1. s[j + 1] < s[k + 1]
    BY <1>1, j + 1 \in DOMAIN s, k + 1 \in DOMAIN s DEF Ascending
  <2> QED  BY <2>1, <1>1
<1> QED  BY <1>1, <1>3, <1>4

(* A larger id at the end keeps an ascending list ascending. *)
LEMMA AppendAscending ==
    ASSUME NEW s \in Seq(FaceIds), Ascending(s),
           NEW n \in FaceIds, \A i \in FaceIds : Contains(s, i) => i < n
    PROVE  /\ Append(s, n) \in Seq(FaceIds)
           /\ Len(Append(s, n)) = Len(s) + 1
           /\ Ascending(Append(s, n))
           /\ \A i \in FaceIds :
                 Contains(Append(s, n), i) <=> Contains(s, i) \/ i = n
<1> DEFINE t == Append(s, n)
<1>1. t \in Seq(FaceIds) /\ Len(t) = Len(s) + 1 /\ t[Len(s) + 1] = n
      /\ \A k \in 1 .. Len(s) : t[k] = s[k]
  OBVIOUS
<1>2. ASSUME NEW i \in FaceIds
      PROVE  Contains(t, i) <=> Contains(s, i) \/ i = n
  <2>1. ASSUME Contains(t, i) PROVE Contains(s, i) \/ i = n
    <3>1. PICK k \in 1 .. Len(t) : t[k] = i
      BY <2>1 DEF Contains
    <3>2. CASE k = Len(s) + 1
      BY <3>1, <3>2, <1>1
    <3>3. CASE k \in 1 .. Len(s)
      BY <3>1, <3>3, <1>1 DEF Contains
    <3> QED  BY <3>2, <3>3, <1>1
  <2>2. ASSUME Contains(s, i) PROVE Contains(t, i)
    BY <2>2, <1>1 DEF Contains
  <2>3. Contains(t, n)
    BY <1>1 DEF Contains
  <2> QED  BY <2>1, <2>2, <2>3
<1>3. Ascending(t)
  <2> SUFFICES ASSUME NEW j \in DOMAIN t, NEW k \in DOMAIN t, j < k
               PROVE  t[j] < t[k]
    BY DEF Ascending
  <2>1. j \in 1 .. Len(s) /\ t[j] = s[j] /\ s[j] \in FaceIds
    BY <1>1
  <2>2. CASE k = Len(s) + 1
    BY <2>1, <2>2, <1>1 DEF Contains
  <2>3. CASE k \in 1 .. Len(s)
    BY <2>1, <2>3, <1>1 DEF Ascending
  <2> QED  BY <2>2, <2>3, <1>1
<1> QED  BY <1>1, <1>2, <1>3

-----------------------------------------------------------------------------
(* The inductive invariant of one caller c *)

Unbound == {"evict", "find", "del_face", "del_addr", "del_id", "load", "store",
            "argument", "test", "put_face", "put_addr"}
Removing == {"find", "del_face", "del_addr", "del_id"}
New == {"argument", "test", "put_face", "put_addr", "put_id"}

(* Where the caller is, and what it holds. *)
Local(c) ==
    /\ pc[c] # "failed"
    /\ pc[c] # "idle" => addr[c] \in Addresses
    /\ pc[c] \in Unbound => addrinfo_to_faceid[addr[c]] = None
    /\ pc[c] = "lookup" =>
          next_face_id < LastFaceId \/ addrinfo_to_faceid[addr[c]] # None
    /\ pc[c] \in Unbound \ New => next_face_id < LastFaceId
    /\ pc[c] \in {"store", "test", "put_face", "put_addr", "put_id"} =>
          reg[c] = next_face_id
    /\ pc[c] \in New \cup {"return"} => next_face_id \in FaceIds

(* What an eviction has removed so far. *)
Removal(c) ==
    /\ pc[c] \in Removing => faceids # << >> /\ reg[c] = Head(faceids)
    /\ pc[c] \in {"find", "del_face"} => Len(faceids) = MaxEntries
    /\ pc[c] = "find" => faceid_to_addrinfo[reg[c]] # None
    /\ pc[c] = "del_face" => /\ info[c] \in Addresses
                             /\ faceid_to_addrinfo[reg[c]] = info[c]
    /\ pc[c] = "del_addr" => /\ info[c] \in Addresses
                             /\ addrinfo_to_faceid[info[c]] = reg[c]
    /\ pc[c] \in {"del_addr", "del_id"} => faceid_to_addrinfo[reg[c]] = None

(* What an addition has entered so far. *)
Addition(c) ==
    /\ pc[c] \in {"argument", "test", "put_face"} =>
          faceid_to_addrinfo[next_face_id] = None
    /\ pc[c] \in {"put_addr", "put_id", "return"} =>
          faceid_to_addrinfo[next_face_id] = addr[c]
    /\ pc[c] \in {"put_id", "return"} =>
          addrinfo_to_faceid[addr[c]] = next_face_id

(* The list holds the ids in use. *)
Listed(c) ==
    /\ Ascending(faceids)
    /\ Len(faceids) <= MaxEntries
    /\ pc[c] \in {"load", "store"} \cup New => Len(faceids) < MaxEntries
    /\ \A i \in FaceIds : Contains(faceids, i) => i <= next_face_id
    /\ pc[c] \in New => ~Contains(faceids, next_face_id)
    /\ \A i \in FaceIds : Contains(faceids, i) =>
          \/ faceid_to_addrinfo[i] # None
          \/ pc[c] \in {"del_addr", "del_id"} /\ i = reg[c]
    /\ \A i \in FaceIds : faceid_to_addrinfo[i] # None =>
          \/ Contains(faceids, i)
          \/ pc[c] \in {"put_addr", "put_id"} /\ i = next_face_id

(* The two dictionaries are inverse to one another. *)
BothWays(c) ==
    /\ \A i \in FaceIds : faceid_to_addrinfo[i] # None =>
          \/ addrinfo_to_faceid[faceid_to_addrinfo[i]] = i
          \/ pc[c] = "put_addr" /\ i = next_face_id
    /\ \A a \in Addresses : addrinfo_to_faceid[a] # None =>
          \/ faceid_to_addrinfo[addrinfo_to_faceid[a]] = a
          \/ pc[c] = "del_addr" /\ a = info[c]

(* Ids that have been given are old, and lead back until they are evicted. *)
Past(c) ==
    /\ \A g \in given : g[2] <= next_face_id
    /\ pc[c] \in New \cup {"return"} =>
          \A g \in given : g[2] # next_face_id
    /\ pc[c] \in {"del_face", "del_addr", "del_id"} => reg[c] \in evicted
    /\ FaceMeansOneAddress
    /\ GivenFaceLeadsBack

IInv(c) ==
    /\ TypeOK
    /\ Local(c) /\ Removal(c) /\ Addition(c)
    /\ Listed(c) /\ BothWays(c) /\ Past(c)

-----------------------------------------------------------------------------
LEMMA InitInvariant ==
    ASSUME NEW c, Callers = {c}, Init PROVE IInv(c)
<1> USE FaceTableAssumption DEF Init
<1>1. FaceIds = 0 .. LastFaceId + 1
  BY FS_Singleton DEF FaceIds
<1>2. TypeOK
  BY <1>1 DEF TypeOK, Labels
<1>3. Listed(c)
  BY DEF Listed, Ascending, Contains, New
<1> QED
  BY <1>2, <1>3 DEF IInv, Local, Removal, Addition, BothWays, Past, Unbound,
     Removing, New, FaceMeansOneAddress, GivenFaceLeadsBack

LEMMA StepInvariant ==
    ASSUME NEW c, Callers = {c}, IInv(c), [Next]_vars PROVE IInv(c)'
<1> USE FaceTableAssumption
       DEF IInv, Goto, tables, history, Labels, Unbound, Removing, New
<1>0. FaceIds = 0 .. LastFaceId + 1
  BY FS_Singleton DEF FaceIds
<1>1. CASE UNCHANGED vars
  BY <1>1 DEF IInv, TypeOK, Local, Removal, Addition, Listed, BothWays, Past,
     FaceMeansOneAddress, GivenFaceLeadsBack, vars, tables, history
<1>2. ASSUME NEW a \in Addresses, Call(c, a) PROVE IInv(c)'
  <2>1. TypeOK'
    BY <1>0, <1>2 DEF Call, TypeOK, Local, Removal
  <2>2. Local(c)'
    BY <1>0, <1>2 DEF Call, Room, TypeOK, Local
  <2>3. Removal(c)'
    BY <1>0, <1>2 DEF Call, TypeOK, Local, Removal, Listed, BothWays
  <2>4. Addition(c)'
    BY <1>0, <1>2 DEF Call, TypeOK, Local, Addition, Listed
  <2>5. Listed(c)'
    BY <1>0, <1>2 DEF Call, TypeOK, Local, Removal, Addition, Listed
  <2>6. BothWays(c)'
    BY <1>0, <1>2 DEF Call, TypeOK, Local, Removal, Addition, Listed,
       BothWays
  <2>7. Past(c)'
    BY <1>0, <1>2 DEF Call, TypeOK, Local, Removal, Listed, BothWays,
       Past,        FaceMeansOneAddress, GivenFaceLeadsBack
  <2> QED  BY <2>1, <2>2, <2>3, <2>4, <2>5, <2>6, <2>7
<1>3. ASSUME Lookup(c) PROVE IInv(c)'
  <2>1. TypeOK'
    BY <1>0, <1>3 DEF Lookup, TypeOK, Local, Removal
  <2>2. Local(c)'
    BY <1>0, <1>3 DEF Lookup, TypeOK, Local, Removal, Addition, BothWays
  <2>3. Removal(c)'
    BY <1>0, <1>3 DEF Lookup, TypeOK, Local, Removal, Listed, BothWays
  <2>4. Addition(c)'
    BY <1>0, <1>3 DEF Lookup, TypeOK, Local, Addition, Listed
  <2>5. Listed(c)'
    BY <1>0, <1>3 DEF Lookup, TypeOK, Local, Removal, Addition, Listed
  <2>6. BothWays(c)'
    BY <1>0, <1>3 DEF Lookup, TypeOK, Local, Removal, Addition, Listed,
       BothWays
  <2>7. Past(c)'
    BY <1>0, <1>3 DEF Lookup, TypeOK, Local, Removal, Listed, BothWays,
       Past,        FaceMeansOneAddress, GivenFaceLeadsBack
  <2> QED  BY <2>1, <2>2, <2>3, <2>4, <2>5, <2>6, <2>7
<1>4. ASSUME RemoveOldest(c) PROVE IInv(c)'
  <2>1. TypeOK'
    BY <1>0, <1>4 DEF RemoveOldest, TypeOK, Local, Removal
  <2>2. Local(c)'
    BY <1>0, <1>4 DEF RemoveOldest, TypeOK, Local, Removal, Addition,
       BothWays
  <2>3. Removal(c)'
    <3>1. CASE Len(faceids) < MaxEntries
      BY <3>1, <1>4 DEF RemoveOldest, TypeOK, Removal
    <3>2. CASE Len(faceids) >= MaxEntries
      <4>1. faceids # << >> /\ faceids[1] = Head(faceids)
            /\ faceids[1] \in FaceIds /\ Contains(faceids, faceids[1])
        BY <3>2 DEF TypeOK, Contains
      <4> QED
        BY <3>2, <4>1, <1>4 DEF RemoveOldest, TypeOK, Removal, Listed
    <3> QED  BY <3>1, <3>2 DEF TypeOK
  <2>4. Addition(c)'
    BY <1>0, <1>4 DEF RemoveOldest, TypeOK, Local, Addition, Listed
  <2>5. Listed(c)'
    BY <1>0, <1>4 DEF RemoveOldest, TypeOK, Local, Removal, Addition,
       Listed
  <2>6. BothWays(c)'
    BY <1>0, <1>4 DEF RemoveOldest, TypeOK, Local, Removal, Addition,
       Listed, BothWays
  <2>7. Past(c)'
    BY <1>0, <1>4 DEF RemoveOldest, TypeOK, Local, Removal, Listed,
       BothWays, Past,        FaceMeansOneAddress, GivenFaceLeadsBack
  <2> QED  BY <2>1, <2>2, <2>3, <2>4, <2>5, <2>6, <2>7
<1>5. ASSUME FindOldest(c) PROVE IInv(c)'
  <2>1. TypeOK'
    <3>1. reg[c] \in FaceIds
      BY <1>5 DEF FindOldest, TypeOK, Removal
    <3>2. pc' \in [Callers -> Labels]
      BY <1>5 DEF FindOldest, TypeOK
    <3>3. info' \in [Callers -> Addresses \cup {None}]
      BY <3>1, <1>5 DEF FindOldest, TypeOK
    <3>4. evicted' \subseteq FaceIds
      BY <3>1, <1>5 DEF FindOldest, TypeOK
    <3> QED  BY <3>2, <3>3, <3>4, <1>5 DEF FindOldest, TypeOK
  <2>2. Local(c)'
    BY <1>0, <1>5 DEF FindOldest, TypeOK, Local, Removal, Addition,
       BothWays
  <2>3. Removal(c)'
    BY <1>0, <1>5 DEF FindOldest, TypeOK, Local, Removal, Listed, BothWays
  <2>4. Addition(c)'
    BY <1>0, <1>5 DEF FindOldest, TypeOK, Local, Addition, Listed
  <2>5. Listed(c)'
    BY <1>0, <1>5 DEF FindOldest, TypeOK, Local, Removal, Addition, Listed
  <2>6. BothWays(c)'
    BY <1>0, <1>5 DEF FindOldest, TypeOK, Local, Removal, Addition,
       Listed, BothWays
  <2>7. Past(c)'
    BY <1>0, <1>5 DEF FindOldest, TypeOK, Local, Removal, Listed,
       BothWays, Past,        FaceMeansOneAddress, GivenFaceLeadsBack
  <2> QED  BY <2>1, <2>2, <2>3, <2>4, <2>5, <2>6, <2>7
<1>6. ASSUME DelFace(c) PROVE IInv(c)'
  <2>1. TypeOK'
    BY <1>0, <1>6 DEF DelFace, TypeOK, Local, Removal
  <2>2. Local(c)'
    BY <1>0, <1>6 DEF DelFace, TypeOK, Local, Removal, Addition, BothWays
  <2>3. Removal(c)'
    BY <1>0, <1>6 DEF DelFace, TypeOK, Local, Removal, Listed, BothWays
  <2>4. Addition(c)'
    BY <1>0, <1>6 DEF DelFace, TypeOK, Local, Addition, Listed
  <2>5. Listed(c)'
    BY <1>0, <1>6 DEF DelFace, TypeOK, Local, Removal, Addition, Listed
  <2>6. BothWays(c)'
    BY <1>0, <1>6 DEF DelFace, TypeOK, Local, Removal, Addition, Listed,
       BothWays
  <2>7. Past(c)'
    BY <1>0, <1>6 DEF DelFace, TypeOK, Local, Removal, Listed, BothWays,
       Past,        FaceMeansOneAddress, GivenFaceLeadsBack
  <2> QED  BY <2>1, <2>2, <2>3, <2>4, <2>5, <2>6, <2>7
<1>7. ASSUME DelAddr(c) PROVE IInv(c)'
  <2>1. TypeOK'
    BY <1>0, <1>7 DEF DelAddr, TypeOK, Local, Removal
  <2>2. Local(c)'
    BY <1>0, <1>7 DEF DelAddr, TypeOK, Local, Removal, Addition, BothWays
  <2>3. Removal(c)'
    BY <1>0, <1>7 DEF DelAddr, TypeOK, Local, Removal, Listed, BothWays
  <2>4. Addition(c)'
    BY <1>0, <1>7 DEF DelAddr, TypeOK, Local, Addition, Listed
  <2>5. Listed(c)'
    BY <1>0, <1>7 DEF DelAddr, TypeOK, Local, Removal, Addition, Listed
  <2>6. BothWays(c)'
    BY <1>0, <1>7 DEF DelAddr, TypeOK, Local, Removal, Addition, Listed,
       BothWays
  <2>7. Past(c)'
    BY <1>0, <1>7 DEF DelAddr, TypeOK, Local, Removal, Listed, BothWays,
       Past,        FaceMeansOneAddress, GivenFaceLeadsBack
  <2> QED  BY <2>1, <2>2, <2>3, <2>4, <2>5, <2>6, <2>7
<1>8. ASSUME DelId(c) PROVE IInv(c)'
  <2>0. faceids' = Tail(faceids) /\ Contains(faceids, reg[c])
    BY <1>8, RemoveHead DEF DelId, TypeOK, Removal
  <2>1. TypeOK'
    BY <2>0, <1>0, <1>8 DEF DelId, TypeOK, Local, Removal
  <2>2. Local(c)'
    BY <2>0, <1>0, <1>8 DEF DelId, TypeOK, Local, Removal, Addition,
       BothWays
  <2>3. Removal(c)'
    BY <2>0, <1>0, <1>8 DEF DelId, TypeOK, Local, Removal, Listed,
       BothWays
  <2>4. Addition(c)'
    BY <2>0, <1>0, <1>8 DEF DelId, TypeOK, Local, Addition, Listed
  <2>5. Listed(c)'
    <3>1. /\ Len(faceids') = Len(faceids) - 1 /\ Ascending(faceids')
          /\ \A i \in FaceIds :
                Contains(faceids', i) <=> Contains(faceids, i) /\ i # reg[c]
      BY <2>0, <1>8, TailAscending DEF DelId, TypeOK, Removal, Listed
    <3> QED  BY <3>1, <2>0, <1>0, <1>8 DEF DelId, TypeOK, Removal, Listed
  <2>6. BothWays(c)'
    BY <2>0, <1>0, <1>8 DEF DelId, TypeOK, Local, Removal, Addition,
       Listed, BothWays
  <2>7. Past(c)'
    BY <2>0, <1>0, <1>8 DEF DelId, TypeOK, Local, Removal, Listed,
       BothWays, Past,        FaceMeansOneAddress, GivenFaceLeadsBack
  <2> QED  BY <2>1, <2>2, <2>3, <2>4, <2>5, <2>6, <2>7
<1>9. ASSUME LoadCounter(c) PROVE IInv(c)'
  <2>1. TypeOK'
    BY <1>0, <1>9 DEF LoadCounter, TypeOK, Local, Removal
  <2>2. Local(c)'
    BY <1>0, <1>9 DEF LoadCounter, TypeOK, Local, Removal, Addition,
       BothWays
  <2>3. Removal(c)'
    BY <1>0, <1>9 DEF LoadCounter, TypeOK, Local, Removal, Listed,
       BothWays
  <2>4. Addition(c)'
    BY <1>0, <1>9 DEF LoadCounter, TypeOK, Local, Addition, Listed
  <2>5. Listed(c)'
    BY <1>0, <1>9 DEF LoadCounter, TypeOK, Local, Removal, Addition,
       Listed
  <2>6. BothWays(c)'
    BY <1>0, <1>9 DEF LoadCounter, TypeOK, Local, Removal, Addition,
       Listed, BothWays
  <2>7. Past(c)'
    BY <1>0, <1>9 DEF LoadCounter, TypeOK, Local, Removal, Listed,
       BothWays, Past,        FaceMeansOneAddress, GivenFaceLeadsBack
  <2> QED  BY <2>1, <2>2, <2>3, <2>4, <2>5, <2>6, <2>7
<1>10. ASSUME StoreCounter(c) PROVE IInv(c)'
  <2>1. TypeOK'
    BY <1>0, <1>10 DEF StoreCounter, TypeOK, Local, Removal
  <2>2. Local(c)'
    BY <1>0, <1>10 DEF StoreCounter, TypeOK, Local, Removal, Addition,
       BothWays
  <2>3. Removal(c)'
    BY <1>0, <1>10 DEF StoreCounter, TypeOK, Local, Removal, Listed,
       BothWays
  <2>4. Addition(c)'
    BY <1>0, <1>10 DEF StoreCounter, TypeOK, Local, Addition, Listed
  <2>5. Listed(c)'
    BY <1>0, <1>10 DEF StoreCounter, TypeOK, Local, Removal, Addition,
       Listed
  <2>6. BothWays(c)'
    BY <1>0, <1>10 DEF StoreCounter, TypeOK, Local, Removal, Addition,
       Listed, BothWays
  <2>7. Past(c)'
    BY <1>0, <1>10 DEF StoreCounter, TypeOK, Local, Removal, Listed,
       BothWays, Past,        FaceMeansOneAddress, GivenFaceLeadsBack
  <2> QED  BY <2>1, <2>2, <2>3, <2>4, <2>5, <2>6, <2>7
<1>11. ASSUME AddArgument(c) PROVE IInv(c)'
  <2>1. TypeOK'
    BY <1>0, <1>11 DEF AddArgument, TypeOK, Local, Removal
  <2>2. Local(c)'
    BY <1>0, <1>11 DEF AddArgument, TypeOK, Local, Removal, Addition,
       BothWays
  <2>3. Removal(c)'
    BY <1>0, <1>11 DEF AddArgument, TypeOK, Local, Removal, Listed,
       BothWays
  <2>4. Addition(c)'
    BY <1>0, <1>11 DEF AddArgument, TypeOK, Local, Addition, Listed
  <2>5. Listed(c)'
    BY <1>0, <1>11 DEF AddArgument, TypeOK, Local, Removal, Addition,
       Listed
  <2>6. BothWays(c)'
    BY <1>0, <1>11 DEF AddArgument, TypeOK, Local, Removal, Addition,
       Listed, BothWays
  <2>7. Past(c)'
    BY <1>0, <1>11 DEF AddArgument, TypeOK, Local, Removal, Listed,
       BothWays, Past,        FaceMeansOneAddress, GivenFaceLeadsBack
  <2> QED  BY <2>1, <2>2, <2>3, <2>4, <2>5, <2>6, <2>7
<1>12. ASSUME TestAbsent(c) PROVE IInv(c)'
  <2>1. TypeOK'
    BY <1>0, <1>12 DEF TestAbsent, TypeOK, Local, Removal
  <2>2. Local(c)'
    BY <1>0, <1>12 DEF TestAbsent, TypeOK, Local, Removal, Addition,
       BothWays
  <2>3. Removal(c)'
    BY <1>0, <1>12 DEF TestAbsent, TypeOK, Local, Removal, Listed,
       BothWays
  <2>4. Addition(c)'
    BY <1>0, <1>12 DEF TestAbsent, TypeOK, Local, Addition, Listed
  <2>5. Listed(c)'
    BY <1>0, <1>12 DEF TestAbsent, TypeOK, Local, Removal, Addition,
       Listed
  <2>6. BothWays(c)'
    BY <1>0, <1>12 DEF TestAbsent, TypeOK, Local, Removal, Addition,
       Listed, BothWays
  <2>7. Past(c)'
    BY <1>0, <1>12 DEF TestAbsent, TypeOK, Local, Removal, Listed,
       BothWays, Past,        FaceMeansOneAddress, GivenFaceLeadsBack
  <2> QED  BY <2>1, <2>2, <2>3, <2>4, <2>5, <2>6, <2>7
<1>13. ASSUME PutFace(c) PROVE IInv(c)'
  <2>1. TypeOK'
    BY <1>0, <1>13 DEF PutFace, TypeOK, Local, Removal
  <2>2. Local(c)'
    BY <1>0, <1>13 DEF PutFace, TypeOK, Local, Removal, Addition, BothWays
  <2>3. Removal(c)'
    BY <1>0, <1>13 DEF PutFace, TypeOK, Local, Removal, Listed, BothWays
  <2>4. Addition(c)'
    BY <1>0, <1>13 DEF PutFace, TypeOK, Local, Addition, Listed
  <2>5. Listed(c)'
    BY <1>0, <1>13 DEF PutFace, TypeOK, Local, Removal, Addition, Listed
  <2>6. BothWays(c)'
    BY <1>0, <1>13 DEF PutFace, TypeOK, Local, Removal, Addition, Listed,
       BothWays
  <2>7. Past(c)'
    BY <1>0, <1>13 DEF PutFace, TypeOK, Local, Removal, Listed, BothWays,
       Past,        FaceMeansOneAddress, GivenFaceLeadsBack
  <2> QED  BY <2>1, <2>2, <2>3, <2>4, <2>5, <2>6, <2>7
<1>14. ASSUME PutAddr(c) PROVE IInv(c)'
  <2>1. TypeOK'
    BY <1>0, <1>14 DEF PutAddr, TypeOK, Local, Removal
  <2>2. Local(c)'
    BY <1>0, <1>14 DEF PutAddr, TypeOK, Local, Removal, Addition, BothWays
  <2>3. Removal(c)'
    BY <1>0, <1>14 DEF PutAddr, TypeOK, Local, Removal, Listed, BothWays
  <2>4. Addition(c)'
    BY <1>0, <1>14 DEF PutAddr, TypeOK, Local, Addition, Listed
  <2>5. Listed(c)'
    BY <1>0, <1>14 DEF PutAddr, TypeOK, Local, Removal, Addition, Listed
  <2>6. BothWays(c)'
    BY <1>0, <1>14 DEF PutAddr, TypeOK, Local, Removal, Addition, Listed,
       BothWays
  <2>7. Past(c)'
    BY <1>0, <1>14 DEF PutAddr, TypeOK, Local, Removal, Listed, BothWays,
       Past,        FaceMeansOneAddress, GivenFaceLeadsBack
  <2> QED  BY <2>1, <2>2, <2>3, <2>4, <2>5, <2>6, <2>7
<1>15. ASSUME PutId(c) PROVE IInv(c)'
  <2>1. TypeOK'
    BY <1>0, <1>15 DEF PutId, TypeOK, Local, Removal
  <2>2. Local(c)'
    BY <1>0, <1>15 DEF PutId, TypeOK, Local, Removal, Addition, BothWays
  <2>3. Removal(c)'
    BY <1>0, <1>15 DEF PutId, TypeOK, Local, Removal, Listed, BothWays
  <2>4. Addition(c)'
    BY <1>0, <1>15 DEF PutId, TypeOK, Local, Addition, Listed
  <2>5. Listed(c)'
    <3>1. \A i \in FaceIds : Contains(faceids, i) => i < next_face_id
      BY <1>0, <1>15 DEF PutId, TypeOK, Listed
    <3>2. /\ Len(faceids') = Len(faceids) + 1 /\ Ascending(faceids')
          /\ \A i \in FaceIds : Contains(faceids', i)
                <=> Contains(faceids, i) \/ i = next_face_id
      BY <3>1, <1>15, AppendAscending DEF PutId, TypeOK, Local, Listed
    <3> QED
      BY <3>2, <1>0, <1>15 DEF PutId, TypeOK, Local, Addition, Listed
  <2>6. BothWays(c)'
    BY <1>0, <1>15 DEF PutId, TypeOK, Local, Removal, Addition, Listed,
       BothWays
  <2>7. Past(c)'
    BY <1>0, <1>15 DEF PutId, TypeOK, Local, Removal, Listed, BothWays,
       Past,        FaceMeansOneAddress, GivenFaceLeadsBack
  <2> QED  BY <2>1, <2>2, <2>3, <2>4, <2>5, <2>6, <2>7
<1>16. ASSUME Return(c) PROVE IInv(c)'
  <2>1. TypeOK'
    BY <1>0, <1>16 DEF Return, TypeOK, Local, Removal
  <2>2. Local(c)'
    BY <1>0, <1>16 DEF Return, TypeOK, Local, Removal, Addition, BothWays
  <2>3. Removal(c)'
    BY <1>0, <1>16 DEF Return, TypeOK, Local, Removal, Listed, BothWays
  <2>4. Addition(c)'
    BY <1>0, <1>16 DEF Return, TypeOK, Local, Addition, Listed
  <2>5. Listed(c)'
    BY <1>0, <1>16 DEF Return, TypeOK, Local, Removal, Addition, Listed
  <2>6. BothWays(c)'
    BY <1>0, <1>16 DEF Return, TypeOK, Local, Removal, Addition, Listed,
       BothWays
  <2>7. Past(c)'
    BY <1>0, <1>16 DEF Return, TypeOK, Local, Addition, BothWays, Past,
       FaceMeansOneAddress, GivenFaceLeadsBack
  <2> QED  BY <2>1, <2>2, <2>3, <2>4, <2>5, <2>6, <2>7
<1> QED
  BY <1>1, <1>2, <1>3, <1>4, <1>5, <1>6, <1>7, <1>8, <1>9, <1>10, <1>11,
     <1>12, <1>13, <1>14, <1>15, <1>16 DEF Next, Step

-----------------------------------------------------------------------------
LEMMA Invariant ==
    ASSUME NEW c, Callers = {c} PROVE Spec => []IInv(c)
<1>1. Init => IInv(c)
  BY InitInvariant
<1>2. IInv(c) /\ [Next]_vars => IInv(c)'
  BY StepInvariant
<1> QED  BY <1>1, <1>2, PTL DEF Spec

(* Calls of get_or_create_faceid that do not overlap keep the face table a *)
(* bijection between ids and addresses of at most max_entries entries, and *)
(* an id leads to the address it was given for until it is evicted.        *)
THEOREM FacesInTurn ==
    ASSUME NEW c, Callers = {c}
    PROVE  Spec => [](/\ FaceMeansOneAddress /\ GivenFaceLeadsBack
                      /\ Consistent /\ WithinLimit /\ NoCallFails)
<1> DEFINE Good == /\ FaceMeansOneAddress /\ GivenFaceLeadsBack
                   /\ Consistent /\ WithinLimit /\ NoCallFails
<1>1. IInv(c) => Good
  <2> SUFFICES ASSUME IInv(c) PROVE Good
    OBVIOUS
  <2>1. FaceMeansOneAddress /\ GivenFaceLeadsBack
    BY DEF IInv, Past
  <2>2. WithinLimit /\ NoCallFails
    BY DEF IInv, Listed, Local, WithinLimit, NoCallFails
  <2>3. ASSUME pc[c] = "idle", NEW i \in FaceIds
        PROVE  /\ \A a \in Addresses :
                     faceid_to_addrinfo[i] = a <=> addrinfo_to_faceid[a] = i
               /\ faceid_to_addrinfo[i] # None <=> Contains(faceids, i)
    <3>1. None \notin FaceIds /\ None \notin Addresses
      BY FaceTableAssumption DEF FaceIds
    <3> QED
      BY <2>3, <3>1 DEF IInv, TypeOK, Listed, BothWays
  <2>4. Ascending(faceids)
    BY DEF IInv, Listed
  <2>5. Consistent
    BY <2>3, <2>4 DEF Consistent, Ascending
  <2> QED  BY <2>1, <2>2, <2>5
<1>2. Spec => []IInv(c)
  BY Invariant
<1> QED  BY <1>1, <1>2, PTL

-----------------------------------------------------------------------------
(* The refinement: only DelFace and PutId change what the map shows. *)

(* The list of complete bindings lags behind the list of ids by the id     *)
(* whose removal is under way.                                             *)
LEMMA CompleteList ==
    ASSUME NEW c, Callers = {c}, IInv(c)
    PROVE  Complete = IF pc[c] \in {"del_addr", "del_id"} THEN Tail(faceids)
                      ELSE faceids
<1>1. CASE pc[c] \in {"del_addr", "del_id"}
  BY <1>1 DEF IInv, Removal, Removing, Complete
<1>2. CASE pc[c] \notin {"del_addr", "del_id"}
  <2>1. faceids # << >> =>
            Head(faceids) \in FaceIds /\ Contains(faceids, Head(faceids))
    BY DEF IInv, TypeOK, Contains
  <2> QED  BY <1>2, <2>1 DEF IInv, Listed, Complete
<1> QED  BY <1>1, <1>2

(* A step that leaves the list and the addresses of its ids alone changes  *)
(* nothing that the map shows.                                             *)
LEMMA ShownUnchanged ==
    ASSUME Complete' = Complete,
           \A i \in DOMAIN Complete :
               faceid_to_addrinfo'[Complete[i]] = faceid_to_addrinfo[Complete[i]]
    PROVE  Shown' = Shown
BY DEF Shown

(* A sequence with one more element is the old one with that appended. *)
LEMMA AppendIs ==
    ASSUME NEW S, NEW s \in Seq(S), NEW t \in Seq(S), NEW e \in S,
           Len(t) = Len(s) + 1, t[Len(s) + 1] = e,
           \A k \in 1 .. Len(s) : t[k] = s[k]
    PROVE  t = Append(s, e)
<1>1. Append(s, e) \in Seq(S) /\ Len(Append(s, e)) = Len(s) + 1
  OBVIOUS
<1>2. \A k \in 1 .. Len(s) + 1 : Append(s, e)[k] = t[k]
  OBVIOUS
<1> QED  BY <1>1, <1>2

(* Every statement of get_or_create_faceid is a step of the abstract face  *)
(* map or changes nothing of it.                                           *)
LEMMA MapSteps ==
    ASSUME NEW c, Callers = {c}
    PROVE  /\ Init => Map!Init
           /\ IInv(c) /\ IInv(c)' /\ [Next]_vars => [Map!Next]_<<Shown, Counted>>
<1> DEFINE Gone == pc[c] \in {"del_addr", "del_id"}
           Lag == IF Gone THEN Tail(faceids) ELSE faceids
           MapStep == [Map!Next]_<<Shown, Counted>>
<1>1. Init => Map!Init
  BY FaceTableAssumption DEF Init, Map!Init, Complete, Adding, Shown, Counted
<1>2. IInv(c) => Complete = Lag
  BY CompleteList
<1>3. IInv(c)' => (Complete = Lag)'
  BY <1>2, PTL
<1>4. ASSUME IInv(c), IInv(c)', [Next]_vars
      PROVE  MapStep
  <2> USE FaceTableAssumption DEF IInv, TypeOK, Goto, tables, history, New
  <2>1. Complete = Lag /\ Complete' = Lag'
    BY <1>2, <1>3, <1>4
  <2>2. Counted = (IF pc[c] \in New THEN next_face_id - 1 ELSE next_face_id)
    BY DEF Counted, Adding
  <2>3. Counted' = (IF pc'[c] \in New THEN next_face_id' - 1
                    ELSE next_face_id')
    BY DEF Counted, Adding
  <2>4. CASE DelFace(c)
    <3>1. /\ faceids' = faceids /\ faceids # << >>
          /\ Len(faceids) = MaxEntries /\ reg[c] = Head(faceids)
          /\ Complete = faceids /\ Complete' = Tail(faceids)
      BY <1>4, <2>1, <2>4 DEF DelFace, Removal, Removing
    <3>2. Counted' = Counted
      BY <1>4, <2>2, <2>3, <2>4 DEF DelFace, Local
    <3>3. \A i \in FaceIds : i # reg[c] =>
              faceid_to_addrinfo'[i] = faceid_to_addrinfo[i]
      BY <2>4, <1>4 DEF DelFace
    <3>4. \A k \in 1 .. Len(faceids) - 1 :
              /\ Tail(faceids)[k] = faceids[k + 1]
              /\ faceids[k + 1] \in FaceIds /\ faceids[k + 1] # reg[c]
      <4> SUFFICES ASSUME NEW k \in 1 .. Len(faceids) - 1
                   PROVE  /\ Tail(faceids)[k] = faceids[k + 1]
                          /\ faceids[k + 1] \in FaceIds
                          /\ faceids[k + 1] # reg[c]
        OBVIOUS
      <4>1. faceids \in Seq(FaceIds) /\ FaceIds \subseteq Int
            /\ 1 \in DOMAIN faceids /\ k + 1 \in DOMAIN faceids
        BY <1>4, <3>1 DEF FaceIds
      <4>2. faceids[1] < faceids[k + 1]
        BY <1>4, <4>1 DEF Listed, Ascending
      <4>3. Head(faceids) = faceids[1]
        BY <4>1, <3>1
      <4>4. faceids[k + 1] \in FaceIds /\ faceids[1] \in FaceIds
        BY <4>1
      <4>6. Tail(faceids)[k] = faceids[k + 1]
        BY <1>4, <3>1, TailAscending DEF Listed
      <4>5. faceids[k + 1] # reg[c]
        <5>1. faceids[k + 1] \in Int /\ faceids[1] \in Int
          BY <4>1, <4>4
        <5>2. faceids[k + 1] # faceids[1]
          BY <5>1, <4>2
        <5> QED  BY <3>1, <4>3, <5>2
      <4> QED  BY <4>4, <4>5, <4>6
    <3>5. Shown' = Tail(Shown) /\ Len(Shown) = MaxEntries
      BY <1>4, <3>1, <3>3, <3>4 DEF Shown
    <3> QED  BY <3>2, <3>5 DEF Map!Next, Map!Evict
  <2>5. CASE PutId(c)
    <3> DEFINE n == next_face_id
    <3>1. /\ faceids' = Append(faceids, n) /\ Len(faceids) < MaxEntries
          /\ Complete = faceids /\ Complete' = Append(faceids, n)
          /\ n \in FaceIds /\ faceid_to_addrinfo' = faceid_to_addrinfo
          /\ faceid_to_addrinfo[n] = addr[c] /\ addr[c] \in Addresses
          /\ addrinfo_to_faceid[addr[c]] = n /\ ~Contains(faceids, n)
      BY <1>4, <2>1, <2>5 DEF PutId, Local, Addition, Listed
    <3>2. Counted = n - 1 /\ Counted' = n
      BY <1>4, <2>2, <2>3, <2>5 DEF PutId
    <3>3. Shown' = Append(Shown, <<n, addr[c]>>) /\ Len(Shown) < MaxEntries
      <4> DEFINE B == FaceIds \X (Addresses \cup {None})
      <4>1. faceids \in Seq(FaceIds) /\ faceids' \in Seq(FaceIds)
            /\ faceid_to_addrinfo \in [FaceIds -> Addresses \cup {None}]
        BY <1>4
      <4>2. Shown \in Seq(B) /\ Len(Shown) = Len(faceids)
            /\ \A k \in 1 .. Len(faceids) :
                  Shown[k] = <<faceids[k], faceid_to_addrinfo[faceids[k]]>>
        BY <3>1, <4>1 DEF Shown
      <4>3. Shown' \in Seq(B) /\ Len(Shown') = Len(faceids) + 1
            /\ \A k \in 1 .. Len(faceids) + 1 :
                  Shown'[k] = <<faceids'[k], faceid_to_addrinfo[faceids'[k]]>>
        BY <3>1, <4>1 DEF Shown
      <4>4. faceids'[Len(faceids) + 1] = n
            /\ \A k \in 1 .. Len(faceids) : faceids'[k] = faceids[k]
        BY <3>1, <4>1
      <4>5. <<n, addr[c]>> \in B /\ Shown'[Len(Shown) + 1] = <<n, addr[c]>>
        BY <3>1, <4>2, <4>3, <4>4
      <4>6. ASSUME NEW k \in 1 .. Len(Shown) PROVE Shown'[k] = Shown[k]
        <5>1. k \in 1 .. Len(faceids) /\ k \in 1 .. Len(faceids) + 1
          BY <4>1, <4>2
        <5>2. faceids'[k] = faceids[k]
          BY <4>4, <5>1
        <5> QED  BY <4>2, <4>3, <5>1, <5>2
      <4> HIDE DEF B
      <4>7. Shown' = Append(Shown, <<n, addr[c]>>)
        BY <4>2, <4>3, <4>5, <4>6, AppendIs
      <4> QED  BY <3>1, <4>2, <4>7
    <3>4. \A i \in DOMAIN Shown : Shown[i][2] # addr[c]
      BY <1>4, <2>5, <3>1, SMTT(60) DEF Shown, BothWays, Contains, PutId
    <3>5. ~Map!Bound(addr[c])
      BY <3>4 DEF Map!Bound
    <3>6. Counted' = Counted + 1
      BY <3>1, <3>2 DEF FaceIds
    <3>7. Map!Bind(addr[c])
      BY <3>2, <3>3, <3>5, <3>6 DEF Map!Bind
    <3> QED  BY <3>1, <3>7 DEF Map!Next
  <2>6. ASSUME faceids' = faceids, Gone' = Gone, Counted' = Counted,
               \A i \in FaceIds : Contains(faceids, i) =>
                   faceid_to_addrinfo'[i] = faceid_to_addrinfo[i]
        PROVE  MapStep
    <3>1. Complete' = Complete /\ DOMAIN Complete = 1 .. Len(Complete)
      BY <1>4, <2>1, <2>6
    <3>2. \A k \in DOMAIN Complete :
              Complete[k] \in FaceIds /\ Contains(faceids, Complete[k])
      <4>1. CASE Gone
        BY <1>4, <2>1, <4>1 DEF Removal, Removing, Contains
      <4>2. CASE ~Gone
        BY <1>4, <2>1, <4>2 DEF Contains
      <4> QED  BY <4>1, <4>2
    <3> QED  BY <2>6, <3>1, <3>2, ShownUnchanged
  <2>7. ASSUME UNCHANGED <<tables, next_face_id>>, Gone' = Gone,
               pc[c] \in New <=> pc'[c] \in New
        PROVE  MapStep
    BY <2>2, <2>3, <2>6, <2>7
  <2>8. CASE UNCHANGED vars
    BY <2>7, <2>8 DEF vars
  <2>9. CASE \E a \in Addresses : Call(c, a)
    BY <1>4, <2>7, <2>9 DEF Call
  <2>10. CASE Lookup(c)
    BY <1>4, <2>7, <2>10 DEF Lookup
  <2>11. CASE RemoveOldest(c) \/ FindOldest(c)
    BY <1>4, <2>7, <2>11 DEF RemoveOldest, FindOldest
  <2>12. CASE DelAddr(c)
    BY <1>4, <2>2, <2>3, <2>6, <2>12 DEF DelAddr, Local
  <2>13. CASE DelId(c)
    <3>1. faceids' = Tail(faceids) /\ Complete' = Complete
      BY <1>4, <2>1, <2>13, RemoveHead DEF DelId, Removal, Removing
    <3>2. Shown' = Shown /\ Counted' = Counted
      BY <1>4, <2>2, <2>3, <2>13, <3>1 DEF DelId, Shown, Local
    <3> QED  BY <3>2
  <2>14. CASE LoadCounter(c)
    BY <1>4, <2>7, <2>14 DEF LoadCounter
  <2>15. CASE StoreCounter(c)
    <3>1. UNCHANGED <<faceids, faceid_to_addrinfo>>
      BY <2>15 DEF StoreCounter, tables
    <3>2. pc[c] = "store" /\ pc'[c] = "argument" /\ next_face_id' = reg[c] + 1
      BY <1>4, <2>15 DEF StoreCounter, Goto, TypeOK
    <3>3. Gone' = Gone
      BY <3>2
    <3>4. Counted' = Counted
      BY <1>4, <2>2, <2>3, <3>2 DEF Local
    <3> QED  BY <2>6, <3>1, <3>3, <3>4
  <2>16. CASE AddArgument(c) \/ TestAbsent(c)
    BY <1>4, <2>7, <2>16 DEF AddArgument, TestAbsent, Local, Addition, Unbound
  <2>17. CASE PutFace(c)
    BY <1>4, <2>2, <2>3, <2>6, <2>17 DEF PutFace, Local, Listed
  <2>18. CASE PutAddr(c)
    BY <1>4, <2>2, <2>3, <2>6, <2>18 DEF PutAddr
  <2>19. CASE Return(c)
    BY <1>4, <2>7, <2>19 DEF Return
  <2> QED
    BY <1>4, <2>4, <2>5, <2>8, <2>9, <2>10, <2>11, <2>12, <2>13, <2>14, <2>15,
       <2>16, <2>17, <2>18, <2>19 DEF Next, Step
<1> QED  BY <1>1, <1>4

(* The statements of get_or_create_faceid, taken one by one, implement the *)
(* abstract face map as long as calls do not overlap.                      *)
THEOREM FacesImplementMap ==
    ASSUME NEW c, Callers = {c} PROVE Spec => IsFaceMap
<1>1. Init => Map!Init
  BY MapSteps
<1>2. IInv(c) /\ IInv(c)' /\ [Next]_vars => [Map!Next]_<<Shown, Counted>>
  BY MapSteps
<1>3. Spec => []IInv(c)
  BY Invariant
<1> QED
  BY <1>1, <1>2, <1>3, PTL DEF Spec, IsFaceMap, Map!Spec

-----------------------------------------------------------------------------
(* The layers above the face table: sequences whose elements are of no     *)
(* particular set *)

IsSeq(s) == \E S : s \in Seq(S)

(* What Append makes of any sequence. *)
LEMMA AfterAppend ==
    ASSUME NEW s, IsSeq(s), NEW e
    PROVE  /\ IsSeq(Append(s, e)) /\ Append(s, e) # << >>
           /\ Len(s) \in Nat /\ Len(Append(s, e)) = Len(s) + 1
           /\ DOMAIN s = 1 .. Len(s) /\ DOMAIN Append(s, e) = 1 .. Len(s) + 1
           /\ Append(s, e)[Len(s) + 1] = e
           /\ \A k \in 1 .. Len(s) : Append(s, e)[k] = s[k]
<1>1. PICK S : s \in Seq(S)
  BY DEF IsSeq
<1>2. s \in Seq(S \cup {e}) /\ e \in S \cup {e}
  <2>1. Len(s) \in Nat /\ s \in [1 .. Len(s) -> S]
    BY <1>1
  <2>2. s \in [1 .. Len(s) -> S \cup {e}]
    BY <2>1
  <2> QED  BY <2>1, <2>2
<1>3. Append(s, e) \in Seq(S \cup {e})
  BY <1>2
<1>4. IsSeq(Append(s, e))
  BY <1>3 DEF IsSeq
<1> HIDE DEF IsSeq
<1> QED  BY <1>2, <1>4

(* What Tail makes of any sequence that is not empty. *)
LEMMA AfterTail ==
    ASSUME NEW s, IsSeq(s), s # << >>
    PROVE  /\ IsSeq(Tail(s))
           /\ Len(s) \in Nat \ {0} /\ Len(Tail(s)) = Len(s) - 1
           /\ DOMAIN s = 1 .. Len(s) /\ DOMAIN Tail(s) = 1 .. Len(s) - 1
           /\ Head(s) = s[1]
           /\ \A k \in 1 .. Len(s) - 1 : Tail(s)[k] = s[k + 1]
<1>1. PICK S : s \in Seq(S)
  BY DEF IsSeq
<1>2. Tail(s) \in Seq(S)
  BY <1>1
<1> QED  BY <1>1, <1>2 DEF IsSeq

LEMMA EmptyIsSeq ==
    ASSUME NEW s, s = << >>
    PROVE  IsSeq(s) /\ Len(s) = 0
<1>1. s \in Seq({}) /\ Len(s) = 0
  OBVIOUS
<1> QED  BY <1>1 DEF IsSeq

(* A sequence is empty if its length is zero. *)
LEMMA SeqDomain ==
    ASSUME NEW s, IsSeq(s)
    PROVE  /\ Len(s) \in Nat /\ DOMAIN s = 1 .. Len(s)
           /\ Len(s) = 0 <=> s = << >>
<1>1. PICK S : s \in Seq(S)
  BY DEF IsSeq
<1> QED  BY <1>1

(* Two sequences after one another. *)
LEMMA Joined ==
    ASSUME NEW S, NEW s \in Seq(S), NEW t \in Seq(S), NEW n, n = Len(s), NEW m, m = Len(t)
    PROVE  /\ s \o t \in Seq(S) /\ Len(s \o t) = n + m
           /\ \A k \in 1 .. n : (s \o t)[k] = s[k]
           /\ \A k \in n + 1 .. n + m : (s \o t)[k] = t[k - n]
<1>1. n \in Nat /\ m \in Nat
  BY LenProperties
<1>2. /\ s \o t \in Seq(S) /\ Len(s \o t) = n + m
      /\ \A k \in 1 .. n + m : (s \o t)[k] = IF k <= n THEN s[k] ELSE t[k - n]
  BY ConcatProperties
<1> QED  BY <1>1, <1>2

(* list.insert: those behind the new element move one place. *)
Widened(z, s, h, at, e) ==
    /\ Len(z) = h + 1
    /\ \A k \in 1 .. h + 1 :
          z[k] = IF k < at THEN s[k] ELSE IF k = at THEN e ELSE s[k - 1]

LEMMA InsertedInto ==
    ASSUME NEW S, NEW s \in Seq(S), NEW h, h = Len(s), NEW at \in 1 .. h, NEW e \in S
    PROVE  InsertAt(s, at, e) \in Seq(S) /\ Widened(InsertAt(s, at, e), s, h, at, e)
<1>1. h \in Nat
  BY LenProperties
<1>2. PICK a, b : a = SubSeq(s, 1, at - 1) /\ b = SubSeq(s, at, h)
  OBVIOUS
<1>3. /\ a \in Seq(S) /\ Len(a) = at - 1 /\ \A k \in 1 .. at - 1 : a[k] = s[k]
      /\ b \in Seq(S) /\ Len(b) = h - at + 1
      /\ \A k \in 1 .. h - at + 1 : b[k] = s[at + k - 1]
  BY <1>1, <1>2
<1>4. PICK x : x = a \o <<e>>
  OBVIOUS
<1>5. /\ x \in Seq(S) /\ Len(x) = at
      /\ \A k \in 1 .. at - 1 : x[k] = a[k]
      /\ x[at] = e
  <2>1. PICK y : y = <<e>>
    OBVIOUS
  <2>2. y \in Seq(S) /\ Len(y) = 1 /\ y[1] = e
    BY <2>1
  <2>3. PICK n, m : n = at - 1 /\ m = 1
    OBVIOUS
  <2>4. a \in Seq(S) /\ y \in Seq(S) /\ n = Len(a) /\ m = Len(y)
    BY <1>3, <2>2, <2>3
  <2>5. /\ a \o y \in Seq(S) /\ Len(a \o y) = n + m
        /\ \A k \in 1 .. n : (a \o y)[k] = a[k]
        /\ \A k \in n + 1 .. n + m : (a \o y)[k] = y[k - n]
    BY <2>4, Joined
  <2>6. n + m = at /\ at \in n + 1 .. n + m /\ at - n = 1
    BY <1>1, <2>3
  <2>7. (a \o y)[at] = e
    BY <2>2, <2>5, <2>6
  <2> QED  BY <1>4, <2>1, <2>3, <2>5, <2>6, <2>7
<1>6. /\ x \o b \in Seq(S) /\ Len(x \o b) = at + (h - at + 1)
      /\ \A k \in 1 .. at : (x \o b)[k] = x[k]
      /\ \A k \in at + 1 .. at + (h - at + 1) : (x \o b)[k] = b[k - at]
  <2>1. PICK n, m : n = at /\ m = h - at + 1
    OBVIOUS
  <2>2. x \in Seq(S) /\ b \in Seq(S) /\ n = Len(x) /\ m = Len(b)
    BY <1>3, <1>5, <2>1
  <2>3. /\ x \o b \in Seq(S) /\ Len(x \o b) = n + m
        /\ \A k \in 1 .. n : (x \o b)[k] = x[k]
        /\ \A k \in n + 1 .. n + m : (x \o b)[k] = b[k - n]
    BY <2>2, Joined
  <2> QED  BY <2>1, <2>3
<1>7. PICK z : z = x \o b
  OBVIOUS
<1>8. z = InsertAt(s, at, e)
  BY <1>2, <1>4, <1>7 DEF InsertAt
<1>9. at + (h - at + 1) = h + 1
  BY <1>1
<1>10. ASSUME NEW k \in 1 .. h + 1
       PROVE  z[k] = IF k < at THEN s[k] ELSE IF k = at THEN e ELSE s[k - 1]
  <2>1. CASE k < at
    <3>1. k \in 1 .. at - 1 /\ k \in 1 .. at
      BY <1>1, <2>1
    <3>2. z[k] = x[k] /\ x[k] = a[k] /\ a[k] = s[k]
      BY <1>3, <1>5, <1>6, <1>7, <3>1
    <3> QED  BY <2>1, <3>2
  <2>2. CASE k = at
    <3>1. at \in 1 .. at
      BY <1>1
    <3>2. z[at] = x[at]
      BY <1>6, <1>7, <3>1
    <3> QED  BY <1>5, <2>2, <3>2
  <2>3. CASE k > at
    <3>1. k \in at + 1 .. h + 1 /\ k - at \in 1 .. h - at + 1 /\ at + (k - at) - 1 = k - 1
      BY <1>1, <2>3
    <3>2. z[k] = b[k - at] /\ b[k - at] = s[k - 1]
      BY <1>3, <1>6, <1>7, <1>9, <3>1
    <3> QED  BY <2>3, <3>2
  <2> QED  BY <1>1, <2>1, <2>2, <2>3
<1>11. z \in Seq(S) /\ Len(z) = h + 1
  BY <1>6, <1>7, <1>9
<1>12. Widened(z, s, h, at, e)
  BY <1>10, <1>11 DEF Widened
<1> QED  BY <1>8, <1>11, <1>12

(* A sequence keeps its length when an element is replaced. *)
LEMMA Substituted ==
    ASSUME NEW s, IsSeq(s), NEW q, NEW e
    PROVE  IsSeq([s EXCEPT ![q] = e]) /\ Len([s EXCEPT ![q] = e]) = Len(s)
<1>1. PICK S : s \in Seq(S)
  BY DEF IsSeq
<1> DEFINE y == [s EXCEPT ![q] = e]
<1>2. s \in [1 .. Len(s) -> S] /\ Len(s) \in Nat
  BY <1>1
<1>3. y \in [1 .. Len(s) -> S \cup {e}]
  BY <1>2
<1> HIDE DEF y
<1>4. y \in Seq(S \cup {e}) /\ Len(y) = Len(s)
  BY <1>2, <1>3
<1> QED  BY <1>4 DEF IsSeq, y

-----------------------------------------------------------------------------
(* How the layers of a stack are connected *)

Height == Len(layers)
Up(i) == ports[layers[i]].from_lower    \* from layers[i + 1] to layers[i]
Down(i) == ports[layers[i]].to_lower    \* from layers[i] to layers[i + 1]
Links == 1 .. Height - 1

Ports == {"to_higher", "from_higher", "to_lower", "from_lower"}

(* The ICN layer is on top, the encoding and the link layer are the lowest *)
(* ones, and no layer is there twice.                                      *)
Ordered ==
    /\ layers \in Seq(Layers) /\ Height >= 3
    /\ layers[1] = "icn" /\ layers[Height - 1] = "encoding" /\ layers[Height] = "link"
    /\ \A i, j \in 1 .. Height : layers[i] = layers[j] => i = j

(* Neighbours share two queues, and nobody else uses them.                 *)
Linked ==
    /\ ports \in [Layers -> [Ports -> Nat]]
    /\ \A i \in Links : /\ ports[layers[i + 1]].to_higher = Up(i)
                        /\ ports[layers[i + 1]].from_higher = Down(i)
                        /\ Up(i) \in 5 .. Len(queues) /\ Down(i) \in 5 .. Len(queues)
    /\ \A i, j \in Links : /\ Up(i) = Up(j) => i = j
                           /\ Down(i) = Down(j) => i = j
                           /\ Up(i) # Down(j)
    /\ ports["icn"].from_higher = 2 /\ ports["link"].from_lower = 4

(* Every queue is between two neighbours, or outside and empty.            *)
Used ==
    /\ IsSeq(queues) /\ Len(queues) >= 4
    /\ \A q \in 1 .. Len(queues) : IsSeq(queues[q])
    /\ \A q \in 1 .. 4 : queues[q] = << >>
    /\ \A q \in 5 .. Len(queues) : \E i \in Links : q \in {Up(i), Down(i)}

Connected == Ordered /\ Linked /\ Used

(* Before the start, nothing has gone anywhere but to the bus.             *)
Unstarted == ~started => \A q \in 1 .. Len(queues) : queues[q] = << >>

(* The constructor connects the layers it is given. *)
LEMMA Constructed ==
    ASSUME {"icn", "encoding", "link"} \subseteq Layers, StackInit(<<"icn", "encoding", "link">>)
    PROVE  Connected /\ Unstarted
<1> DEFINE ls == <<"icn", "encoding", "link">>
<1>1. layers = ls /\ Height = 3 /\ layers \in Seq(Layers)
  BY DEF StackInit, Height
<1>2. queues = [q \in 1 .. 8 |-> << >>] /\ Len(queues) = 8 /\ queues \in Seq({<< >>})
  BY DEF StackInit
<1>3. DOMAIN Outside = Ports
  BY DEF Outside, Ports
<1>4. \A l \in Layers : Contains(ls, l) <=> l \in {"icn", "encoding", "link"}
  BY DEF Contains
<1>5. /\ (CHOOSE i \in DOMAIN ls : ls[i] = "icn") = 1
      /\ (CHOOSE i \in DOMAIN ls : ls[i] = "encoding") = 2
      /\ (CHOOSE i \in DOMAIN ls : ls[i] = "link") = 3
  <2>1. DOMAIN ls = {1, 2, 3} /\ ls[1] = "icn" /\ ls[2] = "encoding" /\ ls[3] = "link"
    OBVIOUS
  <2> HIDE DEF ls
  <2> QED  BY <2>1
<1>6. Head(ls) = "icn" /\ Last(ls) = "link"
  BY DEF Last
<1>7. /\ ports \in [Layers -> [Ports -> Nat]]
      /\ ports["icn"].from_lower = 5 /\ ports["icn"].to_lower = 6
      /\ ports["icn"].from_higher = 2
      /\ ports["encoding"].to_higher = 5 /\ ports["encoding"].from_higher = 6
      /\ ports["encoding"].from_lower = 7 /\ ports["encoding"].to_lower = 8
      /\ ports["link"].to_higher = 7 /\ ports["link"].from_higher = 8
      /\ ports["link"].from_lower = 4
  <2> DEFINE linked(i) == [to_higher |-> 2 * (i - 1) + 3, from_higher |-> 2 * (i - 1) + 4,
                           to_lower |-> 2 * i + 4, from_lower |-> 2 * i + 3]
             inner == [l \in Layers |-> IF Contains(ls, l)
                                       THEN linked(CHOOSE i \in DOMAIN ls : ls[i] = l)
                                       ELSE Unconnected]
  <2>1. ports = Ended(ls, inner)
    BY DEF StackInit
  <2>2. /\ inner["icn"] = linked(1) /\ inner["encoding"] = linked(2) /\ inner["link"] = linked(3)
        /\ \A l \in Layers \ {"icn", "encoding", "link"} : inner[l] = Unconnected
    BY <1>4, <1>5
  <2>3. Unconnected \in [Ports -> Nat]
    BY <1>3 DEF Unconnected, NoQueue
  <2>4. \A l \in Layers : inner[l] \in [Ports -> Nat]
    <3>1. linked(1) \in [Ports -> Nat] /\ linked(2) \in [Ports -> Nat] /\ linked(3) \in [Ports -> Nat]
      BY DEF Ports
    <3> HIDE DEF linked, inner
    <3> QED  BY <2>2, <2>3, <3>1
  <2> HIDE DEF ls, inner
  <2>5. \A l \in Layers, port \in Ports :
          ports[l][port] = IF \/ l = "icn" /\ port \in {"to_higher", "from_higher"}
                              \/ l = "link" /\ port \in {"to_lower", "from_lower"}
                           THEN Outside[port] ELSE inner[l][port]
    BY <1>3, <1>6, <2>1 DEF Ended
  <2>6. \A port \in Ports : Outside[port] \in Nat
    BY DEF Outside, Ports
  <2>7. ports \in [Layers -> [Ports -> Nat]]
    BY <1>3, <1>6, <2>1, <2>4, <2>6 DEF Ended
  <2> QED  BY <2>2, <2>5, <2>7 DEF Ports, Outside
<1>8. Ordered
  BY <1>1 DEF Ordered
<1>9. Linked
  BY <1>1, <1>2, <1>7 DEF Linked, Links, Up, Down
<1>10. Used
  <2>1. IsSeq(queues) /\ IsSeq(<< >>)
    BY <1>2, EmptyIsSeq DEF IsSeq
  <2>2. 1 \in Links /\ 2 \in Links /\ Up(1) = 5 /\ Down(1) = 6 /\ Up(2) = 7 /\ Down(2) = 8
    BY <1>1, <1>7 DEF Links, Up, Down
  <2> QED  BY <1>2, <2>1, <2>2 DEF Used
<1> QED  BY <1>2, <1>8, <1>9, <1>10 DEF Connected, Unstarted

(* A layer that is inserted between two others gets new queues to the one  *)
(* above, and the old ones to the one below.                               *)
LEMMA Inserted ==
    ASSUME Connected, ~started, Unstarted,
           NEW l \in Layers, l \notin ToSet(layers),
           NEW at \in 2 .. Height - 1, InsertLayer(l, at)
    PROVE  Connected' /\ Unstarted'
<1> DEFINE new == Len(queues) + 1
           above == layers[at - 1]
           below == layers[at]
           linked == [[ports EXCEPT ![above].to_lower = new, ![above].from_lower = new + 1]
                         EXCEPT ![below].to_higher = Up(at - 1), ![below].from_higher = Down(at - 1)]
           inserted == [to_higher |-> new + 1, from_higher |-> new,
                        to_lower |-> Down(at - 1), from_lower |-> Up(at - 1)]
<1> USE DEF Connected
<1>1. /\ layers \in Seq(Layers) /\ Height \in Nat /\ Height >= 3
      /\ DOMAIN layers = 1 .. Height
      /\ \A i \in 1 .. Height : layers[i] \in Layers
      /\ \A i, j \in 1 .. Height : layers[i] = layers[j] => i = j
      /\ \A i \in 1 .. Height : layers[i] # l
  BY DEF Ordered, Height, ToSet
<1>2. /\ layers' \in Seq(Layers) /\ Height' = Height + 1
      /\ \A k \in 1 .. Height + 1 :
            layers'[k] = IF k < at THEN layers[k] ELSE IF k = at THEN l ELSE layers[k - 1]
  <2>1. PICK h : h = Height
    OBVIOUS
  <2>2. layers \in Seq(Layers) /\ h = Len(layers) /\ at \in 1 .. h
    BY <1>1, <2>1 DEF Height
  <2>3. layers' = InsertAt(layers, at, l)
    BY DEF InsertLayer
  <2>4. PICK ls : ls = layers
    OBVIOUS
  <2>5. ls \in Seq(Layers) /\ h = Len(ls) /\ at \in 1 .. h /\ l \in Layers
    BY <2>2, <2>4
  <2>6. InsertAt(ls, at, l) \in Seq(Layers) /\ Widened(InsertAt(ls, at, l), ls, h, at, l)
    BY <2>5, InsertedInto
  <2>7. layers' \in Seq(Layers) /\ Widened(layers', layers, h, at, l)
    BY <2>3, <2>4, <2>6
  <2> QED  BY <2>1, <2>7 DEF Height, Widened
<1>3. queues' = queues \o << << >>, << >> >> /\ started' = started
  BY DEF InsertLayer
<1>4. /\ IsSeq(queues') /\ Len(queues') = Len(queues) + 2 /\ Len(queues) \in Nat
      /\ \A q \in 1 .. Len(queues) + 2 :
            queues'[q] = IF q <= Len(queues) THEN queues[q] ELSE << >>
  <2>1. PICK S : queues \in Seq(S)
    BY DEF Used, IsSeq
  <2>2. queues \in Seq(S \cup {<< >>}) /\ << << >>, << >> >> \in Seq(S \cup {<< >>})
    <3>1. Len(queues) \in Nat /\ queues \in [1 .. Len(queues) -> S \cup {<< >>}]
      BY <2>1
    <3> QED  BY <3>1
  <2>3. queues \o << << >>, << >> >> \in Seq(S \cup {<< >>})
    BY <2>2
  <2> QED  BY <1>3, <2>2, <2>3 DEF IsSeq
<1>5. ports' = Ended(layers', [linked EXCEPT ![l] = inserted])
  <2>1. at > 1 /\ at <= Len(layers) /\ at # 1 /\ ~(at > Len(layers))
    BY <1>1 DEF Height
  <2> QED  BY <2>1, Zenon DEF InsertLayer, LinkedAbove, Up, Down
<1>6. Head(layers') = "icn" /\ Last(layers') = "link" /\ l \notin {"icn", "link"}
      /\ above # l /\ below # l /\ above # below
  BY <1>1, <1>2 DEF Ordered, Last, Height
<1>7. DOMAIN Outside = Ports /\ Outside = [to_higher |-> 1, from_higher |-> 2, to_lower |-> 3, from_lower |-> 4]
  BY DEF Outside, Ports
<1>8. /\ ports \in [Layers -> [Ports -> Nat]] /\ above \in Layers /\ below \in Layers
      /\ Up(at - 1) \in Nat /\ Down(at - 1) \in Nat /\ new \in Nat
  <2>1. ports \in [Layers -> [Ports -> Nat]]
    BY DEF Linked
  <2>2. above \in Layers /\ below \in Layers /\ new \in Nat
    BY <1>1, <1>4
  <2>3. Up(at - 1) = ports[above]["from_lower"] /\ Down(at - 1) = ports[above]["to_lower"]
    BY DEF Up, Down
  <2> HIDE DEF above, below, new
  <2> QED  BY <2>1, <2>2, <2>3 DEF Ports
<1>9. \A k \in Layers, port \in Ports :
        ports'[k][port] =
          IF \/ k = "icn" /\ port \in {"to_higher", "from_higher"}
             \/ k = "link" /\ port \in {"to_lower", "from_lower"} THEN Outside[port]
          ELSE IF k = l THEN inserted[port]
          ELSE IF k = above /\ port = "to_lower" THEN new
          ELSE IF k = above /\ port = "from_lower" THEN new + 1
          ELSE IF k = below /\ port = "to_higher" THEN Up(at - 1)
          ELSE IF k = below /\ port = "from_higher" THEN Down(at - 1)
          ELSE ports[k][port]
  <2>1. \A k \in Layers, port \in Ports :
          [linked EXCEPT ![l] = inserted][k][port] =
          IF k = l THEN inserted[port]
          ELSE IF k = above /\ port = "to_lower" THEN new
          ELSE IF k = above /\ port = "from_lower" THEN new + 1
          ELSE IF k = below /\ port = "to_higher" THEN Up(at - 1)
          ELSE IF k = below /\ port = "from_higher" THEN Down(at - 1)
          ELSE ports[k][port]
    <3> HIDE DEF new, above, below
    <3> QED  BY <1>6, <1>8 DEF Ports
  <2> HIDE DEF linked, inserted
  <2> QED  BY <1>5, <1>6, <1>7, <2>1 DEF Ended
<1>10. ASSUME NEW i \in 1 .. Height
       PROVE  /\ Up(i)' = IF i < at - 1 THEN Up(i) ELSE IF i = at - 1 THEN new + 1 ELSE Up(i - 1)
              /\ Down(i)' = IF i < at - 1 THEN Down(i) ELSE IF i = at - 1 THEN new ELSE Down(i - 1)
  <2>1. layers'[i] \in Layers /\ layers'[i] # "link"
    BY <1>1, <1>2 DEF Ordered
  <2>2. /\ i < at - 1 => layers'[i] = layers[i] /\ layers[i] \notin {above, l}
        /\ i = at - 1 => layers'[i] = above
        /\ i = at => layers'[i] = l
        /\ i > at => layers'[i] = layers[i - 1] /\ layers[i - 1] \notin {above, l}
    BY <1>1, <1>2
  <2>3. at \in Int /\ i \in Int /\ {"from_lower", "to_lower"} \subseteq Ports
    BY <1>1 DEF Ports
  <2> HIDE DEF new, above, below
  <2> QED  BY <1>6, <1>9, <2>1, <2>2, <2>3 DEF Up, Down
<1>11. ASSUME NEW i \in 1 .. Height
       PROVE  /\ ports'[layers'[i + 1]].to_higher = Up(i)'
              /\ ports'[layers'[i + 1]].from_higher = Down(i)'
  <2>1. layers'[i + 1] \in Layers /\ layers'[i + 1] # "icn"
    <3>1. layers[1] = "icn" /\ layers'[1] = "icn" /\ i + 1 \in 1 .. Height + 1
      BY <1>1, <1>2 DEF Ordered
    <3>2. CASE i + 1 < at
      BY <1>1, <1>2, <3>1, <3>2
    <3>3. CASE i + 1 = at
      BY <1>6, <1>1, <1>2, <3>1, <3>3
    <3>4. CASE i + 1 > at
      BY <1>1, <1>2, <3>1, <3>4
    <3> QED  BY <3>2, <3>3, <3>4, <1>1
  <2>2. /\ i < at - 1 => layers'[i + 1] = layers[i + 1] /\ layers[i + 1] \notin {below, l}
        /\ i = at - 1 => layers'[i + 1] = l
        /\ i = at => layers'[i + 1] = below
        /\ i > at => layers'[i + 1] = layers[i] /\ layers[i] \notin {below, l}
    BY <1>1, <1>2
  <2>3. at \in Int /\ i \in Int /\ {"to_higher", "from_higher"} \subseteq Ports
        /\ (i < at - 1 => i \in Links) /\ (i > at => i - 1 \in Links /\ (i - 1) + 1 = i)
    BY <1>1 DEF Ports, Links
  <2>4. \A j \in Links : /\ ports[layers[j + 1]].to_higher = Up(j)
                         /\ ports[layers[j + 1]].from_higher = Down(j)
    BY DEF Linked
  <2>5. layers[(i - 1) + 1] = layers[i]
    BY <2>3
  <2> HIDE DEF new, above, below
  <2>6. CASE i < at - 1
    BY <1>6, <1>9, <1>10, <2>1, <2>2, <2>3, <2>4, <2>6
  <2>7. CASE i = at - 1
    BY <1>6, <1>9, <1>10, <2>1, <2>2, <2>3, <2>7
  <2>8. CASE i = at
    BY <1>6, <1>9, <1>10, <2>1, <2>2, <2>3, <2>8
  <2>9. CASE i > at
    BY <1>6, <1>9, <1>10, <2>1, <2>2, <2>3, <2>4, <2>5, <2>9
  <2> QED  BY <2>3, <2>6, <2>7, <2>8, <2>9
<1>12. Ordered'
  BY <1>1, <1>2 DEF Ordered
<1>13. Linked'
  <2>1. ports' \in [Layers -> [Ports -> Nat]]
    <3>1. \A k \in Layers, port \in Ports : ports'[k][port] \in Nat
      <4>1. \A port \in Ports : inserted[port] \in Nat /\ Outside[port] \in Nat
        <5> HIDE DEF new, above, below
        <5>1. new + 1 \in Nat
          BY <1>8
        <5> QED  BY <1>7, <1>8, <5>1 DEF Ports
      <4>2. new \in Nat /\ new + 1 \in Nat
        BY <1>4
      <4>3. \A k \in Layers, port \in Ports : ports[k][port] \in Nat
        BY <1>8
      <4>4. Up(at - 1) \in Nat /\ Down(at - 1) \in Nat
        BY <1>8
      <4> HIDE DEF inserted, new, above, below
      <4> SUFFICES ASSUME NEW k \in Layers, NEW port \in Ports
                   PROVE  ports'[k][port] \in Nat
        OBVIOUS
      <4>5. PICK old : old = ports[k][port]
        OBVIOUS
      <4>6. old \in Nat
        BY <4>3, <4>5
      <4> QED  BY <1>9, <4>1, <4>2, <4>4, <4>5, <4>6
    <3>2. ports' = [k \in Layers |-> [port \in Ports |-> ports'[k][port]]]
      <4>1. PICK to : to = [linked EXCEPT ![l] = inserted]
        OBVIOUS
      <4>2. ports' = Ended(layers', to)
        BY <1>5, <4>1, Zenon
      <4>3. PICK ls : ls = layers'
        OBVIOUS
      <4>4. ports' = Ended(ls, to)
        BY <4>2, <4>3
      <4> QED  BY <1>7, <4>4 DEF Ended
    <3> QED  BY <3>1, <3>2
  <2>2. Links' = 1 .. Height
    BY <1>1, <1>2 DEF Links
  <2> DEFINE u == [k \in 1 .. Height - 1 |-> Up(k)]
             d == [k \in 1 .. Height - 1 |-> Down(k)]
             U == [k \in 1 .. Height |-> Up(k)']
             D == [k \in 1 .. Height |-> Down(k)']
             n == Len(queues)
  <2>20. \A k \in 1 .. Height - 1 : u[k] \in 5 .. n /\ d[k] \in 5 .. n
    BY DEF Linked, Links
  <2>21. \A k, m \in 1 .. Height - 1 :
            (u[k] = u[m] => k = m) /\ (d[k] = d[m] => k = m) /\ u[k] # d[m]
    BY DEF Linked, Links
  <2>22. n >= 4 /\ n \in Nat
    BY <1>4 DEF Used
  <2>23. ASSUME NEW k \in 1 .. Height
         PROVE  /\ k < at - 1 => k \in 1 .. Height - 1 /\ U[k] = u[k] /\ D[k] = d[k]
                /\ k = at - 1 => U[k] = n + 2 /\ D[k] = n + 1
                /\ k > at - 1 => k - 1 \in 1 .. Height - 1 /\ U[k] = u[k - 1] /\ D[k] = d[k - 1]
    <3>1. U[k] = Up(k)' /\ D[k] = Down(k)' /\ at \in Int
      BY <1>1
    <3>2. k < at - 1 => k \in 1 .. Height - 1 /\ u[k] = Up(k) /\ d[k] = Down(k)
      BY <1>1
    <3>3. k > at - 1 => k - 1 \in 1 .. Height - 1 /\ u[k - 1] = Up(k - 1) /\ d[k - 1] = Down(k - 1)
      BY <1>1
    <3>4. new + 1 = n + 2 /\ new = n + 1 /\ k \in Int
      BY <1>4
    <3> HIDE DEF u, d, U, D, n, new
    <3> QED  BY <1>10, <3>1, <3>2, <3>3, <3>4
  <2>24. \A k \in 1 .. Height : U[k] = Up(k)' /\ D[k] = Down(k)'
    OBVIOUS
  <2>27. at \in Int /\ Height \in Nat
    BY <1>1
  <2> HIDE DEF u, d, U, D, n
  <2>25. \A k \in 1 .. Height : U[k] \in 5 .. n + 2 /\ D[k] \in 5 .. n + 2
    BY <2>20, <2>22, <2>23, <2>27
  <2>26. ASSUME NEW i \in 1 .. Height, NEW j \in 1 .. Height
        PROVE  /\ U[i] = U[j] => i = j
               /\ D[i] = D[j] => i = j
               /\ U[i] # D[j]
    <3>1. CASE i < at - 1
      BY <2>20, <2>21, <2>22, <2>23, <2>27, <3>1
    <3>2. CASE i = at - 1
      BY <2>20, <2>21, <2>22, <2>23, <2>27, <3>2
    <3>3. CASE i > at - 1
      BY <2>20, <2>21, <2>22, <2>23, <2>27, <3>3
    <3> QED  BY <2>27, <3>1, <3>2, <3>3
  <2>3. \A i \in 1 .. Height : Up(i)' \in 5 .. Len(queues) + 2 /\ Down(i)' \in 5 .. Len(queues) + 2
    BY <2>24, <2>25 DEF n
  <2>4. ASSUME NEW i \in 1 .. Height, NEW j \in 1 .. Height
        PROVE  /\ Up(i)' = Up(j)' => i = j
               /\ Down(i)' = Down(j)' => i = j
               /\ Up(i)' # Down(j)'
    BY <2>24, <2>26
  <2>5. ports'["icn"].from_higher = 2 /\ ports'["link"].from_lower = 4
    <3>1. "icn" \in Layers /\ "link" \in Layers
      BY <1>1 DEF Ordered
    <3> QED  BY <1>7, <1>9, <3>1 DEF Ports
  <2> QED  BY <1>4, <1>11, <2>1, <2>2, <2>3, <2>4, <2>5 DEF Linked
<1>14. Used'
  <2>1. Links' = 1 .. Height /\ Links = 1 .. Height - 1
    BY <1>1, <1>2 DEF Links
  <2>2. ASSUME NEW q \in 5 .. Len(queues) + 2
        PROVE  \E i \in 1 .. Height : q \in {Up(i)', Down(i)'}
    <3>1. CASE q \in 5 .. Len(queues)
      <4>1. PICK j \in Links : q \in {Up(j), Down(j)}
        BY <3>1 DEF Used
      <4>2. CASE j < at - 1
        BY <4>1, <4>2, <1>1, <1>10, <2>1
      <4>3. CASE j >= at - 1
        <5>1. j + 1 \in 1 .. Height /\ (j + 1) - 1 = j
          BY <1>1, <2>1
        <5>2. Up(j + 1)' = Up(j) /\ Down(j + 1)' = Down(j)
          BY <1>1, <1>10, <4>3, <5>1
        <5> QED  BY <4>1, <5>1, <5>2
      <4> QED  BY <4>2, <4>3, <1>1, <2>1
    <3>2. CASE q \in {Len(queues) + 1, Len(queues) + 2}
      <4>1. at - 1 \in 1 .. Height /\ Up(at - 1)' = Len(queues) + 2 /\ Down(at - 1)' = Len(queues) + 1
        BY <1>1, <1>4, <1>10
      <4> QED  BY <3>2, <4>1
    <3> QED  BY <3>1, <3>2, <1>4
  <2>3. IsSeq(<< >>)
    BY EmptyIsSeq
  <2>4. Len(queues) >= 4 /\ \A q \in 1 .. 4 : queues[q] = << >>
    BY DEF Used
  <2>5. \A q \in 1 .. Len(queues) : IsSeq(queues[q])
    BY DEF Used
  <2>6. \A q \in 1 .. Len(queues) + 2 : IsSeq(queues'[q])
    BY <1>4, <2>3, <2>5
  <2> QED  BY <1>4, <2>1, <2>2, <2>4, <2>6 DEF Used
<1>15. Unstarted'
  BY <1>4 DEF Unstarted
<1> QED  BY <1>12, <1>13, <1>14, <1>15

(* Items that come and go leave the layers connected as they are. *)
LEMMA ConnectedStays ==
    ASSUME Connected, UNCHANGED <<layers, ports>>,
           IsSeq(queues'), Len(queues') = Len(queues),
           \A q \in 1 .. Len(queues) : IsSeq(queues'[q]),
           \A q \in 1 .. 4 : queues'[q] = queues[q]
    PROVE  /\ Connected' /\ Height' = Height /\ Links' = Links
           /\ \A i : Up(i)' = Up(i) /\ Down(i)' = Down(i)
<1>1. Height' = Height /\ Links' = Links
      /\ \A i : Up(i)' = Up(i) /\ Down(i)' = Down(i)
  BY DEF Height, Links, Up, Down
<1>2. Ordered'
  BY <1>1 DEF Connected, Ordered
<1>3. Linked'
  BY <1>1 DEF Connected, Linked
<1>4. Used'
  BY <1>1 DEF Connected, Used
<1> QED  BY <1>1, <1>2, <1>3, <1>4 DEF Connected

(* What a layer does to two queues when it handles an item. *)
LEMMA Moved ==
    ASSUME Connected, UNCHANGED <<layers, ports>>,
           NEW q \in 5 .. Len(queues), NEW r \in 5 .. Len(queues), q # r,
           queues[q] # << >>, NEW e,
           queues' = [queues EXCEPT ![q] = Tail(@), ![r] = Append(@, e)]
    PROVE  /\ Connected' /\ Height' = Height /\ Links' = Links
           /\ \A i : Up(i)' = Up(i) /\ Down(i)' = Down(i)
           /\ queues'[q] = Tail(queues[q]) /\ queues'[r] = Append(queues[r], e)
           /\ \A x \in 1 .. Len(queues) : x \notin {q, r} => queues'[x] = queues[x]
<1>1. IsSeq(queues) /\ Len(queues) >= 4 /\ \A x \in 1 .. Len(queues) : IsSeq(queues[x])
  BY DEF Connected, Used
<1>2. Len(queues) \in Nat /\ DOMAIN queues = 1 .. Len(queues)
  BY <1>1, SeqDomain
<1>3. q \in DOMAIN queues /\ r \in DOMAIN queues /\ 1 .. 4 \subseteq DOMAIN queues
  BY <1>1, <1>2
<1>4. /\ queues'[q] = Tail(queues[q]) /\ queues'[r] = Append(queues[r], e)
      /\ \A x \in 1 .. Len(queues) : x \notin {q, r} => queues'[x] = queues[x]
  BY <1>2, <1>3
<1>5. IsSeq(Tail(queues[q])) /\ IsSeq(Append(queues[r], e))
  BY <1>1, <1>2, <1>3, AfterTail, AfterAppend
<1>6. \A x \in 1 .. Len(queues) : IsSeq(queues'[x])
  BY <1>1, <1>4, <1>5
<1>7. IsSeq(queues') /\ Len(queues') = Len(queues)
  <2> DEFINE taken == [queues EXCEPT ![q] = Tail(@)]
  <2>1. IsSeq(taken) /\ Len(taken) = Len(queues)
    BY <1>1, Substituted
  <2>2. queues' = [taken EXCEPT ![r] = Append(queues[r], e)]
    BY <1>3
  <2> DEFINE put == [taken EXCEPT ![r] = Append(queues[r], e)]
  <2> HIDE DEF taken
  <2>3. IsSeq(put) /\ Len(put) = Len(taken)
    BY <2>1, Substituted
  <2>4. queues' = put
    BY <2>2
  <2> HIDE DEF put
  <2> QED  BY <2>1, <2>3, <2>4
<1>8. \A x \in 1 .. 4 : queues'[x] = queues[x]
  BY <1>1, <1>2, <1>4
<1> QED  BY <1>4, <1>6, <1>7, <1>8, ConnectedStays

(* What the lowest layer does to a queue, and the topmost one. *)
LEMMA Taken ==
    ASSUME Connected, UNCHANGED <<layers, ports>>,
           NEW q \in 5 .. Len(queues), queues[q] # << >>,
           queues' = [queues EXCEPT ![q] = Tail(@)]
    PROVE  /\ Connected' /\ Height' = Height /\ Links' = Links
           /\ \A i : Up(i)' = Up(i) /\ Down(i)' = Down(i)
           /\ queues'[q] = Tail(queues[q])
           /\ \A x \in 1 .. Len(queues) : x # q => queues'[x] = queues[x]
<1>1. IsSeq(queues) /\ Len(queues) >= 4 /\ \A x \in 1 .. Len(queues) : IsSeq(queues[x])
  BY DEF Connected, Used
<1>2. Len(queues) \in Nat /\ DOMAIN queues = 1 .. Len(queues)
  BY <1>1, SeqDomain
<1>3. q \in DOMAIN queues /\ 1 .. 4 \subseteq DOMAIN queues
  BY <1>1, <1>2
<1>4. /\ queues'[q] = Tail(queues[q])
      /\ \A x \in 1 .. Len(queues) : x # q => queues'[x] = queues[x]
  BY <1>2, <1>3
<1>5. \A x \in 1 .. Len(queues) : IsSeq(queues'[x])
  BY <1>1, <1>2, <1>3, <1>4, AfterTail
<1>6. IsSeq(queues') /\ Len(queues') = Len(queues)
  BY <1>1, Substituted
<1>7. \A x \in 1 .. 4 : queues'[x] = queues[x]
  BY <1>1, <1>2, <1>4
<1> QED  BY <1>4, <1>5, <1>6, <1>7, ConnectedStays

LEMMA Added ==
    ASSUME Connected, UNCHANGED <<layers, ports>>,
           NEW q \in 5 .. Len(queues), NEW e,
           queues' = [queues EXCEPT ![q] = Append(@, e)]
    PROVE  /\ Connected' /\ Height' = Height /\ Links' = Links
           /\ \A i : Up(i)' = Up(i) /\ Down(i)' = Down(i)
           /\ queues'[q] = Append(queues[q], e)
           /\ \A x \in 1 .. Len(queues) : x # q => queues'[x] = queues[x]
<1>1. IsSeq(queues) /\ Len(queues) >= 4 /\ \A x \in 1 .. Len(queues) : IsSeq(queues[x])
  BY DEF Connected, Used
<1>2. Len(queues) \in Nat /\ DOMAIN queues = 1 .. Len(queues)
  BY <1>1, SeqDomain
<1>3. q \in DOMAIN queues /\ 1 .. 4 \subseteq DOMAIN queues
  BY <1>1, <1>2
<1>4. /\ queues'[q] = Append(queues[q], e)
      /\ \A x \in 1 .. Len(queues) : x # q => queues'[x] = queues[x]
  BY <1>2, <1>3
<1>5. \A x \in 1 .. Len(queues) : IsSeq(queues'[x])
  BY <1>1, <1>2, <1>3, <1>4, AfterAppend
<1>6. IsSeq(queues') /\ Len(queues') = Len(queues)
  BY <1>1, Substituted
<1>7. \A x \in 1 .. 4 : queues'[x] = queues[x]
  BY <1>1, <1>2, <1>4
<1> QED  BY <1>4, <1>5, <1>6, <1>7, ConnectedStays

-----------------------------------------------------------------------------
(* The way up.  Whatever the node has got from the bus has a place in the  *)
(* order of arrival: first what the ICN layer has received, then the       *)
(* queues from the top to the link layer, then the datagram the link layer *)
(* handles, then what waits on the interface of the node.                  *)

(* Below the encoding layer, a packet has its wire format. *)
Form(i) == IF i = Height - 1 THEN "wire" ELSE "packet"

(* The item is, or is decoded from, a packet that was posted for the node  *)
(* and has this meaning.                                                   *)
Stands(enc, meaning, item, form) ==
    \E s \in Scenes : \E p \in ForNode(s) :
        /\ s.encoder = enc /\ meaning = Meaning(p)
        /\ item = IF form = "wire" THEN Encoded(enc, p) ELSE Decoded(enc, Encoded(enc, p))

(* The item came as the k-th. *)
Came(came, enc, k, from, item) ==
    /\ k \in 1 .. Len(came) /\ came[k][1] \in Addresses
    /\ from = came[k][1] /\ Stands(enc, came[k][2], item, "wire")

(* It has a face that was given for its sender. *)
Fits(came, faces, enc, k, item, form) ==
    /\ k \in 1 .. Len(came) /\ came[k][1] \in Addresses
    /\ <<came[k][1], item[1]>> \in faces
    /\ Stands(enc, came[k][2], item[2], form)

(* The items of s came one after the other, after the first n. *)
AllFit(came, faces, enc, n, s, form) ==
    \A k \in 1 .. Len(s) : Fits(came, faces, enc, n + k, s[k], form)

LEMMA FitAppend ==
    ASSUME NEW came, NEW faces, NEW enc, NEW n \in Nat, NEW s, NEW form, NEW e,
           IsSeq(s), AllFit(came, faces, enc, n, s, form),
           Fits(came, faces, enc, n + Len(s) + 1, e, form)
    PROVE  AllFit(came, faces, enc, n, Append(s, e), form)
<1>1. /\ Len(s) \in Nat /\ Len(Append(s, e)) = Len(s) + 1
      /\ Append(s, e)[Len(s) + 1] = e
      /\ \A k \in 1 .. Len(s) : Append(s, e)[k] = s[k]
  BY AfterAppend
<1>2. ASSUME NEW k \in 1 .. Len(s) + 1
      PROVE  Fits(came, faces, enc, n + k, Append(s, e)[k], form)
  <2>1. CASE k \in 1 .. Len(s)
    BY <1>1, <2>1 DEF AllFit
  <2>2. CASE k = Len(s) + 1
    <3>1. n + k = n + Len(s) + 1
      BY <1>1, <2>2
    <3> QED  BY <1>1, <2>2, <3>1
  <2> QED  BY <1>1, <2>1, <2>2
<1> QED  BY <1>1, <1>2 DEF AllFit

LEMMA FitTail ==
    ASSUME NEW came, NEW faces, NEW enc, NEW n \in Nat, NEW s, NEW form,
           IsSeq(s), s # << >>, AllFit(came, faces, enc, n, s, form)
    PROVE  /\ Fits(came, faces, enc, n + 1, Head(s), form)
           /\ AllFit(came, faces, enc, n + 1, Tail(s), form)
<1>1. /\ Len(s) \in Nat \ {0} /\ Len(Tail(s)) = Len(s) - 1 /\ Head(s) = s[1]
      /\ \A k \in 1 .. Len(s) - 1 : Tail(s)[k] = s[k + 1]
  BY AfterTail
<1>2. Fits(came, faces, enc, n + 1, Head(s), form)
  BY <1>1 DEF AllFit
<1>3. ASSUME NEW k \in 1 .. Len(s) - 1
      PROVE  Fits(came, faces, enc, (n + 1) + k, Tail(s)[k], form)
  <2>1. k + 1 \in 1 .. Len(s) /\ n + (k + 1) = (n + 1) + k
    BY <1>1
  <2>2. Fits(came, faces, enc, n + (k + 1), s[k + 1], form)
    BY <2>1 DEF AllFit
  <2> QED  BY <1>1, <2>1, <2>2
<1> QED  BY <1>1, <1>2, <1>3 DEF AllFit

(* What has come stays what it is when more comes and more faces are given. *)
LEMMA FitStays ==
    ASSUME NEW came, NEW faces, NEW enc, NEW n, NEW s, NEW form,
           AllFit(came, faces, enc, n, s, form),
           NEW came2, NEW faces2, faces \subseteq faces2,
           Len(came) \in Nat, Len(came2) \in Nat, Len(came) <= Len(came2),
           \A k \in 1 .. Len(came) : came2[k] = came[k]
    PROVE  AllFit(came2, faces2, enc, n, s, form)
<1> SUFFICES ASSUME NEW k \in 1 .. Len(s)
             PROVE  Fits(came2, faces2, enc, n + k, s[k], form)
  BY DEF AllFit
<1>1. Fits(came, faces, enc, n + k, s[k], form)
  BY DEF AllFit
<1> HIDE DEF AllFit
<1>2. n + k \in 1 .. Len(came2) /\ came2[n + k] = came[n + k]
  BY <1>1 DEF Fits
<1> QED  BY <1>1, <1>2 DEF Fits

(* The datagrams on the interface came after the first n. *)
AllCame(came, enc, n, s) ==
    \A k \in 1 .. Len(s) : Came(came, enc, n + k, s[k][1], s[k][2])

LEMMA CameTail ==
    ASSUME NEW came, NEW enc, NEW n \in Nat, NEW s,
           IsSeq(s), s # << >>, AllCame(came, enc, n, s)
    PROVE  /\ Came(came, enc, n + 1, Head(s)[1], Head(s)[2])
           /\ AllCame(came, enc, n + 1, Tail(s))
<1>1. /\ Len(s) \in Nat \ {0} /\ Len(Tail(s)) = Len(s) - 1 /\ Head(s) = s[1]
      /\ \A k \in 1 .. Len(s) - 1 : Tail(s)[k] = s[k + 1]
  BY AfterTail
<1>2. Came(came, enc, n + 1, Head(s)[1], Head(s)[2])
  BY <1>1 DEF AllCame
<1>3. ASSUME NEW k \in 1 .. Len(s) - 1
      PROVE  Came(came, enc, (n + 1) + k, Tail(s)[k][1], Tail(s)[k][2])
  <2>1. k + 1 \in 1 .. Len(s) /\ n + (k + 1) = (n + 1) + k
    BY <1>1
  <2>2. Came(came, enc, n + (k + 1), s[k + 1][1], s[k + 1][2])
    BY <2>1 DEF AllCame
  <2> QED  BY <1>1, <2>1, <2>2
<1> QED  BY <1>1, <1>2, <1>3 DEF AllCame

(* One more datagram comes. *)
LEMMA CameAppend ==
    ASSUME NEW came, NEW enc, NEW n \in Nat, NEW s,
           IsSeq(s), IsSeq(came), AllCame(came, enc, n, s), Len(came) = n + Len(s),
           NEW from \in Addresses, NEW meaning, NEW wire, Stands(enc, meaning, wire, "wire")
    PROVE  AllCame(Append(came, <<from, meaning>>), enc, n, Append(s, <<from, wire>>))
<1> DEFINE e == <<from, wire>>
           a == <<from, meaning>>
<1>1. /\ Len(s) \in Nat /\ Len(Append(s, e)) = Len(s) + 1
      /\ Append(s, e)[Len(s) + 1] = e
      /\ \A k \in 1 .. Len(s) : Append(s, e)[k] = s[k]
  BY AfterAppend
<1>2. /\ Len(came) \in Nat /\ Len(Append(came, a)) = Len(came) + 1
      /\ Append(came, a)[Len(came) + 1] = a
      /\ \A k \in 1 .. Len(came) : Append(came, a)[k] = came[k]
  BY AfterAppend
<1>3. e[1] = from /\ e[2] = wire /\ a[1] = from /\ a[2] = meaning
  OBVIOUS
<1> HIDE DEF e, a
<1>4. ASSUME NEW k \in 1 .. Len(s) + 1
      PROVE  Came(Append(came, a), enc, n + k, Append(s, e)[k][1], Append(s, e)[k][2])
  <2>1. CASE k \in 1 .. Len(s)
    <3>1. Came(came, enc, n + k, s[k][1], s[k][2])
      BY <2>1 DEF AllCame
    <3> QED  BY <1>1, <1>2, <2>1, <3>1 DEF Came
  <2>2. CASE k = Len(s) + 1
    <3>1. n + k = Len(came) + 1 /\ n + k \in 1 .. Len(Append(came, a))
      BY <1>1, <1>2, <2>2
    <3> QED  BY <1>1, <1>2, <1>3, <2>2, <3>1 DEF Came
  <2> QED  BY <1>1, <2>1, <2>2
<1> QED  BY <1>1, <1>4 DEF AllCame, e, a

Handling(c) == IF pc[c] = "idle" THEN 0 ELSE 1

(* u[i] is how many have come past the queue up to layer i.                *)
UpOrder(c, u) ==
    /\ u \in [1 .. Height -> Nat] /\ u[1] = Len(handed)
    /\ \A i \in Links : u[i + 1] = u[i] + Len(queues[Up(i)])
    /\ Len(arrived) = u[Height] + Handling(c) + Len(from_bus[Node])

UpRight(c, u) ==
    /\ AllFit(arrived, given, encoder, 0, handed, "packet")
    /\ \A i \in Links : AllFit(arrived, given, encoder, u[i], queues[Up(i)], Form(i))
    /\ pc[c] # "idle" => Came(arrived, encoder, u[Height] + 1, addr[c], packet)
    /\ AllCame(arrived, encoder, u[Height] + Handling(c), from_bus[Node])

(* The interfaces, and the datagrams the peers have posted for the node. *)
OnBus ==
    /\ DOMAIN to_bus = Interfaces /\ DOMAIN from_bus = Interfaces
    /\ IsSeq(arrived) /\ IsSeq(handed) /\ IsSeq(wanted)
    /\ \A a \in Interfaces : IsSeq(to_bus[a]) /\ IsSeq(from_bus[a])
    /\ \A a \in Addresses : \A k \in 1 .. Len(to_bus[a]) :
          to_bus[a][k][1] = Node => Stands(encoder, to_bus[a][k][3], to_bus[a][k][2], "wire")
    /\ \A k \in 1 .. Len(to_bus[Node]) : to_bus[Node][k][1] \in Addresses

(* Before the start the node does nothing. *)
Quiet(c) ==
    ~started => /\ pc[c] = "idle" /\ handed = << >> /\ wanted = << >>
                /\ Len(arrived) = Len(from_bus[Node]) /\ to_bus[Node] = << >>

WayUp(c) == \E u : UpOrder(c, u) /\ UpRight(c, u)

-----------------------------------------------------------------------------
(* Counts of what has come past each queue.  An item that is handled at    *)
(* layer j goes from the queue on one side of j to that on the other side. *)
Moving(h, j, n, m) ==
    /\ n \in [1 .. h - 1 -> Nat] /\ m \in [1 .. h - 1 -> Nat]
    /\ \A i \in 1 .. h - 1 :
          /\ i # j /\ i + 1 # j => m[i] = n[i]
          /\ i = j => m[i] = n[i] - 1
          /\ i + 1 = j => m[i] = n[i] + 1

CountsUp(h, u, n) ==
    u \in [1 .. h -> Nat] /\ \A i \in 1 .. h - 1 : u[i + 1] = u[i] + n[i]

CountsDown(h, d, n) ==
    d \in [1 .. h -> Nat] /\ \A i \in 1 .. h - 1 : d[i] = d[i + 1] + n[i]

LEMMA ShiftUp ==
    ASSUME NEW h \in Nat, NEW j \in 1 .. h, NEW u, NEW n, NEW m,
           CountsUp(h, u, n), Moving(h, j, n, m)
    PROVE  CountsUp(h, [u EXCEPT ![j] = @ + 1], m)
<1> DEFINE v == [u EXCEPT ![j] = @ + 1]
<1>1. u \in [1 .. h -> Nat] /\ \A i \in 1 .. h - 1 : u[i + 1] = u[i] + n[i]
  BY DEF CountsUp
<1>2. u[j] + 1 \in Nat
  BY <1>1
<1>3. v \in [1 .. h -> Nat] /\ v[j] = u[j] + 1 /\ \A i \in 1 .. h : i # j => v[i] = u[i]
  BY <1>1, <1>2
<1> HIDE DEF v
<1>4. ASSUME NEW i \in 1 .. h - 1 PROVE v[i + 1] = v[i] + m[i]
  <2>1. /\ i \in 1 .. h /\ i + 1 \in 1 .. h /\ i # i + 1
        /\ n[i] \in Nat /\ u[i] \in Nat /\ u[i + 1] \in Nat /\ u[i + 1] = u[i] + n[i]
    BY <1>1 DEF Moving
  <2>2. CASE i = j
    <3>1. m[i] = n[i] - 1 /\ v[i] = u[i] + 1 /\ v[i + 1] = u[i + 1]
      BY <1>3, <2>1, <2>2 DEF Moving
    <3> QED  BY <2>1, <3>1
  <2>3. CASE i + 1 = j
    <3>1. m[i] = n[i] + 1 /\ v[i] = u[i] /\ v[i + 1] = u[i + 1] + 1
      BY <1>3, <2>1, <2>3 DEF Moving
    <3> QED  BY <2>1, <3>1
  <2>4. CASE i # j /\ i + 1 # j
    BY <1>3, <2>1, <2>4 DEF Moving
  <2> QED  BY <2>2, <2>3, <2>4
<1> QED  BY <1>3, <1>4 DEF CountsUp, v

LEMMA ShiftDown ==
    ASSUME NEW h \in Nat, NEW j \in 1 .. h, NEW d, NEW n, NEW m,
           CountsDown(h, d, n), Moving(h, j, m, n)
    PROVE  CountsDown(h, [d EXCEPT ![j] = @ + 1], m)
<1> DEFINE v == [d EXCEPT ![j] = @ + 1]
<1>1. d \in [1 .. h -> Nat] /\ \A i \in 1 .. h - 1 : d[i] = d[i + 1] + n[i]
  BY DEF CountsDown
<1>2. d[j] + 1 \in Nat
  BY <1>1
<1>3. v \in [1 .. h -> Nat] /\ v[j] = d[j] + 1 /\ \A i \in 1 .. h : i # j => v[i] = d[i]
  BY <1>1, <1>2
<1> HIDE DEF v
<1>4. ASSUME NEW i \in 1 .. h - 1 PROVE v[i] = v[i + 1] + m[i]
  <2>1. /\ i \in 1 .. h /\ i + 1 \in 1 .. h /\ i # i + 1 /\ m[i] \in Nat
        /\ n[i] \in Nat /\ d[i] \in Nat /\ d[i + 1] \in Nat /\ d[i] = d[i + 1] + n[i]
    BY <1>1 DEF Moving
  <2>2. CASE i = j
    <3>1. n[i] = m[i] - 1 /\ v[i] = d[i] + 1 /\ v[i + 1] = d[i + 1]
      BY <1>3, <2>1, <2>2 DEF Moving
    <3> QED  BY <2>1, <3>1
  <2>3. CASE i + 1 = j
    <3>1. n[i] = m[i] + 1 /\ v[i] = d[i] /\ v[i + 1] = d[i + 1] + 1
      BY <1>3, <2>1, <2>3 DEF Moving
    <3> QED  BY <2>1, <3>1
  <2>4. CASE i # j /\ i + 1 # j
    BY <1>3, <2>1, <2>4 DEF Moving
  <2> QED  BY <2>2, <2>3, <2>4
<1> QED  BY <1>3, <1>4 DEF CountsDown, v

(* The queues of the way up and of the way down are sequences. *)
LEMMA UpQueues ==
    ASSUME Connected
    PROVE  \A i \in Links : IsSeq(queues[Up(i)]) /\ Len(queues[Up(i)]) \in Nat
<1>1. IsSeq(queues) /\ Len(queues) \in Nat
  BY SeqDomain DEF Connected, Used
<1>2. \A i \in Links : IsSeq(queues[Up(i)])
  BY <1>1 DEF Connected, Linked, Used
<1> QED  BY <1>2, SeqDomain

LEMMA DownQueues ==
    ASSUME Connected
    PROVE  \A i \in Links : IsSeq(queues[Down(i)]) /\ Len(queues[Down(i)]) \in Nat
<1>1. IsSeq(queues) /\ Len(queues) \in Nat
  BY SeqDomain DEF Connected, Used
<1>2. \A i \in Links : IsSeq(queues[Down(i)])
  BY <1>1 DEF Connected, Linked, Used
<1> QED  BY <1>2, SeqDomain

-----------------------------------------------------------------------------
(* The steps of the way up *)

(* A step elsewhere. *)
LEMMA UpStays ==
    ASSUME NEW c, NEW u, Connected, OnBus, UpOrder(c, u), UpRight(c, u),
           UNCHANGED <<layers, ports, encoder, handed, arrived>>,
           from_bus'[Node] = from_bus[Node], given \subseteq given',
           \A i \in Links : queues'[Up(i)] = queues[Up(i)],
           pc[c] = "idle" <=> pc'[c] = "idle",
           pc[c] # "idle" => addr'[c] = addr[c] /\ packet' = packet
    PROVE  UpOrder(c, u)' /\ UpRight(c, u)'
<1>1. Height' = Height /\ Links' = Links /\ \A i : Up(i)' = Up(i) /\ Form(i)' = Form(i)
  BY DEF Height, Links, Up, Form
<1>2. Handling(c)' = Handling(c)
  BY DEF Handling
<1>3. UpOrder(c, u)'
  BY <1>1, <1>2 DEF UpOrder
<1>4. Len(arrived) \in Nat
  BY SeqDomain DEF OnBus
<1>5. AllFit(arrived, given', encoder, 0, handed, "packet")
  BY <1>4, FitStays DEF UpRight
<1>6. \A i \in Links : AllFit(arrived, given', encoder, u[i], queues[Up(i)], Form(i))
  BY <1>4, FitStays DEF UpRight
<1>7. UpRight(c, u)'
  BY <1>1, <1>2, <1>5, <1>6 DEF UpRight
<1> QED  BY <1>3, <1>7

(* The bus carries a datagram of a peer to the node. *)
LEMMA UpArrives ==
    ASSUME NEW c, NEW u, Connected, OnBus, UpOrder(c, u), UpRight(c, u),
           UNCHANGED <<layers, ports, queues, encoder, handed, given, pc, addr, packet>>,
           NEW a \in Addresses, NEW meaning, NEW wire, Stands(encoder, meaning, wire, "wire"),
           from_bus'[Node] = Append(from_bus[Node], <<a, wire>>),
           arrived' = Append(arrived, <<a, meaning>>)
    PROVE  UpOrder(c, u)' /\ UpRight(c, u)'
<1>1. Height' = Height /\ Links' = Links /\ \A i : Up(i)' = Up(i) /\ Form(i)' = Form(i)
  BY DEF Height, Links, Up, Form
<1>2. Handling(c)' = Handling(c) /\ Handling(c) \in Nat
  BY DEF Handling
<1>3. IsSeq(from_bus[Node]) /\ IsSeq(arrived)
  BY DEF OnBus, Interfaces
<1>4. /\ Len(arrived) \in Nat /\ Len(arrived') = Len(arrived) + 1
      /\ \A k \in 1 .. Len(arrived) : arrived'[k] = arrived[k]
      /\ arrived'[Len(arrived) + 1] = <<a, meaning>>
      /\ Len(arrived') \in Nat /\ Len(arrived) <= Len(arrived') /\ given \subseteq given
  BY <1>3, AfterAppend
<1>5. Len(from_bus[Node]) \in Nat /\ Len(from_bus'[Node]) = Len(from_bus[Node]) + 1
  BY <1>3, AfterAppend
<1>6. Height \in Nat /\ Height >= 3
  BY SeqDomain DEF Connected, Ordered, Height
<1>7. u[Height] \in Nat
  BY <1>6 DEF UpOrder
<1>8. UpOrder(c, u)'
  <2>1. Len(arrived') = u[Height] + Handling(c) + Len(from_bus'[Node])
    BY <1>2, <1>4, <1>5, <1>7 DEF UpOrder
  <2> QED  BY <1>1, <1>2, <2>1 DEF UpOrder
<1>9. AllFit(arrived', given, encoder, 0, handed, "packet")
  BY <1>4, FitStays DEF UpRight
<1>10. \A i \in Links : AllFit(arrived', given, encoder, u[i], queues[Up(i)], Form(i))
  <2> SUFFICES ASSUME NEW i \in Links
               PROVE  AllFit(arrived', given, encoder, u[i], queues[Up(i)], Form(i))
    OBVIOUS
  <2>1. AllFit(arrived, given, encoder, u[i], queues[Up(i)], Form(i))
    BY DEF UpRight
  <2> QED  BY <1>4, <2>1, FitStays
<1>11. AllCame(arrived', encoder, u[Height] + Handling(c), from_bus'[Node])
  <2>1. u[Height] + Handling(c) \in Nat /\ Len(arrived) = (u[Height] + Handling(c)) + Len(from_bus[Node])
    BY <1>2, <1>5, <1>7 DEF UpOrder
  <2>2. AllCame(arrived, encoder, u[Height] + Handling(c), from_bus[Node])
    BY DEF UpRight
  <2> QED  BY <1>3, <2>1, <2>2, CameAppend
<1>12. pc[c] # "idle" => Came(arrived', encoder, u[Height] + 1, addr[c], packet)
  <2> SUFFICES ASSUME pc[c] # "idle"
               PROVE  Came(arrived', encoder, u[Height] + 1, addr[c], packet)
    OBVIOUS
  <2>1. Came(arrived, encoder, u[Height] + 1, addr[c], packet)
    BY DEF UpRight
  <2> QED  BY <1>4, <2>1 DEF Came
<1>13. UpRight(c, u)'
  BY <1>1, <1>2, <1>9, <1>10, <1>11, <1>12 DEF UpRight
<1> QED  BY <1>8, <1>13

(* The link layer takes a datagram and asks for the face of its sender. *)
LEMMA UpReceived ==
    ASSUME NEW c, NEW u, Connected, OnBus, UpOrder(c, u), UpRight(c, u),
           UNCHANGED <<layers, ports, queues, encoder, handed, given, arrived>>,
           from_bus[Node] # << >>, from_bus'[Node] = Tail(from_bus[Node]),
           pc[c] = "idle", pc'[c] # "idle",
           addr'[c] = Head(from_bus[Node])[1], packet' = Head(from_bus[Node])[2]
    PROVE  UpOrder(c, u)' /\ UpRight(c, u)'
<1>1. Height' = Height /\ Links' = Links /\ \A i : Up(i)' = Up(i) /\ Form(i)' = Form(i)
  BY DEF Height, Links, Up, Form
<1>2. Handling(c) = 0 /\ Handling(c)' = 1
  BY DEF Handling
<1>3. IsSeq(from_bus[Node])
  BY DEF OnBus, Interfaces
<1>4. Len(from_bus[Node]) \in Nat /\ Len(from_bus'[Node]) = Len(from_bus[Node]) - 1
  BY <1>3, AfterTail
<1>5. Height \in Nat /\ Height >= 3
  BY SeqDomain DEF Connected, Ordered, Height
<1>6. u[Height] \in Nat
  BY <1>5 DEF UpOrder
<1>7. UpOrder(c, u)'
  <2>1. /\ u \in [1 .. Height -> Nat] /\ u[1] = Len(handed)
        /\ \A i \in Links : u[i + 1] = u[i] + Len(queues[Up(i)])
        /\ Len(arrived) = u[Height] + 0 + Len(from_bus[Node])
    BY <1>2 DEF UpOrder
  <2>2. Len(arrived') = u[Height'] + 1 + Len(from_bus'[Node])
    <3>1. PICK k : k = u[Height]
      OBVIOUS
    <3>2. PICK n, m : n = Len(from_bus[Node]) /\ m = Len(from_bus'[Node])
      OBVIOUS
    <3>3. k \in Nat /\ n \in Nat /\ m = n - 1
      BY <1>4, <1>6, <3>1, <3>2
    <3>4. Len(arrived) = k + 0 + n
      BY <2>1, <3>1, <3>2
    <3>5. k + 0 + n = k + 1 + m
      BY <3>3
    <3>6. arrived' = arrived /\ u[Height'] = k
      BY <1>1, <3>1
    <3> QED  BY <3>2, <3>4, <3>5, <3>6
  <2>3. \A i \in Links' : u[i + 1] = u[i] + Len(queues'[Up(i)'])
    BY <1>1, <2>1
  <2> QED  BY <1>1, <1>2, <2>1, <2>2, <2>3 DEF UpOrder
<1>8. AllCame(arrived, encoder, u[Height], from_bus[Node])
  BY <1>2, <1>6 DEF UpRight
<1>9. /\ Came(arrived, encoder, u[Height] + 1, Head(from_bus[Node])[1], Head(from_bus[Node])[2])
      /\ AllCame(arrived, encoder, u[Height] + 1, Tail(from_bus[Node]))
  BY <1>3, <1>6, <1>8, CameTail
<1>10. UpRight(c, u)'
  BY <1>1, <1>2, <1>9 DEF UpRight
<1> QED  BY <1>7, <1>10

(* The link layer hands the datagram up with the face. *)
LEMMA UpHanded ==
    ASSUME NEW c, NEW u, Connected, OnBus, UpOrder(c, u), UpRight(c, u),
           UNCHANGED <<layers, ports, encoder, handed, arrived>>,
           from_bus'[Node] = from_bus[Node], given \subseteq given',
           pc[c] # "idle", pc'[c] = "idle",
           NEW face, <<addr[c], face>> \in given',
           queues'[Up(Height - 1)] = Append(queues[Up(Height - 1)], <<face, packet>>),
           \A i \in Links : i # Height - 1 => queues'[Up(i)] = queues[Up(i)]
    PROVE  \E v : UpOrder(c, v)' /\ UpRight(c, v)'
<1>1. Height' = Height /\ Links' = Links /\ \A i : Up(i)' = Up(i) /\ Form(i)' = Form(i)
  BY DEF Height, Links, Up, Form
<1>2. Handling(c) = 1 /\ Handling(c)' = 0
  BY DEF Handling
<1>3. Height \in Nat /\ Height >= 3 /\ Height - 1 \in Links /\ Links = 1 .. Height - 1
  BY SeqDomain DEF Connected, Ordered, Height, Links
<1>0. Len(from_bus[Node]) \in Nat /\ Len(arrived) \in Nat
  BY SeqDomain DEF OnBus, Interfaces
<1>4. \A i \in Links : IsSeq(queues[Up(i)]) /\ Len(queues[Up(i)]) \in Nat
  BY UpQueues
<1>5. /\ Len(queues'[Up(Height - 1)]) = Len(queues[Up(Height - 1)]) + 1
      /\ \A i \in Links : Len(queues'[Up(i)]) \in Nat
  <2>1. Len(queues'[Up(Height - 1)]) = Len(queues[Up(Height - 1)]) + 1
    BY <1>3, <1>4, AfterAppend
  <2> QED  BY <1>3, <1>4, <2>1
<1>6. PICK v : v = [u EXCEPT ![Height] = @ + 1]
  OBVIOUS
<1>7. /\ v \in [1 .. Height -> Nat] /\ v[Height] = u[Height] + 1 /\ u[Height] \in Nat
      /\ \A i \in 1 .. Height : i # Height => v[i] = u[i] /\ u[i] \in Nat
      /\ \A i \in Links : v[i + 1] = v[i] + Len(queues'[Up(i)])
  <2> DEFINE n == [i \in 1 .. Height - 1 |-> Len(queues[Up(i)])]
             m == [i \in 1 .. Height - 1 |-> Len(queues'[Up(i)])]
  <2>1. u \in [1 .. Height -> Nat] /\ Height \in 1 .. Height /\ u[Height] \in Nat
    BY <1>3 DEF UpOrder
  <2>2. CountsUp(Height, u, n)
    BY <1>3, <2>1 DEF CountsUp, UpOrder
  <2>3. n \in [1 .. Height - 1 -> Nat] /\ m \in [1 .. Height - 1 -> Nat]
    BY <1>3, <1>4, <1>5
  <2>4. ASSUME NEW i \in 1 .. Height - 1
        PROVE  /\ i # Height /\ i + 1 # Height => m[i] = n[i]
               /\ i = Height => m[i] = n[i] - 1
               /\ i + 1 = Height => m[i] = n[i] + 1
    <3>1. i # Height /\ i \in Links
      BY <1>3
    <3>0. m[i] = Len(queues'[Up(i)]) /\ n[i] = Len(queues[Up(i)])
      OBVIOUS
    <3> HIDE DEF n, m
    <3>2. CASE i = Height - 1
      <4>1. i + 1 = Height
        BY <1>3, <3>2
      <4> QED  BY <1>5, <3>0, <3>1, <3>2, <4>1
    <3>3. CASE i # Height - 1
      <4>1. i + 1 # Height
        BY <1>3, <3>3
      <4>2. queues'[Up(i)] = queues[Up(i)]
        BY <3>1, <3>3
      <4> QED  BY <3>0, <3>1, <4>1, <4>2
    <3> QED  BY <3>2, <3>3
  <2>5. Moving(Height, Height, n, m)
    BY <2>3, <2>4 DEF Moving
  <2> HIDE DEF n, m
  <2>6. CountsUp(Height, [u EXCEPT ![Height] = @ + 1], m)
    BY <1>3, <2>1, <2>2, <2>5, ShiftUp
  <2>7. /\ v \in [1 .. Height -> Nat]
        /\ \A i \in 1 .. Height - 1 : v[i + 1] = v[i] + m[i]
    BY <1>6, <2>6 DEF CountsUp
  <2>8. v[Height] = u[Height] + 1 /\ \A i \in 1 .. Height : i # Height => v[i] = u[i] /\ u[i] \in Nat
    <3>1. PICK h : h = Height
      OBVIOUS
    <3>2. v = [u EXCEPT ![h] = u[h] + 1] /\ u \in [1 .. h -> Nat] /\ h \in 1 .. h
      BY <1>6, <2>1, <3>1
    <3>3. v[h] = u[h] + 1 /\ \A i \in 1 .. h : i # h => v[i] = u[i] /\ u[i] \in Nat
      BY <3>2
    <3> QED  BY <3>1, <3>3
  <2> QED  BY <1>3, <2>1, <2>7, <2>8 DEF m
<1>8. UpOrder(c, v)'
  <2>1. v[1] = Len(handed)
    <3>1. 1 \in 1 .. Height /\ 1 # Height
      BY <1>3
    <3>2. v[1] = u[1]
      BY <1>7, <3>1
    <3>3. u[1] = Len(handed)
      BY DEF UpOrder
    <3> QED  BY <3>2, <3>3
  <2>2. Len(arrived) = v[Height] + 0 + Len(from_bus[Node])
    BY <1>2, <1>0, <1>7 DEF UpOrder
  <2> QED  BY <1>1, <1>2, <1>7, <2>1, <2>2 DEF UpOrder
<1>9. AllFit(arrived, given', encoder, 0, handed, "packet")
  BY <1>0, FitStays DEF UpRight
<1>10. ASSUME NEW i \in Links
       PROVE  AllFit(arrived, given', encoder, v[i], queues'[Up(i)], Form(i))
  <2>1. AllFit(arrived, given, encoder, u[i], queues[Up(i)], Form(i))
    BY DEF UpRight
  <2>2. AllFit(arrived, given', encoder, u[i], queues[Up(i)], Form(i))
    BY <1>0, <2>1, FitStays
  <2>0. i \in 1 .. Height /\ i # Height /\ v[i] = u[i] /\ u[i] \in Nat
    BY <1>3, <1>7
  <2>3. CASE i # Height - 1
    BY <2>0, <2>2, <2>3
  <2>4. CASE i = Height - 1
    <3> DEFINE e == <<face, packet>>
    <3>1. Came(arrived, encoder, u[Height] + 1, addr[c], packet)
      BY DEF UpRight
    <3>2. u[Height] + 1 = u[i] + Len(queues[Up(i)]) + 1
      BY <1>3, <2>4 DEF UpOrder
    <3>3. e[1] = face /\ e[2] = packet
      OBVIOUS
    <3> HIDE DEF e
    <3>4. Form(i) = "wire"
      BY <2>4 DEF Form
    <3>5. Fits(arrived, given', encoder, u[i] + Len(queues[Up(i)]) + 1, e, Form(i))
      BY <3>1, <3>2, <3>3, <3>4 DEF Came, Fits
    <3>6. AllFit(arrived, given', encoder, u[i], Append(queues[Up(i)], e), Form(i))
      BY <1>4, <2>0, <2>2, <3>5, FitAppend
    <3> QED  BY <2>0, <2>4, <3>6 DEF e
  <2> QED  BY <2>3, <2>4
<1>11. AllCame(arrived, encoder, v[Height] + 0, from_bus[Node])
  <2>1. u[Height] + 1 = v[Height] + 0
    BY <1>7
  <2> QED  BY <1>2, <2>1 DEF UpRight
<1>12. UpRight(c, v)'
  BY <1>1, <1>2, <1>9, <1>10, <1>11 DEF UpRight
<1> QED  BY <1>8, <1>12

(* A layer between two others takes an item from below and hands it up. *)
LEMMA UpPassed ==
    ASSUME NEW c, NEW u, Connected, OnBus, UpOrder(c, u), UpRight(c, u),
           UNCHANGED <<layers, ports, encoder, handed, given, arrived, pc, addr, packet>>,
           from_bus'[Node] = from_bus[Node],
           NEW j \in 2 .. Height - 1, queues[Up(j)] # << >>, NEW e,
           Fits(arrived, given, encoder, u[j] + 1, Head(queues[Up(j)]), Form(j))
              => Fits(arrived, given, encoder, u[j] + 1, e, Form(j - 1)),
           queues'[Up(j)] = Tail(queues[Up(j)]),
           queues'[Up(j - 1)] = Append(queues[Up(j - 1)], e),
           \A i \in Links : i \notin {j, j - 1} => queues'[Up(i)] = queues[Up(i)]
    PROVE  \E v : UpOrder(c, v)' /\ UpRight(c, v)'
<1>1. Height' = Height /\ Links' = Links /\ \A i : Up(i)' = Up(i) /\ Form(i)' = Form(i)
  BY DEF Height, Links, Up, Form
<1>2. Handling(c)' = Handling(c)
  BY DEF Handling
<1>3. /\ Height \in Nat /\ Height >= 3 /\ Links = 1 .. Height - 1
      /\ j \in Links /\ j - 1 \in Links /\ j \in Nat /\ j # j - 1 /\ (j - 1) + 1 = j
  BY SeqDomain DEF Connected, Ordered, Height, Links
<1>0. 1 \in 1 .. Height /\ Height \in 1 .. Height /\ j # 1 /\ j # Height
  BY <1>3
<1>4. \A i \in Links : IsSeq(queues[Up(i)]) /\ Len(queues[Up(i)]) \in Nat
  BY UpQueues
<1>5. /\ Len(queues'[Up(j)]) = Len(queues[Up(j)]) - 1
      /\ Len(queues'[Up(j - 1)]) = Len(queues[Up(j - 1)]) + 1
      /\ \A i \in Links : Len(queues'[Up(i)]) \in Nat
  <2>1. Len(queues[Up(j)]) \in Nat \ {0} /\ Len(queues'[Up(j)]) = Len(queues[Up(j)]) - 1
    BY <1>3, <1>4, AfterTail
  <2>2. Len(queues'[Up(j - 1)]) = Len(queues[Up(j - 1)]) + 1
    BY <1>3, <1>4, AfterAppend
  <2> QED  BY <1>3, <1>4, <2>1, <2>2
<1>6. PICK v : v = [u EXCEPT ![j] = @ + 1]
  OBVIOUS
<1>7. /\ v \in [1 .. Height -> Nat] /\ v[j] = u[j] + 1 /\ u[j] \in Nat
      /\ \A i \in 1 .. Height : i # j => v[i] = u[i] /\ u[i] \in Nat
      /\ \A i \in Links : v[i + 1] = v[i] + Len(queues'[Up(i)])
  <2> DEFINE n == [i \in 1 .. Height - 1 |-> Len(queues[Up(i)])]
             m == [i \in 1 .. Height - 1 |-> Len(queues'[Up(i)])]
  <2>0. u \in [1 .. Height -> Nat]
    BY DEF UpOrder
  <2>1. u \in [1 .. Height -> Nat] /\ j \in 1 .. Height /\ u[j] \in Nat
    BY <1>3, <2>0
  <2>2. CountsUp(Height, u, n)
    BY <1>3, <2>1 DEF CountsUp, UpOrder
  <2>3. n \in [1 .. Height - 1 -> Nat] /\ m \in [1 .. Height - 1 -> Nat]
    BY <1>3, <1>4, <1>5
  <2>4. ASSUME NEW i \in 1 .. Height - 1
        PROVE  /\ i # j /\ i + 1 # j => m[i] = n[i]
               /\ i = j => m[i] = n[i] - 1
               /\ i + 1 = j => m[i] = n[i] + 1
    <3>1. i \in Links
      BY <1>3
    <3>0. m[i] = Len(queues'[Up(i)]) /\ n[i] = Len(queues[Up(i)])
      OBVIOUS
    <3> HIDE DEF n, m
    <3>2. CASE i = j
      <4>1. i + 1 # j
        BY <1>3, <3>2
      <4> QED  BY <1>5, <3>0, <3>2, <4>1
    <3>3. CASE i + 1 = j
      <4>1. i = j - 1 /\ i # j
        BY <1>3, <3>3
      <4> QED  BY <1>5, <3>0, <3>3, <4>1
    <3>4. CASE i # j /\ i + 1 # j
      <4>1. i # j - 1
        BY <1>3, <3>4
      <4>2. queues'[Up(i)] = queues[Up(i)]
        BY <3>1, <3>4, <4>1
      <4> QED  BY <3>0, <3>4, <4>2
    <3> QED  BY <3>2, <3>3, <3>4
  <2>5. Moving(Height, j, n, m)
    BY <2>3, <2>4 DEF Moving
  <2> HIDE DEF n, m
  <2>6. CountsUp(Height, [u EXCEPT ![j] = @ + 1], m)
    BY <1>3, <2>1, <2>2, <2>5, ShiftUp
  <2>7. /\ v \in [1 .. Height -> Nat]
        /\ \A i \in 1 .. Height - 1 : v[i + 1] = v[i] + m[i]
    BY <1>6, <2>6 DEF CountsUp
  <2>8. v[j] = u[j] + 1 /\ \A i \in 1 .. Height : i # j => v[i] = u[i] /\ u[i] \in Nat
    BY <1>6, <2>1
  <2> QED  BY <1>3, <2>1, <2>7, <2>8 DEF m
<1>8. UpOrder(c, v)'
  <2>1. v[1] = Len(handed) /\ v[Height] = u[Height]
    BY <1>0, <1>7 DEF UpOrder
  <2> QED  BY <1>1, <1>2, <1>7, <2>1 DEF UpOrder
<1>9. ASSUME NEW i \in Links
      PROVE  AllFit(arrived, given, encoder, v[i], queues'[Up(i)], Form(i))
  <2>1. \A k \in Links : AllFit(arrived, given, encoder, u[k], queues[Up(k)], Form(k))
    BY DEF UpRight
  <2>2. /\ Fits(arrived, given, encoder, u[j] + 1, Head(queues[Up(j)]), Form(j))
        /\ AllFit(arrived, given, encoder, u[j] + 1, Tail(queues[Up(j)]), Form(j))
    BY <1>3, <1>4, <1>7, <2>1, FitTail
  <2>3. CASE i = j
    BY <1>7, <2>2, <2>3
  <2>4. CASE i = j - 1
    <3>1. /\ v[i] = u[i] /\ u[i] \in Nat /\ u[j] = u[i] + Len(queues[Up(i)])
          /\ AllFit(arrived, given, encoder, u[i], queues[Up(i)], Form(i))
          /\ IsSeq(queues[Up(i)])
      BY <1>3, <1>4, <1>7, <2>1, <2>4 DEF UpOrder
    <3>2. Fits(arrived, given, encoder, u[i] + Len(queues[Up(i)]) + 1, e, Form(i))
      BY <2>2, <2>4, <3>1
    <3>3. AllFit(arrived, given, encoder, u[i], Append(queues[Up(i)], e), Form(i))
      BY <3>1, <3>2, FitAppend
    <3> QED  BY <2>4, <3>1, <3>3
  <2>5. CASE i \notin {j, j - 1}
    <3>1. i \in 1 .. Height /\ i # j
      BY <1>3, <2>5
    <3>2. v[i] = u[i] /\ queues'[Up(i)] = queues[Up(i)]
      BY <1>7, <2>5, <3>1
    <3> QED  BY <2>1, <3>2
  <2> QED  BY <2>3, <2>4, <2>5
<1>10. v[Height] = u[Height]
  BY <1>0, <1>7
<1>11. UpRight(c, v)'
  BY <1>1, <1>2, <1>9, <1>10 DEF UpRight
<1> QED  BY <1>8, <1>11

(* The ICN layer takes an item. *)
LEMMA UpTop ==
    ASSUME NEW c, NEW u, Connected, OnBus, UpOrder(c, u), UpRight(c, u),
           UNCHANGED <<layers, ports, encoder, given, arrived, pc, addr, packet>>,
           from_bus'[Node] = from_bus[Node],
           queues[Up(1)] # << >>, handed' = Append(handed, Head(queues[Up(1)])),
           queues'[Up(1)] = Tail(queues[Up(1)]),
           \A i \in Links : i # 1 => queues'[Up(i)] = queues[Up(i)]
    PROVE  /\ \E v : UpOrder(c, v)' /\ UpRight(c, v)'
           /\ Fits(arrived, given, encoder, u[1] + 1, Head(queues[Up(1)]), "packet")
<1>1. Height' = Height /\ Links' = Links /\ \A i : Up(i)' = Up(i) /\ Form(i)' = Form(i)
  BY DEF Height, Links, Up, Form
<1>2. Handling(c)' = Handling(c)
  BY DEF Handling
<1>3. Height \in Nat /\ Height >= 3 /\ Links = 1 .. Height - 1 /\ 1 \in Links
  BY SeqDomain DEF Connected, Ordered, Height, Links
<1>4. IsSeq(queues[Up(1)]) /\ IsSeq(handed)
  BY <1>3 DEF Connected, Linked, Used, OnBus
<1>5. /\ Len(queues[Up(1)]) \in Nat /\ Len(queues'[Up(1)]) = Len(queues[Up(1)]) - 1
      /\ Len(handed) \in Nat /\ Len(handed') = Len(handed) + 1
      /\ \A i \in Links : Len(queues[Up(i)]) \in Nat /\ Len(queues'[Up(i)]) \in Nat
  <2>1. Len(queues[Up(1)]) \in Nat \ {0} /\ Len(queues'[Up(1)]) = Len(queues[Up(1)]) - 1
    BY <1>4, AfterTail
  <2>2. Len(handed) \in Nat /\ Len(handed') = Len(handed) + 1
    BY <1>4, AfterAppend
  <2> QED  BY <1>3, <2>1, <2>2, UpQueues
<1>6. PICK v : v = [u EXCEPT ![1] = @ + 1]
  OBVIOUS
<1>7. /\ v \in [1 .. Height -> Nat] /\ v[1] = u[1] + 1 /\ u[1] \in Nat
      /\ \A i \in 1 .. Height : i # 1 => v[i] = u[i] /\ u[i] \in Nat
      /\ \A i \in Links : v[i + 1] = v[i] + Len(queues'[Up(i)])
  <2> DEFINE n == [i \in 1 .. Height - 1 |-> Len(queues[Up(i)])]
             m == [i \in 1 .. Height - 1 |-> Len(queues'[Up(i)])]
  <2>1. u \in [1 .. Height -> Nat] /\ 1 \in 1 .. Height /\ u[1] \in Nat
    BY <1>3 DEF UpOrder
  <2>2. CountsUp(Height, u, n)
    BY <1>3, <2>1 DEF CountsUp, UpOrder
  <2>3. n \in [1 .. Height - 1 -> Nat] /\ m \in [1 .. Height - 1 -> Nat]
    BY <1>3, <1>4, <1>5
  <2>4. ASSUME NEW i \in 1 .. Height - 1
        PROVE  /\ i # 1 /\ i + 1 # 1 => m[i] = n[i]
               /\ i = 1 => m[i] = n[i] - 1
               /\ i + 1 = 1 => m[i] = n[i] + 1
    <3>1. i \in Links /\ i + 1 # 1
      BY <1>3
    <3>0. m[i] = Len(queues'[Up(i)]) /\ n[i] = Len(queues[Up(i)])
      OBVIOUS
    <3> HIDE DEF n, m
    <3>2. CASE i = 1
      BY <1>5, <3>0, <3>1, <3>2
    <3>3. CASE i # 1
      <4>1. queues'[Up(i)] = queues[Up(i)]
        BY <3>1, <3>3
      <4> QED  BY <3>0, <3>1, <3>3, <4>1
    <3> QED  BY <3>1, <3>2, <3>3
  <2>5. Moving(Height, 1, n, m)
    BY <2>3, <2>4 DEF Moving
  <2> HIDE DEF n, m
  <2>6. CountsUp(Height, [u EXCEPT ![1] = @ + 1], m)
    BY <1>3, <2>1, <2>2, <2>5, ShiftUp
  <2>7. /\ v \in [1 .. Height -> Nat]
        /\ \A i \in 1 .. Height - 1 : v[i + 1] = v[i] + m[i]
    BY <1>6, <2>6 DEF CountsUp
  <2>8. v[1] = u[1] + 1 /\ \A i \in 1 .. Height : i # 1 => v[i] = u[i] /\ u[i] \in Nat
    BY <1>6, <2>1
  <2> QED  BY <1>3, <2>1, <2>7, <2>8 DEF m
<1>8. UpOrder(c, v)'
  <2>1. v[1] = Len(handed') /\ v[Height] = u[Height]
    BY <1>3, <1>5, <1>7 DEF UpOrder
  <2> QED  BY <1>1, <1>2, <1>7, <2>1 DEF UpOrder
<1>9. /\ Fits(arrived, given, encoder, u[1] + 1, Head(queues[Up(1)]), Form(1))
      /\ AllFit(arrived, given, encoder, u[1] + 1, Tail(queues[Up(1)]), Form(1))
  BY <1>3, <1>4, <1>7, FitTail DEF UpRight
<1>10. Form(1) = "packet"
  BY <1>3 DEF Form
<1>11. AllFit(arrived, given, encoder, 0, handed', "packet")
  <2>1. 0 + Len(handed) + 1 = u[1] + 1
    BY <1>5 DEF UpOrder
  <2>2. AllFit(arrived, given, encoder, 0, handed, "packet")
    BY DEF UpRight
  <2> QED  BY <1>4, <1>9, <1>10, <2>1, <2>2, FitAppend
<1>12. ASSUME NEW i \in Links
       PROVE  AllFit(arrived, given, encoder, v[i], queues'[Up(i)], Form(i))
  <2>1. CASE i = 1
    BY <1>7, <1>9, <2>1
  <2>2. CASE i # 1
    <3>1. i \in 1 .. Height /\ i # 1
      BY <1>3, <2>2
    <3>2. v[i] = u[i] /\ queues'[Up(i)] = queues[Up(i)]
      BY <1>7, <3>1
    <3> QED  BY <3>2 DEF UpRight
  <2> QED  BY <2>1, <2>2
<1>13. v[Height] = u[Height]
  BY <1>3, <1>7
<1>14. UpRight(c, v)'
  BY <1>1, <1>2, <1>11, <1>12, <1>13 DEF UpRight
<1> QED  BY <1>8, <1>9, <1>10, <1>14

-----------------------------------------------------------------------------
(* The way down.  Whatever the ICN layer has sent has a place in the order *)
(* in which it was sent: what has come to the bus or led nowhere, then     *)
(* what waits on the interface of the node, then the queues from the link  *)
(* layer to the top.                                                       *)

(* The item is what the ICN layer has sent as its k-th, and it is decoded  *)
(* to what was meant.                                                      *)
Sent(want, enc, k, item, form) ==
    /\ k \in 1 .. Len(want) /\ want[k][1] = item[1]
    /\ want[k][2] = Meaning(Decoded(enc, IF form = "wire" THEN item[2] ELSE Encoded(enc, item[2])))

AllSent(want, enc, n, s, form) ==
    \A k \in 1 .. Len(s) : Sent(want, enc, n + k, s[k], form)

(* The datagram for a carries what was sent as the k-th to a face of a.    *)
Serves(want, faces, enc, k, a, wire) ==
    /\ k \in 1 .. Len(want) /\ <<a, want[k][1]>> \in faces
    /\ want[k][2] = Meaning(Decoded(enc, wire))

LEMMA SentAppend ==
    ASSUME NEW want, NEW enc, NEW n \in Nat, NEW s, NEW form, NEW e,
           IsSeq(s), AllSent(want, enc, n, s, form),
           Sent(want, enc, n + Len(s) + 1, e, form)
    PROVE  AllSent(want, enc, n, Append(s, e), form)
<1>1. /\ Len(s) \in Nat /\ Len(Append(s, e)) = Len(s) + 1
      /\ Append(s, e)[Len(s) + 1] = e
      /\ \A k \in 1 .. Len(s) : Append(s, e)[k] = s[k]
  BY AfterAppend
<1>2. ASSUME NEW k \in 1 .. Len(s) + 1
      PROVE  Sent(want, enc, n + k, Append(s, e)[k], form)
  <2>1. CASE k \in 1 .. Len(s)
    BY <1>1, <2>1 DEF AllSent
  <2>2. CASE k = Len(s) + 1
    <3>1. n + k = n + Len(s) + 1
      BY <1>1, <2>2
    <3> QED  BY <1>1, <2>2, <3>1
  <2> QED  BY <1>1, <2>1, <2>2
<1> QED  BY <1>1, <1>2 DEF AllSent

LEMMA SentTail ==
    ASSUME NEW want, NEW enc, NEW n \in Nat, NEW s, NEW form,
           IsSeq(s), s # << >>, AllSent(want, enc, n, s, form)
    PROVE  /\ Sent(want, enc, n + 1, Head(s), form)
           /\ AllSent(want, enc, n + 1, Tail(s), form)
<1>1. /\ Len(s) \in Nat \ {0} /\ Len(Tail(s)) = Len(s) - 1 /\ Head(s) = s[1]
      /\ \A k \in 1 .. Len(s) - 1 : Tail(s)[k] = s[k + 1]
  BY AfterTail
<1>2. Sent(want, enc, n + 1, Head(s), form)
  BY <1>1 DEF AllSent
<1>3. ASSUME NEW k \in 1 .. Len(s) - 1
      PROVE  Sent(want, enc, (n + 1) + k, Tail(s)[k], form)
  <2>1. k + 1 \in 1 .. Len(s) /\ n + (k + 1) = (n + 1) + k
    BY <1>1
  <2>2. Sent(want, enc, n + (k + 1), s[k + 1], form)
    BY <2>1 DEF AllSent
  <2> QED  BY <1>1, <2>1, <2>2
<1> QED  BY <1>1, <1>2, <1>3 DEF AllSent

(* What was sent stays what it is when more is sent and more faces are     *)
(* given.                                                                  *)
More(want, want2) ==
    /\ Len(want) \in Nat /\ Len(want2) \in Nat /\ Len(want) <= Len(want2)
    /\ \A k \in 1 .. Len(want) : want2[k] = want[k]

LEMMA SentStays ==
    ASSUME NEW want, NEW enc, NEW n, NEW s, NEW form,
           AllSent(want, enc, n, s, form), NEW want2, More(want, want2)
    PROVE  AllSent(want2, enc, n, s, form)
<1> SUFFICES ASSUME NEW k \in 1 .. Len(s)
             PROVE  Sent(want2, enc, n + k, s[k], form)
  BY DEF AllSent
<1>1. Sent(want, enc, n + k, s[k], form)
  BY DEF AllSent
<1> HIDE DEF AllSent
<1>2. n + k \in 1 .. Len(want2) /\ want2[n + k] = want[n + k]
  BY <1>1 DEF Sent, More
<1> QED  BY <1>1, <1>2 DEF Sent

LEMMA ServesStays ==
    ASSUME NEW want, NEW faces, NEW enc, NEW k, NEW a, NEW wire,
           Serves(want, faces, enc, k, a, wire),
           NEW want2, More(want, want2), NEW faces2, faces \subseteq faces2
    PROVE  Serves(want2, faces2, enc, k, a, wire)
<1>1. k \in 1 .. Len(want2) /\ want2[k] = want[k]
  BY DEF Serves, More
<1> QED  BY <1>1 DEF Serves

(* d[i] is how many have come past the queue down from layer i, or d[1] of *)
(* all that were sent.                                                     *)
DownOrder(d) ==
    /\ d \in [1 .. Height -> Nat] /\ d[1] = Len(wanted)
    /\ \A i \in Links : d[i] = d[i + 1] + Len(queues[Down(i)])

DownRight(d) ==
    \A i \in Links : AllSent(wanted, encoder, d[i + 1], queues[Down(i)], Form(i))

(* t says which of them are on the interface of the node; the first e have *)
(* come to the bus or led nowhere.                                         *)
OnInterface(h, e, t) ==
    /\ e \in Nat /\ e <= h /\ t \in [1 .. Len(to_bus[Node]) -> Nat]
    /\ \A k \in 1 .. Len(to_bus[Node]) :
          /\ e < t[k] /\ t[k] <= h
          /\ \A j \in 1 .. Len(to_bus[Node]) : j < k => t[j] < t[k]
          /\ Serves(wanted, given, encoder, t[k], to_bus[Node][k][1], to_bus[Node][k][2])

(* w says which of them a has got.                                         *)
Got(a, e, w) ==
    /\ w \in [FromNode(a) -> 1 .. e]
    /\ \A i, j \in FromNode(a) : w[i] = w[j] => i = j
    /\ \A i \in FromNode(a) : Serves(wanted, given, encoder, w[i], a, from_bus[a][i][2])

OnWire(h) ==
    \E e, t : OnInterface(h, e, t) /\ \A a \in Addresses : \E w : Got(a, e, w)

WayDown ==
    /\ \E d, h : DownOrder(d) /\ DownRight(d) /\ h = d[Height] /\ OnWire(h)
    /\ \A k \in 1 .. Len(wanted) : \E a \in Addresses : <<a, wanted[k][1]>> \in given

(* A step that does not go to the bus; what is read from it led nowhere.   *)
LEMMA WireStays ==
    ASSUME NEW h \in Nat, NEW h2 \in Nat, h <= h2, OnWire(h),
           encoder' = encoder, to_bus'[Node] = to_bus[Node],
           More(wanted, wanted'), given \subseteq given',
           \A a \in Addresses : /\ FromNode(a)' = FromNode(a)
                                /\ \A i \in FromNode(a) : from_bus'[a][i] = from_bus[a][i]
    PROVE  OnWire(h2)'
<1>1. PICK e, t : OnInterface(h, e, t) /\ \A a \in Addresses : \E w : Got(a, e, w)
  BY DEF OnWire
<1>2. OnInterface(h2, e, t)'
  <2>1. \A k \in 1 .. Len(to_bus[Node]) :
           Serves(wanted', given', encoder, t[k], to_bus[Node][k][1], to_bus[Node][k][2])
    BY <1>1, ServesStays DEF OnInterface
  <2>2. e \in Nat /\ e <= h2
    BY <1>1 DEF OnInterface
  <2>3. \A k \in 1 .. Len(to_bus[Node]) : t[k] <= h2
    BY <1>1 DEF OnInterface
  <2> QED  BY <1>1, <2>1, <2>2, <2>3 DEF OnInterface
<1>3. ASSUME NEW a \in Addresses PROVE \E w : Got(a, e, w)'
  <2>1. PICK w : Got(a, e, w)
    BY <1>1
  <2>2. \A i \in FromNode(a) : Serves(wanted', given', encoder, w[i], a, from_bus[a][i][2])
    BY <2>1, ServesStays DEF Got
  <2>3. Got(a, e, w)'
    BY <2>1, <2>2 DEF Got
  <2> QED  BY <2>3
<1> QED  BY <1>2, <1>3 DEF OnWire

(* The link layer puts the next one on the interface. *)
LEMMA WireSent ==
    ASSUME NEW h \in Nat, OnWire(h), IsSeq(to_bus[Node]),
           UNCHANGED <<encoder, wanted, given, from_bus>>,
           NEW a, NEW wire, Serves(wanted, given, encoder, h + 1, a, wire),
           to_bus'[Node] = Append(to_bus[Node], <<a, wire, Unmeant>>)
    PROVE  OnWire(h + 1)'
<1>1. PICK e, t : OnInterface(h, e, t) /\ \A b \in Addresses : \E w : Got(b, e, w)
  BY DEF OnWire
<1>2. PICK n : n = Len(to_bus[Node])
  OBVIOUS
<1>3. PICK s : s = to_bus[Node]
  OBVIOUS
<1>4. PICK x : x = <<a, wire, Unmeant>>
  OBVIOUS
<1>5. PICK t2 : t2 = [k \in 1 .. n + 1 |-> IF k = n + 1 THEN h + 1 ELSE t[k]]
  OBVIOUS
<1>6. /\ n \in Nat /\ Len(to_bus'[Node]) = n + 1 /\ to_bus'[Node][n + 1] = x
      /\ x[1] = a /\ x[2] = wire
      /\ \A k \in 1 .. n : to_bus'[Node][k] = s[k]
  BY <1>2, <1>3, <1>4, AfterAppend
<1>7. /\ e \in Nat /\ e <= h /\ t \in [1 .. n -> Nat]
      /\ \A k \in 1 .. n :
            /\ e < t[k] /\ t[k] <= h /\ t[k] \in Nat
            /\ \A j \in 1 .. n : j < k => t[j] < t[k]
            /\ Serves(wanted, given, encoder, t[k], s[k][1], s[k][2])
  BY <1>1, <1>2, <1>3 DEF OnInterface
<1>8. t2 \in [1 .. n + 1 -> Nat] /\ t2[n + 1] = h + 1 /\ \A k \in 1 .. n : t2[k] = t[k] /\ k # n + 1
  BY <1>5, <1>6, <1>7
<1>9. ASSUME NEW k \in 1 .. n + 1
      PROVE  /\ e < t2[k] /\ t2[k] <= h + 1
             /\ \A j \in 1 .. n + 1 : j < k => t2[j] < t2[k]
             /\ Serves(wanted, given, encoder, t2[k], to_bus'[Node][k][1], to_bus'[Node][k][2])
  <2>1. CASE k \in 1 .. n
    <3>1. \A j \in 1 .. n + 1 : j < k => j \in 1 .. n
      BY <1>6, <2>1
    <3>2. e < t2[k] /\ t2[k] <= h + 1
      BY <1>7, <1>8, <2>1
    <3>3. \A j \in 1 .. n + 1 : j < k => t2[j] < t2[k]
      BY <1>7, <1>8, <2>1, <3>1
    <3>4. Serves(wanted, given, encoder, t2[k], to_bus'[Node][k][1], to_bus'[Node][k][2])
      BY <1>6, <1>7, <1>8, <2>1
    <3> QED  BY <3>2, <3>3, <3>4
  <2>2. CASE k = n + 1
    <3>1. \A j \in 1 .. n + 1 : j < k => j \in 1 .. n /\ t2[j] \in Nat /\ t2[j] <= h
      BY <1>6, <1>7, <1>8, <2>2
    <3>2. t2[k] = h + 1 /\ e < h + 1 /\ \A j \in 1 .. n + 1 : j < k => t2[j] < t2[k]
      BY <1>7, <1>8, <2>2, <3>1
    <3> QED  BY <1>6, <2>2, <3>2
  <2> QED  BY <1>6, <2>1, <2>2
<1>10. OnInterface(h + 1, e, t2)'
  BY <1>6, <1>7, <1>8, <1>9 DEF OnInterface
<1>11. ASSUME NEW b \in Addresses PROVE \E w : Got(b, e, w)'
  <2>1. PICK w : Got(b, e, w)
    BY <1>1
  <2>2. FromNode(b)' = FromNode(b) /\ from_bus'[b] = from_bus[b]
    BY DEF FromNode
  <2>3. Got(b, e, w)'
    BY <2>1, <2>2 DEF Got
  <2> QED  BY <2>3
<1> QED  BY <1>10, <1>11 DEF OnWire

(* The bus takes the next one from the interface, and carries it to its    *)
(* receiver or loses it.                                                   *)
LEMMA WireTaken ==
    ASSUME NEW h \in Nat, OnWire(h), IsSeq(to_bus[Node]), to_bus[Node] # << >>,
           UNCHANGED <<encoder, wanted, given>>, to_bus'[Node] = Tail(to_bus[Node]),
           \A a \in Addresses :
              \/ from_bus'[a] = from_bus[a]
              \/ /\ a = Head(to_bus[Node])[1] /\ IsSeq(from_bus[a])
                 /\ from_bus'[a] = Append(from_bus[a], <<Node, Head(to_bus[Node])[2]>>)
    PROVE  OnWire(h)'
<1>1. PICK e, t : OnInterface(h, e, t) /\ \A b \in Addresses : \E w : Got(b, e, w)
  BY DEF OnWire
<1>2. PICK n : n = Len(to_bus[Node])
  OBVIOUS
<1>3. PICK s : s = to_bus[Node]
  OBVIOUS
<1>4. PICK t2 : t2 = [k \in 1 .. n - 1 |-> t[k + 1]]
  OBVIOUS
<1>5. /\ n \in Nat \ {0} /\ Len(to_bus'[Node]) = n - 1 /\ Head(s) = s[1]
      /\ \A k \in 1 .. n - 1 : to_bus'[Node][k] = s[k + 1] /\ k + 1 \in 1 .. n
  BY <1>2, <1>3, AfterTail
<1>6. /\ e \in Nat /\ e <= h /\ t \in [1 .. n -> Nat]
      /\ \A k \in 1 .. n :
            /\ e < t[k] /\ t[k] <= h /\ t[k] \in Nat
            /\ \A j \in 1 .. n : j < k => t[j] < t[k]
            /\ Serves(wanted, given, encoder, t[k], s[k][1], s[k][2])
  BY <1>1, <1>2, <1>3 DEF OnInterface
<1>7. 1 \in 1 .. n /\ t[1] \in Nat /\ e < t[1] /\ t[1] <= h
      /\ Serves(wanted, given, encoder, t[1], Head(s)[1], Head(s)[2])
  BY <1>5, <1>6
<1>8. t2 \in [1 .. n - 1 -> Nat] /\ \A k \in 1 .. n - 1 : t2[k] = t[k + 1]
  BY <1>4, <1>5, <1>6
<1>9. ASSUME NEW k \in 1 .. n - 1
      PROVE  /\ t[1] < t2[k] /\ t2[k] <= h
             /\ \A j \in 1 .. n - 1 : j < k => t2[j] < t2[k]
             /\ Serves(wanted, given, encoder, t2[k], to_bus'[Node][k][1], to_bus'[Node][k][2])
  <2>1. k + 1 \in 1 .. n /\ 1 < k + 1 /\ \A j \in 1 .. n - 1 : j < k => j + 1 < k + 1
    BY <1>5
  <2> QED  BY <1>5, <1>6, <1>7, <1>8, <2>1
<1>10. OnInterface(h, t[1], t2)'
  BY <1>5, <1>7, <1>8, <1>9 DEF OnInterface
<1>11. ASSUME NEW a \in Addresses PROVE \E w : Got(a, t[1], w)'
  <2>1. PICK w : Got(a, e, w)
    BY <1>1
  <2>2. /\ w \in [FromNode(a) -> 1 .. e]
        /\ \A i, j \in FromNode(a) : w[i] = w[j] => i = j
        /\ \A i \in FromNode(a) : Serves(wanted, given, encoder, w[i], a, from_bus[a][i][2])
    BY <2>1 DEF Got
  <2>3. 1 .. e \subseteq 1 .. t[1] /\ t[1] \in 1 .. t[1] /\ t[1] \notin 1 .. e
    BY <1>6, <1>7
  <2>4. CASE from_bus'[a] = from_bus[a]
    <3>1. FromNode(a)' = FromNode(a)
      BY <2>4 DEF FromNode
    <3>2. w \in [FromNode(a) -> 1 .. t[1]]
      BY <2>2, <2>3
    <3>3. Got(a, t[1], w)'
      BY <2>2, <2>4, <3>1, <3>2 DEF Got
    <3> QED  BY <3>3
  <2>5. CASE /\ a = Head(to_bus[Node])[1] /\ IsSeq(from_bus[a])
             /\ from_bus'[a] = Append(from_bus[a], <<Node, Head(to_bus[Node])[2]>>)
    <3>1. PICK m : m = Len(from_bus[a])
      OBVIOUS
    <3>2. PICK x : x = <<Node, Head(to_bus[Node])[2]>>
      OBVIOUS
    <3>3. /\ m \in Nat /\ DOMAIN from_bus[a] = 1 .. m /\ DOMAIN from_bus'[a] = 1 .. m + 1
          /\ from_bus'[a][m + 1] = x /\ x[1] = Node /\ x[2] = Head(s)[2]
          /\ \A k \in 1 .. m : from_bus'[a][k] = from_bus[a][k] /\ k # m + 1
      <4>1. PICK f : f = from_bus[a]
        OBVIOUS
      <4>2. IsSeq(f) /\ m = Len(f) /\ from_bus'[a] = Append(f, x)
        BY <2>5, <3>1, <3>2, <4>1
      <4>3. /\ m \in Nat /\ DOMAIN f = 1 .. m /\ DOMAIN Append(f, x) = 1 .. m + 1
            /\ Append(f, x)[m + 1] = x /\ \A k \in 1 .. m : Append(f, x)[k] = f[k]
        BY <4>2, AfterAppend
      <4>4. x[1] = Node /\ x[2] = Head(s)[2]
        BY <1>3, <3>2
      <4>5. \A k \in 1 .. m : k # m + 1
        BY <4>3
      <4> QED  BY <4>1, <4>2, <4>3, <4>4, <4>5
    <3>4. /\ FromNode(a)' = FromNode(a) \cup {m + 1} /\ m + 1 \notin FromNode(a)
          /\ FromNode(a) \subseteq 1 .. m
      BY <3>3 DEF FromNode
    <3>5. PICK v : v = [i \in FromNode(a) \cup {m + 1} |-> IF i = m + 1 THEN t[1] ELSE w[i]]
      OBVIOUS
    <3>6. v[m + 1] = t[1] /\ \A i \in FromNode(a) : v[i] = w[i] /\ v[i] \in 1 .. e
      BY <2>2, <3>4, <3>5
    <3>7. v \in [FromNode(a) \cup {m + 1} -> 1 .. t[1]]
      BY <2>2, <2>3, <3>5
    <3>8. \A i, j \in FromNode(a) \cup {m + 1} : v[i] = v[j] => i = j
      BY <2>2, <2>3, <3>6
    <3>9. ASSUME NEW i \in FromNode(a) \cup {m + 1}
          PROVE  Serves(wanted, given, encoder, v[i], a, from_bus'[a][i][2])
      <4>1. CASE i \in FromNode(a)
        BY <2>2, <3>3, <3>4, <3>6, <4>1
      <4>2. CASE i = m + 1
        BY <1>3, <1>7, <2>5, <3>3, <3>6, <4>2
      <4> QED  BY <4>1, <4>2
    <3>10. Got(a, t[1], v)'
      BY <3>4, <3>7, <3>8, <3>9 DEF Got
    <3> QED  BY <3>10
  <2> QED  BY <2>4, <2>5
<1> QED  BY <1>10, <1>11 DEF OnWire

-----------------------------------------------------------------------------
(* The steps of the way down *)

(* A step elsewhere. *)
LEMMA DownStays ==
    ASSUME NEW d, Connected, DownOrder(d), DownRight(d),
           UNCHANGED <<layers, ports, encoder, wanted>>,
           \A i \in Links : queues'[Down(i)] = queues[Down(i)]
    PROVE  DownOrder(d)' /\ DownRight(d)' /\ Height' = Height
<1>1. Height' = Height /\ Links' = Links /\ \A i : Down(i)' = Down(i) /\ Form(i)' = Form(i)
  BY DEF Height, Links, Down, Form
<1> QED  BY <1>1 DEF DownOrder, DownRight

(* The ICN layer sends a packet. *)
LEMMA DownTop ==
    ASSUME NEW d, Connected, DownOrder(d), DownRight(d), IsSeq(wanted),
           UNCHANGED <<layers, ports, encoder>>,
           NEW a, wanted' = Append(wanted, <<a[1], Meaning(a[2])>>), Legible(encoder, a[2]),
           queues'[Down(1)] = Append(queues[Down(1)], a),
           \A i \in Links : i # 1 => queues'[Down(i)] = queues[Down(i)]
    PROVE  \E v : /\ DownOrder(v)' /\ DownRight(v)' /\ Height' = Height
                  /\ v[Height] = d[Height] /\ v[Height] \in Nat
<1>1. Height' = Height /\ Links' = Links /\ \A i : Down(i)' = Down(i) /\ Form(i)' = Form(i)
  BY DEF Height, Links, Down, Form
<1>3. Height \in Nat /\ Height >= 3 /\ Links = 1 .. Height - 1 /\ 1 \in Links
  BY SeqDomain DEF Connected, Ordered, Height, Links
<1>4. \A i \in Links : IsSeq(queues[Down(i)]) /\ Len(queues[Down(i)]) \in Nat
  BY DownQueues
<1>5. /\ Len(queues'[Down(1)]) = Len(queues[Down(1)]) + 1
      /\ \A i \in Links : Len(queues'[Down(i)]) \in Nat
  <2>1. Len(queues'[Down(1)]) = Len(queues[Down(1)]) + 1
    BY <1>3, <1>4, AfterAppend
  <2> QED  BY <1>3, <1>4, <2>1
<1>6. PICK v : v = [d EXCEPT ![1] = @ + 1]
  OBVIOUS
<1>7. /\ v \in [1 .. Height -> Nat] /\ v[1] = d[1] + 1 /\ d[1] \in Nat
      /\ \A i \in 1 .. Height : i # 1 => v[i] = d[i] /\ d[i] \in Nat
      /\ \A i \in Links : v[i] = v[i + 1] + Len(queues'[Down(i)])
  <2> DEFINE n == [i \in 1 .. Height - 1 |-> Len(queues[Down(i)])]
             m == [i \in 1 .. Height - 1 |-> Len(queues'[Down(i)])]
  <2>1. d \in [1 .. Height -> Nat] /\ 1 \in 1 .. Height /\ d[1] \in Nat
    BY <1>3 DEF DownOrder
  <2>2. CountsDown(Height, d, n)
    BY <1>3, <2>1 DEF CountsDown, DownOrder
  <2>3. n \in [1 .. Height - 1 -> Nat] /\ m \in [1 .. Height - 1 -> Nat]
    BY <1>3, <1>4, <1>5
  <2>4. ASSUME NEW i \in 1 .. Height - 1
        PROVE  /\ i # 1 /\ i + 1 # 1 => n[i] = m[i]
               /\ i = 1 => n[i] = m[i] - 1
               /\ i + 1 = 1 => n[i] = m[i] + 1
    <3>1. i \in Links /\ i + 1 # 1
      BY <1>3
    <3>0. m[i] = Len(queues'[Down(i)]) /\ n[i] = Len(queues[Down(i)]) /\ n[i] \in Nat
      BY <2>3
    <3> HIDE DEF n, m
    <3>2. CASE i = 1
      BY <1>5, <3>0, <3>1, <3>2
    <3>3. CASE i # 1
      <4>1. queues'[Down(i)] = queues[Down(i)]
        BY <3>1, <3>3
      <4> QED  BY <3>0, <3>1, <3>3, <4>1
    <3> QED  BY <3>1, <3>2, <3>3
  <2>5. Moving(Height, 1, m, n)
    BY <2>3, <2>4 DEF Moving
  <2> HIDE DEF n, m
  <2>6. CountsDown(Height, [d EXCEPT ![1] = @ + 1], m)
    BY <1>3, <2>1, <2>2, <2>5, ShiftDown
  <2>7. /\ v \in [1 .. Height -> Nat]
        /\ \A i \in 1 .. Height - 1 : v[i] = v[i + 1] + m[i]
    BY <1>6, <2>6 DEF CountsDown
  <2>8. v[1] = d[1] + 1 /\ \A i \in 1 .. Height : i # 1 => v[i] = d[i] /\ d[i] \in Nat
    BY <1>6, <2>1
  <2> QED  BY <1>3, <2>1, <2>7, <2>8 DEF m
<1>8. /\ Len(wanted) \in Nat /\ Len(wanted') = Len(wanted) + 1
      /\ wanted'[Len(wanted) + 1] = <<a[1], Meaning(a[2])>>
      /\ \A k \in 1 .. Len(wanted) : wanted'[k] = wanted[k]
  BY AfterAppend
<1>9. More(wanted, wanted')
  BY <1>8 DEF More
<1>10. DownOrder(v)'
  BY <1>1, <1>7, <1>8 DEF DownOrder
<1>11. Sent(wanted', encoder, Len(wanted) + 1, a, "packet")
  BY <1>8 DEF Sent, Legible
<1>12. ASSUME NEW i \in Links
       PROVE  AllSent(wanted', encoder, v[i + 1], queues'[Down(i)], Form(i))
  <2>1. i + 1 \in 1 .. Height /\ i + 1 # 1 /\ v[i + 1] = d[i + 1] /\ d[i + 1] \in Nat
    BY <1>3, <1>7
  <2>2. AllSent(wanted, encoder, d[i + 1], queues[Down(i)], Form(i))
    BY DEF DownRight
  <2>3. AllSent(wanted', encoder, d[i + 1], queues[Down(i)], Form(i))
    BY <1>9, <2>2, SentStays
  <2>4. CASE i # 1
    BY <2>1, <2>3, <2>4
  <2>5. CASE i = 1
    <3>1. Form(i) = "packet"
      BY <1>3, <2>5 DEF Form
    <3>2. d[i + 1] + Len(queues[Down(i)]) + 1 = Len(wanted) + 1
      BY <1>3, <2>5 DEF DownOrder
    <3>3. AllSent(wanted', encoder, d[i + 1], Append(queues[Down(i)], a), Form(i))
      BY <1>4, <1>11, <2>1, <2>3, <3>1, <3>2, SentAppend
    <3> QED  BY <2>1, <2>5, <3>3
  <2> QED  BY <2>4, <2>5
<1>13. DownRight(v)'
  BY <1>1, <1>12 DEF DownRight
<1>14. v[Height] = d[Height] /\ v[Height] \in Nat
  <2>1. Height \in 1 .. Height /\ Height # 1
    BY <1>3
  <2> QED  BY <1>7, <2>1
<1> QED  BY <1>1, <1>10, <1>13, <1>14

(* A layer between two others takes an item from above and hands it down. *)
MovesDown(j, e) ==
    /\ queues[Down(j - 1)] # << >>
    /\ queues'[Down(j - 1)] = Tail(queues[Down(j - 1)])
    /\ queues'[Down(j)] = Append(queues[Down(j)], e)
    /\ \A i \in Links : i \notin {j, j - 1} => queues'[Down(i)] = queues[Down(i)]

LEMMA DownPassed ==
    ASSUME NEW d, Connected, DownOrder(d), DownRight(d),
           UNCHANGED <<layers, ports, encoder, wanted>>,
           NEW j \in 2 .. Height - 1, NEW e, MovesDown(j, e),
           \A n : Sent(wanted, encoder, n, Head(queues[Down(j - 1)]), Form(j - 1))
                     => Sent(wanted, encoder, n, e, Form(j))
    PROVE  \E v : /\ DownOrder(v)' /\ DownRight(v)' /\ Height' = Height
                  /\ v[Height] = d[Height] /\ v[Height] \in Nat
<1> USE DEF MovesDown
<1>1. Height' = Height /\ Links' = Links /\ \A i : Down(i)' = Down(i) /\ Form(i)' = Form(i)
  BY DEF Height, Links, Down, Form
<1>3. /\ Height \in Nat /\ Height >= 3 /\ Links = 1 .. Height - 1
      /\ j \in Links /\ j - 1 \in Links /\ j \in Nat /\ j # j - 1 /\ (j - 1) + 1 = j
  BY SeqDomain DEF Connected, Ordered, Height, Links
<1>0. 1 \in 1 .. Height /\ Height \in 1 .. Height /\ j # 1 /\ j # Height
  BY <1>3
<1>4. \A i \in Links : IsSeq(queues[Down(i)]) /\ Len(queues[Down(i)]) \in Nat
  BY DownQueues
<1>5. /\ Len(queues'[Down(j - 1)]) = Len(queues[Down(j - 1)]) - 1
      /\ Len(queues'[Down(j)]) = Len(queues[Down(j)]) + 1
      /\ \A i \in Links : Len(queues'[Down(i)]) \in Nat
  <2>1. Len(queues[Down(j - 1)]) \in Nat \ {0} /\ Len(queues'[Down(j - 1)]) = Len(queues[Down(j - 1)]) - 1
    BY <1>3, <1>4, AfterTail
  <2>2. Len(queues'[Down(j)]) = Len(queues[Down(j)]) + 1
    BY <1>3, <1>4, AfterAppend
  <2> QED  BY <1>3, <1>4, <2>1, <2>2
<1>6. PICK v : v = [d EXCEPT ![j] = @ + 1]
  OBVIOUS
<1>7. /\ v \in [1 .. Height -> Nat] /\ v[j] = d[j] + 1 /\ d[j] \in Nat
      /\ \A i \in 1 .. Height : i # j => v[i] = d[i] /\ d[i] \in Nat
      /\ \A i \in Links : v[i] = v[i + 1] + Len(queues'[Down(i)])
  <2> DEFINE n == [i \in 1 .. Height - 1 |-> Len(queues[Down(i)])]
             m == [i \in 1 .. Height - 1 |-> Len(queues'[Down(i)])]
  <2>0. d \in [1 .. Height -> Nat]
    BY DEF DownOrder
  <2>1. d \in [1 .. Height -> Nat] /\ j \in 1 .. Height /\ d[j] \in Nat
    BY <1>3, <2>0
  <2>2. CountsDown(Height, d, n)
    BY <1>3, <2>1 DEF CountsDown, DownOrder
  <2>3. n \in [1 .. Height - 1 -> Nat] /\ m \in [1 .. Height - 1 -> Nat]
    BY <1>3, <1>4, <1>5
  <2>4. ASSUME NEW i \in 1 .. Height - 1
        PROVE  /\ i # j /\ i + 1 # j => n[i] = m[i]
               /\ i = j => n[i] = m[i] - 1
               /\ i + 1 = j => n[i] = m[i] + 1
    <3>1. i \in Links
      BY <1>3
    <3>0. m[i] = Len(queues'[Down(i)]) /\ n[i] = Len(queues[Down(i)]) /\ n[i] \in Nat
      BY <2>3
    <3> HIDE DEF n, m
    <3>2. CASE i = j
      <4>1. i + 1 # j
        BY <1>3, <3>2
      <4> QED  BY <1>5, <3>0, <3>2, <4>1
    <3>3. CASE i + 1 = j
      <4>1. i = j - 1 /\ i # j
        BY <1>3, <3>3
      <4>2. m[i] = n[i] - 1
        BY <1>5, <3>0, <4>1
      <4> QED  BY <3>0, <3>3, <4>1, <4>2
    <3>4. CASE i # j /\ i + 1 # j
      <4>1. i # j - 1
        BY <1>3, <3>4
      <4>2. queues'[Down(i)] = queues[Down(i)]
        BY <3>1, <3>4, <4>1
      <4> QED  BY <3>0, <3>4, <4>2
    <3> QED  BY <3>2, <3>3, <3>4
  <2>5. Moving(Height, j, m, n)
    BY <2>3, <2>4 DEF Moving
  <2> HIDE DEF n, m
  <2>6. CountsDown(Height, [d EXCEPT ![j] = @ + 1], m)
    BY <1>3, <2>1, <2>2, <2>5, ShiftDown
  <2>7. /\ v \in [1 .. Height -> Nat]
        /\ \A i \in 1 .. Height - 1 : v[i] = v[i + 1] + m[i]
    BY <1>6, <2>6 DEF CountsDown
  <2>8. v[j] = d[j] + 1 /\ \A i \in 1 .. Height : i # j => v[i] = d[i] /\ d[i] \in Nat
    BY <1>6, <2>1
  <2> QED  BY <1>3, <2>1, <2>7, <2>8 DEF m
<1>8. DownOrder(v)'
  BY <1>0, <1>1, <1>7 DEF DownOrder
<1>9. ASSUME NEW i \in Links
      PROVE  AllSent(wanted, encoder, v[i + 1], queues'[Down(i)], Form(i))
  <2>1. \A k \in Links : AllSent(wanted, encoder, d[k + 1], queues[Down(k)], Form(k))
    BY DEF DownRight
  <2>2. /\ Sent(wanted, encoder, d[j] + 1, Head(queues[Down(j - 1)]), Form(j - 1))
        /\ AllSent(wanted, encoder, d[j] + 1, Tail(queues[Down(j - 1)]), Form(j - 1))
    <3>1. AllSent(wanted, encoder, d[j], queues[Down(j - 1)], Form(j - 1))
      BY <1>3, <2>1
    <3> QED  BY <1>3, <1>4, <1>7, <3>1, SentTail
  <2>3. CASE i = j - 1
    BY <1>3, <1>7, <2>2, <2>3
  <2>4. CASE i = j
    <3>1. i + 1 \in 1 .. Height /\ i + 1 # j /\ d[j] = d[i + 1] + Len(queues[Down(i)])
      BY <1>3, <2>4 DEF DownOrder
    <3>2. /\ v[i + 1] = d[i + 1] /\ d[i + 1] \in Nat
          /\ AllSent(wanted, encoder, d[i + 1], queues[Down(i)], Form(i))
          /\ IsSeq(queues[Down(i)])
      BY <1>4, <1>7, <2>1, <3>1
    <3>3. Sent(wanted, encoder, d[i + 1] + Len(queues[Down(i)]) + 1, e, Form(i))
      BY <2>2, <2>4, <3>1
    <3>4. AllSent(wanted, encoder, d[i + 1], Append(queues[Down(i)], e), Form(i))
      BY <3>2, <3>3, SentAppend
    <3> QED  BY <2>4, <3>2, <3>4
  <2>5. CASE i \notin {j, j - 1}
    <3>1. i + 1 \in 1 .. Height /\ i + 1 # j
      BY <1>3, <2>5
    <3>2. v[i + 1] = d[i + 1] /\ queues'[Down(i)] = queues[Down(i)]
      BY <1>7, <2>5, <3>1
    <3> QED  BY <2>1, <3>2
  <2> QED  BY <2>3, <2>4, <2>5
<1>10. DownRight(v)'
  BY <1>1, <1>9 DEF DownRight
<1> QED  BY <1>0, <1>1, <1>7, <1>8, <1>10

(* The link layer takes a packet. *)
LEMMA DownSent ==
    ASSUME NEW d, Connected, DownOrder(d), DownRight(d),
           UNCHANGED <<layers, ports, encoder, wanted>>,
           queues[Down(Height - 1)] # << >>,
           queues'[Down(Height - 1)] = Tail(queues[Down(Height - 1)]),
           \A i \in Links : i # Height - 1 => queues'[Down(i)] = queues[Down(i)]
    PROVE  /\ \E v : /\ DownOrder(v)' /\ DownRight(v)' /\ Height' = Height
                     /\ v[Height] = d[Height] + 1 /\ d[Height] \in Nat
           /\ Sent(wanted, encoder, d[Height] + 1, Head(queues[Down(Height - 1)]), "wire")
<1>1. Height' = Height /\ Links' = Links /\ \A i : Down(i)' = Down(i) /\ Form(i)' = Form(i)
  BY DEF Height, Links, Down, Form
<1>3. Height \in Nat /\ Height >= 3 /\ Height - 1 \in Links /\ Links = 1 .. Height - 1
      /\ (Height - 1) + 1 = Height
  BY SeqDomain DEF Connected, Ordered, Height, Links
<1>4. \A i \in Links : IsSeq(queues[Down(i)]) /\ Len(queues[Down(i)]) \in Nat
  BY DownQueues
<1>5. /\ Len(queues'[Down(Height - 1)]) = Len(queues[Down(Height - 1)]) - 1
      /\ \A i \in Links : Len(queues'[Down(i)]) \in Nat
  <2>1. /\ Len(queues[Down(Height - 1)]) \in Nat \ {0}
        /\ Len(queues'[Down(Height - 1)]) = Len(queues[Down(Height - 1)]) - 1
    BY <1>3, <1>4, AfterTail
  <2> QED  BY <1>3, <1>4, <2>1
<1>6. PICK v : v = [d EXCEPT ![Height] = @ + 1]
  OBVIOUS
<1>7. /\ v \in [1 .. Height -> Nat] /\ v[Height] = d[Height] + 1 /\ d[Height] \in Nat
      /\ \A i \in 1 .. Height : i # Height => v[i] = d[i] /\ d[i] \in Nat
      /\ \A i \in Links : v[i] = v[i + 1] + Len(queues'[Down(i)])
  <2> DEFINE n == [i \in 1 .. Height - 1 |-> Len(queues[Down(i)])]
             m == [i \in 1 .. Height - 1 |-> Len(queues'[Down(i)])]
  <2>1. d \in [1 .. Height -> Nat] /\ Height \in 1 .. Height /\ d[Height] \in Nat
    BY <1>3 DEF DownOrder
  <2>2. CountsDown(Height, d, n)
    BY <1>3, <2>1 DEF CountsDown, DownOrder
  <2>3. n \in [1 .. Height - 1 -> Nat] /\ m \in [1 .. Height - 1 -> Nat]
    BY <1>3, <1>4, <1>5
  <2>4. ASSUME NEW i \in 1 .. Height - 1
        PROVE  /\ i # Height /\ i + 1 # Height => n[i] = m[i]
               /\ i = Height => n[i] = m[i] - 1
               /\ i + 1 = Height => n[i] = m[i] + 1
    <3>1. i # Height /\ i \in Links
      BY <1>3
    <3>0. m[i] = Len(queues'[Down(i)]) /\ n[i] = Len(queues[Down(i)]) /\ n[i] \in Nat
      BY <2>3
    <3> HIDE DEF n, m
    <3>2. CASE i = Height - 1
      <4>1. i + 1 = Height
        BY <1>3, <3>2
      <4>2. m[i] = n[i] - 1
        BY <1>5, <3>0, <3>2
      <4> QED  BY <3>0, <3>1, <4>1, <4>2
    <3>3. CASE i # Height - 1
      <4>1. i + 1 # Height
        BY <1>3, <3>3
      <4>2. queues'[Down(i)] = queues[Down(i)]
        BY <3>1, <3>3
      <4> QED  BY <3>0, <3>1, <4>1, <4>2
    <3> QED  BY <3>2, <3>3
  <2>5. Moving(Height, Height, m, n)
    BY <2>3, <2>4 DEF Moving
  <2> HIDE DEF n, m
  <2>6. CountsDown(Height, [d EXCEPT ![Height] = @ + 1], m)
    BY <1>3, <2>1, <2>2, <2>5, ShiftDown
  <2>7. /\ v \in [1 .. Height -> Nat]
        /\ \A i \in 1 .. Height - 1 : v[i] = v[i + 1] + m[i]
    BY <1>6, <2>6 DEF CountsDown
  <2>8. v[Height] = d[Height] + 1 /\ \A i \in 1 .. Height : i # Height => v[i] = d[i] /\ d[i] \in Nat
    BY <1>6, <2>1
  <2> QED  BY <1>3, <2>1, <2>7, <2>8 DEF m
<1>8. DownOrder(v)'
  <2>1. 1 \in 1 .. Height /\ 1 # Height
    BY <1>3
  <2> QED  BY <1>1, <1>7, <2>1 DEF DownOrder
<1>9. /\ Sent(wanted, encoder, d[Height] + 1, Head(queues[Down(Height - 1)]), Form(Height - 1))
      /\ AllSent(wanted, encoder, d[Height] + 1, Tail(queues[Down(Height - 1)]), Form(Height - 1))
  <2>1. AllSent(wanted, encoder, d[Height], queues[Down(Height - 1)], Form(Height - 1))
    BY <1>3 DEF DownRight
  <2> QED  BY <1>3, <1>4, <1>7, <2>1, SentTail
<1>10. ASSUME NEW i \in Links
       PROVE  AllSent(wanted, encoder, v[i + 1], queues'[Down(i)], Form(i))
  <2>1. CASE i = Height - 1
    BY <1>3, <1>7, <1>9, <2>1
  <2>2. CASE i # Height - 1
    <3>1. i + 1 \in 1 .. Height /\ i + 1 # Height
      BY <1>3, <2>2
    <3>2. v[i + 1] = d[i + 1] /\ queues'[Down(i)] = queues[Down(i)]
      BY <1>7, <2>2, <3>1
    <3> QED  BY <3>2 DEF DownRight
  <2> QED  BY <2>1, <2>2
<1>11. DownRight(v)'
  BY <1>1, <1>10 DEF DownRight
<1>12. Form(Height - 1) = "wire"
  BY DEF Form
<1> QED  BY <1>1, <1>7, <1>8, <1>9, <1>11, <1>12

-----------------------------------------------------------------------------
(* Both ways together *)

LEMMA Tall ==
    ASSUME Connected
    PROVE  /\ Height \in Nat /\ Height >= 3 /\ DOMAIN layers = 1 .. Height
           /\ Links = 1 .. Height - 1 /\ Len(queues) \in Nat
           /\ \A i \in 1 .. Height : layers[i] \in Layers
           /\ layers[1] = "icn" /\ layers[Height - 1] = "encoding" /\ layers[Height] = "link"
           /\ \A i, j \in 1 .. Height : layers[i] = layers[j] => i = j
           /\ \A i \in Links : /\ Up(i) \in 5 .. Len(queues) /\ Down(i) \in 5 .. Len(queues)
                               /\ Up(i) \in 1 .. Len(queues) /\ Down(i) \in 1 .. Len(queues)
           /\ \A i, j \in Links : /\ Up(i) = Up(j) => i = j
                                  /\ Down(i) = Down(j) => i = j
                                  /\ Up(i) # Down(j)
<1>1. Height \in Nat /\ Height >= 3 /\ DOMAIN layers = 1 .. Height
      /\ \A i \in 1 .. Height : layers[i] \in Layers
  BY DEF Connected, Ordered, Height
<1>2. Len(queues) \in Nat
  BY SeqDomain DEF Connected, Used
<1>3. \A i \in Links : Up(i) \in 5 .. Len(queues) /\ Down(i) \in 5 .. Len(queues)
  BY DEF Connected, Linked
<1>4. \A i \in Links : Up(i) \in 1 .. Len(queues) /\ Down(i) \in 1 .. Len(queues)
  BY <1>2, <1>3
<1> QED  BY <1>1, <1>2, <1>3, <1>4 DEF Connected, Ordered, Linked, Links

(* A layer between two others hands an item up, or down. *)
LEMMA GoesUp ==
    ASSUME Connected, UNCHANGED <<layers, ports>>,
           NEW j \in 2 .. Height - 1, queues[Up(j)] # << >>, NEW e,
           queues' = TakeAndPut(layers[j], "from_lower", "to_higher", e)
    PROVE  /\ Connected' /\ Height' = Height
           /\ queues'[Up(j)] = Tail(queues[Up(j)])
           /\ queues'[Up(j - 1)] = Append(queues[Up(j - 1)], e)
           /\ \A i \in Links : i \notin {j, j - 1} => queues'[Up(i)] = queues[Up(i)]
           /\ \A i \in Links : queues'[Down(i)] = queues[Down(i)]
<1>1. j \in Links /\ j - 1 \in Links /\ j # j - 1 /\ (j - 1) + 1 = j
  BY Tall
<1>2. ports[layers[j]].from_lower = Up(j) /\ ports[layers[j]].to_higher = Up(j - 1)
  BY <1>1 DEF Connected, Linked, Up
<1>3. Up(j) \in 5 .. Len(queues) /\ Up(j - 1) \in 5 .. Len(queues) /\ Up(j) # Up(j - 1)
  BY <1>1, Tall
<1>4. queues' = [queues EXCEPT ![Up(j)] = Tail(@), ![Up(j - 1)] = Append(@, e)]
  BY <1>2 DEF TakeAndPut
<1>5. /\ Connected' /\ Height' = Height
      /\ queues'[Up(j)] = Tail(queues[Up(j)])
      /\ queues'[Up(j - 1)] = Append(queues[Up(j - 1)], e)
      /\ \A x \in 1 .. Len(queues) : x \notin {Up(j), Up(j - 1)} => queues'[x] = queues[x]
  BY <1>3, <1>4, Moved
<1>6. \A i \in Links : /\ i \notin {j, j - 1} => Up(i) \notin {Up(j), Up(j - 1)}
                       /\ Down(i) \notin {Up(j), Up(j - 1)}
  BY <1>1, Tall
<1>7. \A i \in Links : Up(i) \in 1 .. Len(queues) /\ Down(i) \in 1 .. Len(queues)
  BY Tall
<1> QED  BY <1>5, <1>6, <1>7

LEMMA GoesDown ==
    ASSUME Connected, UNCHANGED <<layers, ports>>,
           NEW j \in 2 .. Height - 1, queues[Down(j - 1)] # << >>, NEW e,
           queues' = TakeAndPut(layers[j], "from_higher", "to_lower", e)
    PROVE  /\ Connected' /\ Height' = Height
           /\ queues'[Down(j - 1)] = Tail(queues[Down(j - 1)])
           /\ queues'[Down(j)] = Append(queues[Down(j)], e)
           /\ \A i \in Links : i \notin {j, j - 1} => queues'[Down(i)] = queues[Down(i)]
           /\ \A i \in Links : queues'[Up(i)] = queues[Up(i)]
<1>1. j \in Links /\ j - 1 \in Links /\ j # j - 1 /\ (j - 1) + 1 = j
  BY Tall
<1>2. ports[layers[j]].to_lower = Down(j) /\ ports[layers[j]].from_higher = Down(j - 1)
  BY <1>1 DEF Connected, Linked, Down
<1>3. Down(j) \in 5 .. Len(queues) /\ Down(j - 1) \in 5 .. Len(queues) /\ Down(j - 1) # Down(j)
  BY <1>1, Tall
<1>4. queues' = [queues EXCEPT ![Down(j - 1)] = Tail(@), ![Down(j)] = Append(@, e)]
  BY <1>2 DEF TakeAndPut
<1>5. /\ Connected' /\ Height' = Height
      /\ queues'[Down(j - 1)] = Tail(queues[Down(j - 1)])
      /\ queues'[Down(j)] = Append(queues[Down(j)], e)
      /\ \A x \in 1 .. Len(queues) : x \notin {Down(j), Down(j - 1)} => queues'[x] = queues[x]
  <2>1. PICK q, r : q = Down(j - 1) /\ r = Down(j)
    OBVIOUS
  <2>2. /\ q \in 5 .. Len(queues) /\ r \in 5 .. Len(queues) /\ q # r /\ queues[q] # << >>
        /\ queues' = [queues EXCEPT ![q] = Tail(@), ![r] = Append(@, e)]
    BY <1>3, <1>4, <2>1
  <2>3. /\ Connected' /\ Height' = Height
        /\ queues'[q] = Tail(queues[q]) /\ queues'[r] = Append(queues[r], e)
        /\ \A x \in 1 .. Len(queues) : x \notin {q, r} => queues'[x] = queues[x]
    BY <2>2, Moved
  <2> QED  BY <2>1, <2>3
<1>6. \A i \in Links : /\ i \notin {j, j - 1} => Down(i) \notin {Down(j), Down(j - 1)}
                       /\ Up(i) \notin {Down(j), Down(j - 1)}
  BY <1>1, Tall
<1>7. \A i \in Links : Up(i) \in 1 .. Len(queues) /\ Down(i) \in 1 .. Len(queues)
  BY Tall
<1> QED  BY <1>5, <1>6, <1>7

(* Steps that leave one of the ways alone. *)
LEMMA UpKept ==
    ASSUME NEW c, Connected, OnBus, WayUp(c),
           UNCHANGED <<layers, ports, encoder, handed, arrived>>,
           from_bus'[Node] = from_bus[Node], given \subseteq given',
           \A i \in Links : queues'[Up(i)] = queues[Up(i)],
           pc[c] = "idle" <=> pc'[c] = "idle",
           pc[c] # "idle" => addr'[c] = addr[c] /\ packet' = packet
    PROVE  WayUp(c)'
<1>1. PICK u : UpOrder(c, u) /\ UpRight(c, u)
  BY DEF WayUp
<1>2. UpOrder(c, u)' /\ UpRight(c, u)'
  BY <1>1, UpStays
<1> QED  BY <1>2 DEF WayUp

LEMMA DownCounts ==
    ASSUME NEW d, Connected, DownOrder(d)
    PROVE  Height \in 1 .. Height /\ d[Height] \in Nat
<1>1. Height \in 1 .. Height
  BY Tall
<1> QED  BY <1>1 DEF DownOrder

LEMMA NoMore ==
    ASSUME NEW s, IsSeq(s)
    PROVE  More(s, s)
BY SeqDomain DEF More

(* The datagrams of the node that the peers have got stay what they are. *)
GotStays ==
    \A a \in Addresses : /\ FromNode(a)' = FromNode(a)
                         /\ \A i \in FromNode(a) : from_bus'[a][i] = from_bus[a][i]

LEMMA DownKept ==
    ASSUME Connected, OnBus, WayDown,
           UNCHANGED <<layers, ports, encoder, wanted>>,
           to_bus'[Node] = to_bus[Node], given \subseteq given',
           \A i \in Links : queues'[Down(i)] = queues[Down(i)], GotStays
    PROVE  WayDown'
<1>1. PICK d, h : DownOrder(d) /\ DownRight(d) /\ h = d[Height] /\ OnWire(h)
  BY DEF WayDown
<1>2. DownOrder(d)' /\ DownRight(d)' /\ Height' = Height
  BY <1>1, DownStays
<1>3. h \in Nat /\ h <= h
  BY <1>1, DownCounts
<1>4. More(wanted, wanted')
  BY NoMore DEF OnBus
<1>5. OnWire(h)'
  BY <1>1, <1>3, <1>4, WireStays DEF GotStays
<1>6. \A k \in 1 .. Len(wanted') : \E a \in Addresses : <<a, wanted'[k][1]>> \in given'
  BY DEF WayDown
<1> QED  BY <1>1, <1>2, <1>5, <1>6 DEF WayDown

(* The step of the ways that takes an item past layer j. *)
LEMMA WayUpPassed ==
    ASSUME NEW c, Connected, OnBus, WayUp(c),
           UNCHANGED <<layers, ports, encoder, handed, given, arrived, pc, addr, packet, from_bus>>,
           NEW j \in 2 .. Height - 1, queues[Up(j)] # << >>, NEW e,
           \A n : Fits(arrived, given, encoder, n, Head(queues[Up(j)]), Form(j))
                     => Fits(arrived, given, encoder, n, e, Form(j - 1)),
           queues' = TakeAndPut(layers[j], "from_lower", "to_higher", e)
    PROVE  Connected' /\ WayUp(c)' /\ \A i \in Links : queues'[Down(i)] = queues[Down(i)]
<1>1. PICK u : UpOrder(c, u) /\ UpRight(c, u)
  BY DEF WayUp
<1>2. /\ Connected'
      /\ queues'[Up(j)] = Tail(queues[Up(j)])
      /\ queues'[Up(j - 1)] = Append(queues[Up(j - 1)], e)
      /\ \A i \in Links : i \notin {j, j - 1} => queues'[Up(i)] = queues[Up(i)]
      /\ \A i \in Links : queues'[Down(i)] = queues[Down(i)]
  BY GoesUp
<1>3. \E v : UpOrder(c, v)' /\ UpRight(c, v)'
  BY <1>1, <1>2, UpPassed
<1> QED  BY <1>2, <1>3 DEF WayUp

LEMMA WayDownPassed ==
    ASSUME Connected, OnBus, WayDown,
           UNCHANGED <<layers, ports, encoder, wanted, given, to_bus, from_bus>>,
           NEW j \in 2 .. Height - 1, queues[Down(j - 1)] # << >>, NEW e,
           \A n : Sent(wanted, encoder, n, Head(queues[Down(j - 1)]), Form(j - 1))
                     => Sent(wanted, encoder, n, e, Form(j)),
           queues' = TakeAndPut(layers[j], "from_higher", "to_lower", e)
    PROVE  Connected' /\ WayDown' /\ \A i \in Links : queues'[Up(i)] = queues[Up(i)]
<1>1. PICK d, h : DownOrder(d) /\ DownRight(d) /\ h = d[Height] /\ OnWire(h)
  BY DEF WayDown
<1>2. /\ Connected'
      /\ queues'[Down(j - 1)] = Tail(queues[Down(j - 1)])
      /\ queues'[Down(j)] = Append(queues[Down(j)], e)
      /\ \A i \in Links : i \notin {j, j - 1} => queues'[Down(i)] = queues[Down(i)]
      /\ \A i \in Links : queues'[Up(i)] = queues[Up(i)]
  BY GoesDown
<1>3. PICK v : /\ DownOrder(v)' /\ DownRight(v)' /\ Height' = Height
               /\ v[Height] = d[Height] /\ v[Height] \in Nat
  <2>1. MovesDown(j, e)
    BY <1>2 DEF MovesDown
  <2> QED  BY <1>1, <2>1, DownPassed
<1>4. More(wanted, wanted')
  BY NoMore DEF OnBus
<1>5. GotStays
  BY DEF GotStays, FromNode
<1>6. h \in Nat /\ h <= h
  BY <1>1, <1>3
<1>8. OnWire(h)'
  BY <1>1, <1>4, <1>5, <1>6, WireStays DEF GotStays
<1>9. \A k \in 1 .. Len(wanted') : \E a \in Addresses : <<a, wanted'[k][1]>> \in given'
  BY DEF WayDown
<1>10. WayDown'
  BY <1>1, <1>3, <1>8, <1>9 DEF WayDown
<1> QED  BY <1>2, <1>10

(* The inductive invariant of the link stack, for a link layer c.          *)
StackInv(c) ==
    /\ Connected /\ Unstarted /\ OnBus /\ Quiet(c)
    /\ IInv(c) /\ WayUp(c) /\ WayDown

(* What the face table knows of a call does not change elsewhere.          *)
LEMMA TableKept ==
    ASSUME NEW c, Callers = {c}, IInv(c), UNCHANGED vars
    PROVE  IInv(c)' /\ given' = given /\ pc' = pc /\ addr' = addr
<1>1. IInv(c)'
  BY StepInvariant
<1> QED  BY <1>1 DEF vars, history

(* A layer between two others at its work. *)
LEMMA LayerUp ==
    ASSUME NEW c, Callers = {c}, StackInv(c), started,
           UNCHANGED <<vars, stack, encoder, network, packet, told>>,
           NEW j \in 2 .. Height - 1, queues[Up(j)] # << >>, NEW e,
           \A n : Fits(arrived, given, encoder, n, Head(queues[Up(j)]), Form(j))
                     => Fits(arrived, given, encoder, n, e, Form(j - 1)),
           queues' = TakeAndPut(layers[j], "from_lower", "to_higher", e)
    PROVE  StackInv(c)'
<1>1. IInv(c)' /\ given' = given /\ pc' = pc /\ addr' = addr
  BY TableKept DEF StackInv
<1>2. UNCHANGED <<layers, ports, started, to_bus, from_bus, arrived, handed, wanted>>
  BY DEF stack, network, told
<1>3. Connected' /\ WayUp(c)' /\ \A i \in Links : queues'[Down(i)] = queues[Down(i)]
  <2>1. Connected /\ OnBus /\ WayUp(c)
    BY DEF StackInv
  <2> QED  BY <1>1, <1>2, <2>1, WayUpPassed
<1>4. OnBus'
  BY <1>2 DEF StackInv, OnBus
<1>5. GotStays
  BY <1>2 DEF GotStays, FromNode
<1>6. WayDown'
  BY <1>1, <1>2, <1>3, <1>5, DownKept DEF StackInv
<1>7. Unstarted' /\ Quiet(c)'
  BY <1>2 DEF Unstarted, Quiet
<1> QED  BY <1>1, <1>3, <1>4, <1>6, <1>7 DEF StackInv

LEMMA LayerDown ==
    ASSUME NEW c, Callers = {c}, StackInv(c), started,
           UNCHANGED <<vars, stack, encoder, network, packet, told>>,
           NEW j \in 2 .. Height - 1, queues[Down(j - 1)] # << >>, NEW e,
           \A n : Sent(wanted, encoder, n, Head(queues[Down(j - 1)]), Form(j - 1))
                     => Sent(wanted, encoder, n, e, Form(j)),
           queues' = TakeAndPut(layers[j], "from_higher", "to_lower", e)
    PROVE  StackInv(c)'
<1>1. IInv(c)' /\ given' = given /\ pc' = pc /\ addr' = addr
  BY TableKept DEF StackInv
<1>2. UNCHANGED <<layers, ports, started, to_bus, from_bus, arrived, handed, wanted>>
  BY DEF stack, network, told
<1>3. Connected' /\ WayDown' /\ \A i \in Links : queues'[Up(i)] = queues[Up(i)]
  <2>1. Connected /\ OnBus /\ WayDown
    BY DEF StackInv
  <2> QED  BY <1>1, <1>2, <2>1, WayDownPassed
<1>4. OnBus'
  BY <1>2 DEF StackInv, OnBus
<1>6. WayUp(c)'
  BY <1>1, <1>2, <1>3, UpKept DEF StackInv
<1>7. Unstarted' /\ Quiet(c)'
  BY <1>2 DEF Unstarted, Quiet
<1> QED  BY <1>1, <1>3, <1>4, <1>6, <1>7 DEF StackInv

(* Where the layers that pass packets on stand. *)
LEMMA Place ==
    ASSUME Connected, NEW l \in Passers \cup {"encoding"}, Contains(layers, l)
    PROVE  \E j \in 2 .. Height - 1 :
              /\ l = layers[j] /\ (l = "encoding" <=> j = Height - 1)
              /\ ports[l].from_lower = Up(j) /\ ports[l].from_higher = Down(j - 1)
<1>1. PICK j \in 1 .. Height : l = layers[j]
  BY Tall DEF Contains
<1>2. l \notin {"icn", "link"}
  BY DEF Passers
<1>3. /\ Height \in Nat /\ Height >= 3 /\ layers[1] = "icn"
      /\ layers[Height - 1] = "encoding" /\ layers[Height] = "link"
      /\ \A i, k \in 1 .. Height : layers[i] = layers[k] => i = k
  BY Tall
<1>4. j \in 2 .. Height - 1
  BY <1>1, <1>2, <1>3
<1>5. l = "encoding" <=> j = Height - 1
  <2>1. Height - 1 \in 1 .. Height
    BY <1>3
  <2> QED  BY <1>1, <1>3, <2>1
<1>6. j - 1 \in Links /\ (j - 1) + 1 = j
  BY <1>4, Tall
<1>7. ports[l].from_lower = Up(j) /\ ports[l].from_higher = Down(j - 1)
  BY <1>1, <1>6 DEF Up, Connected, Linked
<1> QED  BY <1>1, <1>4, <1>5, <1>7

LEMMA PassingKeeps ==
    ASSUME NEW c, Callers = {c}, StackInv(c), NEW l \in Passers, Passing(l)
    PROVE  StackInv(c)'
<1>1. /\ started /\ Contains(layers, l)
      /\ UNCHANGED <<vars, stack, encoder, network, packet, told>>
  BY DEF Passing, PassUp, PassDown, HasData
<1>2. PICK j \in 2 .. Height - 1 :
          /\ l = layers[j] /\ (l = "encoding" <=> j = Height - 1)
          /\ ports[l].from_lower = Up(j) /\ ports[l].from_higher = Down(j - 1)
  BY <1>1, Place DEF StackInv
<1>3. Form(j) = "packet" /\ Form(j - 1) = "packet"
  <2>1. Height \in Nat /\ j \in Nat /\ l # "encoding"
    BY Tall DEF StackInv, Passers
  <2>2. j # Height - 1 /\ j - 1 # Height - 1
    BY <1>2, <2>1
  <2> QED  BY <2>2 DEF Form
<1>4. CASE PassUp(l)
  <2>1. /\ queues[Up(j)] # << >>
        /\ queues' = TakeAndPut(layers[j], "from_lower", "to_higher", Head(queues[Up(j)]))
    BY <1>2, <1>4 DEF PassUp, HasData, Data
  <2> QED  BY <1>1, <1>3, <2>1, LayerUp
<1>5. CASE PassDown(l)
  <2>1. /\ queues[Down(j - 1)] # << >>
        /\ queues' = TakeAndPut(layers[j], "from_higher", "to_lower", Head(queues[Down(j - 1)]))
    BY <1>2, <1>5 DEF PassDown, HasData, Data
  <2> QED  BY <1>1, <1>3, <2>1, LayerDown
<1> QED  BY <1>4, <1>5 DEF Passing

(* The encoding layer decodes what comes and encodes what goes. *)
LEMMA EncodingKeeps ==
    ASSUME NEW c, Callers = {c}, StackInv(c), EncodingLayer
    PROVE  StackInv(c)'
<1>1. /\ started /\ Contains(layers, "encoding")
      /\ UNCHANGED <<vars, stack, encoder, network, packet, told>>
  BY DEF EncodingLayer, HasData
<1>2. PICK j \in 2 .. Height - 1 :
          /\ "encoding" = layers[j] /\ j = Height - 1
          /\ ports["encoding"].from_lower = Up(j) /\ ports["encoding"].from_higher = Down(j - 1)
  BY <1>1, Place DEF StackInv
<1>3. Form(j) = "wire" /\ Form(j - 1) = "packet"
  <2>1. Height \in Nat /\ j \in Nat
    BY Tall DEF StackInv
  <2>2. j - 1 # Height - 1
    BY <1>2, <2>1
  <2> QED  BY <1>2, <2>2 DEF Form
<1>4. CASE HasData("encoding", "from_lower") /\
           queues' = TakeAndPut("encoding", "from_lower", "to_higher",
                         <<Data("encoding", "from_lower")[1],
                           Decoded(encoder, Data("encoding", "from_lower")[2])>>)
  <2>1. PICK x : x = Head(queues[Up(j)])
    OBVIOUS
  <2>2. PICK e : e = <<x[1], Decoded(encoder, x[2])>>
    OBVIOUS
  <2>3. /\ queues[Up(j)] # << >>
        /\ queues' = TakeAndPut(layers[j], "from_lower", "to_higher", e)
    BY <1>2, <1>4, <2>1, <2>2 DEF HasData, Data
  <2>4. e[1] = x[1] /\ e[2] = Decoded(encoder, x[2])
    BY <2>2
  <2>5. \A n : Fits(arrived, given, encoder, n, Head(queues[Up(j)]), Form(j))
                  => Fits(arrived, given, encoder, n, e, Form(j - 1))
    BY <1>3, <2>1, <2>4 DEF Fits, Stands
  <2> QED  BY <1>1, <2>3, <2>5, LayerUp
<1>5. CASE HasData("encoding", "from_higher") /\
           queues' = TakeAndPut("encoding", "from_higher", "to_lower",
                         <<Data("encoding", "from_higher")[1],
                           Encoded(encoder, Data("encoding", "from_higher")[2])>>)
  <2>1. PICK x : x = Head(queues[Down(j - 1)])
    OBVIOUS
  <2>2. PICK e : e = <<x[1], Encoded(encoder, x[2])>>
    OBVIOUS
  <2>3. /\ queues[Down(j - 1)] # << >>
        /\ queues' = TakeAndPut(layers[j], "from_higher", "to_lower", e)
    BY <1>2, <1>5, <2>1, <2>2 DEF HasData, Data
  <2>4. e[1] = x[1] /\ e[2] = Encoded(encoder, x[2])
    BY <2>2
  <2>5. \A n : Sent(wanted, encoder, n, Head(queues[Down(j - 1)]), Form(j - 1))
                  => Sent(wanted, encoder, n, e, Form(j))
    BY <1>3, <2>1, <2>4 DEF Sent
  <2> QED  BY <1>1, <2>3, <2>5, LayerDown
<1> QED  BY <1>4, <1>5 DEF EncodingLayer

(* Connections do not change when no queue does. *)
LEMMA ConnectedSame ==
    ASSUME Connected, UNCHANGED <<layers, ports, queues>>
    PROVE  Connected'
<1>1. Height' = Height /\ Links' = Links /\ \A i : Up(i)' = Up(i) /\ Down(i)' = Down(i)
  BY DEF Height, Links, Up, Down
<1> QED  BY <1>1 DEF Connected, Ordered, Linked, Used

(* What the bus gives the node comes from a peer. *)
LEMMA ReceivesFromPeer ==
    ASSUME NEW c, Callers = {c}, StackInv(c), LinkReceive(c)
    PROVE  Head(from_bus[Node])[1] \in Addresses
<1>1. PICK u : UpOrder(c, u) /\ UpRight(c, u)
  BY DEF StackInv, WayUp
<1>2. PICK x : x = Head(from_bus[Node])
  OBVIOUS
<1>3. pc[c] = "idle" /\ from_bus[Node] # << >>
  BY DEF LinkReceive, Waiting
<1>4. IsSeq(from_bus[Node])
  BY DEF StackInv, OnBus, Interfaces
<1>5. Height \in 1 .. Height /\ Height \in Nat
  BY Tall DEF StackInv
<1>6. u[Height] \in Nat /\ Handling(c) = 0 /\ u[Height] + 0 = u[Height]
  BY <1>1, <1>3, <1>5 DEF UpOrder, Handling
<1>7. AllCame(arrived, encoder, u[Height], from_bus[Node])
  BY <1>1, <1>6 DEF UpRight
<1>8. Came(arrived, encoder, u[Height] + 1, x[1], x[2])
  BY <1>2, <1>3, <1>4, <1>6, <1>7, CameTail
<1> QED  BY <1>2, <1>8 DEF Came

(* The link layer takes a datagram and calls the face table. *)
LEMMA ReceiveKeeps ==
    ASSUME NEW c, Callers = {c}, StackInv(c), LinkReceive(c)
    PROVE  StackInv(c)'
<1>1. PICK u : UpOrder(c, u) /\ UpRight(c, u)
  BY DEF StackInv, WayUp
<1>2. PICK x : x = Head(from_bus[Node])
  OBVIOUS
<1>3. /\ started /\ pc[c] = "idle" /\ from_bus[Node] # << >> /\ Call(c, x[1])
      /\ packet' = x[2] /\ from_bus' = [from_bus EXCEPT ![Node] = Tail(@)]
      /\ UNCHANGED <<layers, ports, started, queues, encoder, to_bus, arrived, handed, wanted>>
  BY <1>2 DEF LinkReceive, Waiting, stack, told
<1>4. /\ Node \in Interfaces /\ IsSeq(from_bus[Node]) /\ DOMAIN from_bus = Interfaces
      /\ \A a \in Addresses : a # Node /\ a \in Interfaces
  BY LinkStackAssumption DEF StackInv, OnBus, Interfaces
<1>5. x[1] \in Addresses
  BY <1>2, ReceivesFromPeer
<1>6. IInv(c)'
  <2>1. [Next]_vars
    BY <1>3, <1>5 DEF Next, Step
  <2> QED  BY <2>1, StepInvariant DEF StackInv
<1>7. given' = given /\ pc'[c] = "lookup" /\ addr'[c] = x[1]
  BY <1>3 DEF Call, Goto, history, StackInv, IInv, TypeOK
<1>8. /\ from_bus'[Node] = Tail(from_bus[Node]) /\ DOMAIN from_bus' = Interfaces
      /\ \A a \in Addresses : from_bus'[a] = from_bus[a]
  BY <1>3, <1>4
<1>9. Connected'
  BY <1>3, ConnectedSame DEF StackInv
<1>10. WayUp(c)'
  <2>1. Connected /\ OnBus
    BY DEF StackInv
  <2>2. UpOrder(c, u)' /\ UpRight(c, u)'
    BY <1>1, <1>2, <1>3, <1>7, <1>8, <2>1, UpReceived
  <2> QED  BY <2>2 DEF WayUp
<1>11. OnBus'
  <2>1. \A a \in Interfaces : IsSeq(from_bus'[a])
    <3>1. IsSeq(Tail(from_bus[Node]))
      BY <1>3, <1>4, AfterTail
    <3> QED  BY <1>4, <1>8, <3>1 DEF StackInv, OnBus, Interfaces
  <2> QED  BY <1>3, <1>8, <2>1 DEF StackInv, OnBus
<1>12. WayDown'
  <2>1. GotStays
    BY <1>8 DEF GotStays, FromNode
  <2>2. \A i \in Links : queues'[Down(i)] = queues[Down(i)]
    BY <1>3
  <2>3. Connected /\ OnBus /\ WayDown
    BY DEF StackInv
  <2> QED  BY <1>3, <1>7, <2>1, <2>2, <2>3, DownKept
<1>13. Unstarted' /\ Quiet(c)'
  BY <1>3 DEF Unstarted, Quiet
<1> QED  BY <1>6, <1>9, <1>10, <1>11, <1>12, <1>13 DEF StackInv

(* A statement of get_or_create_faceid that does not return. *)
LEMMA LooksUpKeeps ==
    ASSUME NEW c, Callers = {c}, StackInv(c), LinkLooksUp(c)
    PROVE  StackInv(c)'
<1>1. UNCHANGED <<layers, ports, started, queues, encoder, to_bus, from_bus, packet,
                  arrived, handed, wanted>>
  BY DEF LinkLooksUp, stack, network, told
<1>2. IInv(c)'
  <2>1. [Next]_vars
    BY DEF LinkLooksUp, TableStep, Next, Step
  <2> QED  BY <2>1, StepInvariant DEF StackInv
<1>3. pc[c] # "idle" /\ pc'[c] # "idle" /\ addr' = addr /\ given' = given
  <2>1. pc \in [Callers -> Labels] /\ c \in Callers
    BY DEF StackInv, IInv, TypeOK
  <2>2. CASE Lookup(c) /\ pc'[c] = "evict"
    <3>1. given' = given
      <4>1. pc'[c] # "idle"
        BY <2>2
      <4> QED  BY <2>1, <2>2, <4>1 DEF Lookup, Goto
    <3> QED  BY <2>2, <3>1 DEF Lookup
  <2>3. CASE TableStep(c)
    <3>1. addr' = addr /\ given' = given
      BY <2>3 DEF TableStep, RemoveOldest, FindOldest, DelFace, DelAddr, DelId, LoadCounter,
         StoreCounter, AddArgument, TestAbsent, PutFace, PutAddr, PutId, history
    <3>2. pc[c] # "idle" /\ pc'[c] # "idle"
      BY <2>1, <2>3 DEF TableStep, RemoveOldest, FindOldest, DelFace, DelAddr, DelId, LoadCounter,
         StoreCounter, AddArgument, TestAbsent, PutFace, PutAddr, PutId, Goto
    <3> QED  BY <3>1, <3>2
  <2> QED  BY <2>2, <2>3 DEF LinkLooksUp
<1>4. started /\ started'
  BY <1>1, <1>3 DEF StackInv, Quiet
<1>5. Connected'
  BY <1>1, ConnectedSame DEF StackInv
<1>6. OnBus'
  BY <1>1 DEF StackInv, OnBus
<1>7. WayUp(c)'
  <2>1. Connected /\ OnBus /\ WayUp(c)
    BY DEF StackInv
  <2> QED  BY <1>1, <1>3, <2>1, UpKept
<1>8. WayDown'
  <2>1. GotStays
    BY <1>1 DEF GotStays, FromNode
  <2>2. Connected /\ OnBus /\ WayDown
    BY DEF StackInv
  <2> QED  BY <1>1, <1>3, <2>1, <2>2, DownKept
<1> QED  BY <1>2, <1>4, <1>5, <1>6, <1>7, <1>8 DEF StackInv, Unstarted, Quiet

(* The call returns a face, and the link layer hands the datagram up. *)
LEMMA HandsUpKeeps ==
    ASSUME NEW c, Callers = {c}, StackInv(c), LinkHandsUp(c)
    PROVE  StackInv(c)'
<1>1. UNCHANGED <<layers, ports, started, encoder, to_bus, from_bus, arrived, handed, wanted>>
  BY DEF LinkHandsUp, stack, network, told
<1>2. IInv(c)'
  <2>1. [Next]_vars
    BY DEF LinkHandsUp, Next, Step
  <2> QED  BY <2>1, StepInvariant DEF StackInv
<1>3. PICK face : /\ queues' = Put("link", "to_higher", <<face, packet>>)
                  /\ pc[c] # "idle" /\ pc'[c] = "idle"
                  /\ given \subseteq given' /\ <<addr[c], face>> \in given'
  <2>1. pc \in [Callers -> Labels] /\ c \in Callers
    BY DEF StackInv, IInv, TypeOK
  <2>2. CASE /\ Lookup(c) /\ pc'[c] = "idle"
             /\ queues' = Put("link", "to_higher", <<addrinfo_to_faceid[addr[c]], packet>>)
    <3>1. addrinfo_to_faceid[addr[c]] # None
      BY <2>1, <2>2 DEF Lookup, Goto
    <3>2. given' = given \cup {<<addr[c], addrinfo_to_faceid[addr[c]]>>} /\ pc[c] = "lookup"
      BY <2>2, <3>1 DEF Lookup
    <3> QED  BY <2>2, <3>2
  <2>3. CASE Return(c) /\ queues' = Put("link", "to_higher", <<next_face_id, packet>>)
    <3>1. /\ given' = given \cup {<<addr[c], next_face_id>>}
          /\ pc[c] = "return" /\ pc'[c] = "idle"
      BY <2>1, <2>3 DEF Return, Goto
    <3> QED  BY <2>3, <3>1
  <2> QED  BY <2>2, <2>3 DEF LinkHandsUp
<1>4. started /\ started'
  BY <1>1, <1>3 DEF StackInv, Quiet
<1>5. Height - 1 \in Links /\ (Height - 1) + 1 = Height /\ layers[Height] = "link"
  BY Tall DEF StackInv
<1>6. ports["link"].to_higher = Up(Height - 1)
  BY <1>5 DEF StackInv, Connected, Linked
<1>7. /\ Connected' /\ Height' = Height
      /\ queues'[Up(Height - 1)] = Append(queues[Up(Height - 1)], <<face, packet>>)
      /\ \A i \in Links : i # Height - 1 => queues'[Up(i)] = queues[Up(i)]
      /\ \A i \in Links : queues'[Down(i)] = queues[Down(i)]
  <2>1. PICK q, e : q = Up(Height - 1) /\ e = <<face, packet>>
    OBVIOUS
  <2>2. Connected /\ q \in 5 .. Len(queues) /\ UNCHANGED <<layers, ports>>
    BY <1>1, <1>5, <2>1, Tall DEF StackInv
  <2>3. queues' = [queues EXCEPT ![q] = Append(@, e)]
    BY <1>3, <1>6, <2>1 DEF Put
  <2>4. /\ Connected' /\ Height' = Height /\ queues'[q] = Append(queues[q], e)
        /\ \A x \in 1 .. Len(queues) : x # q => queues'[x] = queues[x]
    BY <2>2, <2>3, Added
  <2>5. \A i \in Links : /\ Up(i) \in 1 .. Len(queues) /\ Down(i) \in 1 .. Len(queues)
                         /\ i # Height - 1 => Up(i) # q
                         /\ Down(i) # q
    BY <1>5, <2>1, <2>2, Tall
  <2> QED  BY <2>1, <2>4, <2>5
<1>8. OnBus'
  BY <1>1 DEF StackInv, OnBus
<1>9. WayUp(c)'
  <2>1. Connected /\ OnBus
    BY DEF StackInv
  <2>2. PICK u : UpOrder(c, u) /\ UpRight(c, u)
    BY DEF StackInv, WayUp
  <2>3. \E v : UpOrder(c, v)' /\ UpRight(c, v)'
    BY <1>1, <1>3, <1>7, <2>1, <2>2, UpHanded
  <2> QED  BY <2>3 DEF WayUp
<1>10. WayDown'
  <2>1. GotStays
    BY <1>1 DEF GotStays, FromNode
  <2>2. Connected /\ OnBus /\ WayDown
    BY DEF StackInv
  <2> QED  BY <1>1, <1>3, <1>7, <2>1, <2>2, DownKept
<1> QED  BY <1>2, <1>4, <1>7, <1>8, <1>9, <1>10 DEF StackInv, Unstarted, Quiet

(* The link layer sends to the address of the face, if it has one still.   *)
LEMMA SendKeeps ==
    ASSUME NEW c, Callers = {c}, StackInv(c), LinkSend(c)
    PROVE  StackInv(c)'
<1>1. UNCHANGED <<layers, ports, started, encoder, from_bus, arrived, handed, wanted, packet>>
  BY DEF LinkSend, stack, told
<1>2. IInv(c)' /\ given' = given /\ pc' = pc /\ addr' = addr
  BY TableKept DEF StackInv, LinkSend
<1>3. Height - 1 \in Links /\ (Height - 1) + 1 = Height /\ layers[Height] = "link"
  BY Tall DEF StackInv
<1>4. ports["link"].from_higher = Down(Height - 1)
  BY <1>3 DEF StackInv, Connected, Linked
<1>5. PICK x : x = Head(queues[Down(Height - 1)])
  OBVIOUS
<1>6. PICK address : address = faceid_to_addrinfo[x[1]]
  OBVIOUS
<1>7. /\ started /\ queues[Down(Height - 1)] # << >>
      /\ queues' = Take("link", "from_higher")
      /\ to_bus' = IF address = None THEN to_bus
                   ELSE [to_bus EXCEPT ![Node] = Append(@, <<address, x[2], Unmeant>>)]
  BY <1>4, <1>5, <1>6 DEF LinkSend, Waiting, HasData, Data, AddressInfo
<1>8. /\ Connected' /\ Height' = Height
      /\ queues'[Down(Height - 1)] = Tail(queues[Down(Height - 1)])
      /\ \A i \in Links : i # Height - 1 => queues'[Down(i)] = queues[Down(i)]
      /\ \A i \in Links : queues'[Up(i)] = queues[Up(i)]
  <2>1. PICK q : q = Down(Height - 1)
    OBVIOUS
  <2>2. Connected /\ q \in 5 .. Len(queues) /\ queues[q] # << >> /\ UNCHANGED <<layers, ports>>
    BY <1>1, <1>3, <1>7, <2>1, Tall DEF StackInv
  <2>3. queues' = [queues EXCEPT ![q] = Tail(@)]
    BY <1>4, <1>7, <2>1 DEF Take
  <2>4. /\ Connected' /\ Height' = Height /\ queues'[q] = Tail(queues[q])
        /\ \A y \in 1 .. Len(queues) : y # q => queues'[y] = queues[y]
    BY <2>2, <2>3, Taken
  <2>5. \A i \in Links : /\ Up(i) \in 1 .. Len(queues) /\ Down(i) \in 1 .. Len(queues)
                         /\ i # Height - 1 => Down(i) # q
                         /\ Up(i) # q
    BY <1>3, <2>1, <2>2, Tall
  <2> QED  BY <2>1, <2>4, <2>5
<1>9. PICK d, h : DownOrder(d) /\ DownRight(d) /\ h = d[Height] /\ OnWire(h)
  BY DEF StackInv, WayDown
<1>10. PICK v : /\ DownOrder(v)' /\ DownRight(v)' /\ v[Height] = h + 1 /\ h \in Nat
                /\ Sent(wanted, encoder, h + 1, x, "wire")
  <2>1. Connected /\ DownOrder(d) /\ DownRight(d)
    BY <1>9 DEF StackInv
  <2> QED  BY <1>1, <1>5, <1>7, <1>8, <1>9, <2>1, DownSent
<1>11. h + 1 \in 1 .. Len(wanted) /\ wanted[h + 1][1] = x[1]
       /\ wanted[h + 1][2] = Meaning(Decoded(encoder, x[2]))
  BY <1>10 DEF Sent
<1>12. PICK a \in Addresses : <<a, x[1]>> \in given
  BY <1>11 DEF StackInv, WayDown
<1>13. address \in {a, None} /\ None \notin Addresses
  <2>1. <<a, x[1]>>[1] = a /\ <<a, x[1]>>[2] = x[1]
    OBVIOUS
  <2>2. faceid_to_addrinfo[x[1]] \in {a, None}
    BY <1>12, <2>1 DEF StackInv, IInv, Past, GivenFaceLeadsBack
  <2> QED  BY <1>6, <2>2, FaceTableAssumption
<1>14. IsSeq(wanted) /\ IsSeq(to_bus[Node]) /\ Node \in Interfaces /\ DOMAIN to_bus = Interfaces
       /\ \A b \in Addresses : b # Node
  BY LinkStackAssumption DEF StackInv, OnBus, Interfaces
<1>15. GotStays
  BY <1>1 DEF GotStays, FromNode
<1>16. OnWire(h + 1)' /\ OnBus'
  <2>1. CASE address = None
    <3>1. to_bus' = to_bus
      BY <1>7, <2>1
    <3>2. h + 1 \in Nat /\ h <= h + 1 /\ More(wanted, wanted')
      BY <1>1, <1>10, <1>14, NoMore
    <3>3. OnWire(h + 1)'
      BY <1>1, <1>2, <1>9, <1>10, <1>15, <3>1, <3>2, WireStays DEF GotStays
    <3> QED  BY <1>1, <3>1, <3>3 DEF StackInv, OnBus
  <2>2. CASE address # None
    <3>1. PICK e : e = <<a, x[2], Unmeant>>
      OBVIOUS
    <3>2. e[1] = a
      BY <3>1
    <3>3. /\ to_bus'[Node] = Append(to_bus[Node], e) /\ DOMAIN to_bus' = Interfaces
          /\ \A b \in Addresses : to_bus'[b] = to_bus[b]
      BY <1>7, <1>13, <1>14, <2>2, <3>1
    <3>4. Serves(wanted, given, encoder, h + 1, a, x[2])
      BY <1>11, <1>12 DEF Serves
    <3>5. OnWire(h + 1)'
      BY <1>1, <1>2, <1>9, <1>10, <1>14, <3>1, <3>3, <3>4, WireSent
    <3>6. /\ IsSeq(to_bus'[Node]) /\ Len(to_bus[Node]) \in Nat
          /\ Len(to_bus'[Node]) = Len(to_bus[Node]) + 1
          /\ to_bus'[Node][Len(to_bus[Node]) + 1] = e
          /\ \A k \in 1 .. Len(to_bus[Node]) : to_bus'[Node][k] = to_bus[Node][k]
      BY <1>14, <3>3, AfterAppend
    <3>7. \A k \in 1 .. Len(to_bus'[Node]) : to_bus'[Node][k][1] \in Addresses
      <4>1. \A k \in 1 .. Len(to_bus[Node]) + 1 :
               k \in 1 .. Len(to_bus[Node]) \/ k = Len(to_bus[Node]) + 1
        BY <3>6
      <4>2. \A k \in 1 .. Len(to_bus[Node]) : to_bus[Node][k][1] \in Addresses
        BY DEF StackInv, OnBus
      <4> QED  BY <3>2, <3>6, <4>1, <4>2
    <3>8. \A b \in Interfaces : IsSeq(to_bus'[b])
      BY <3>3, <3>6 DEF StackInv, OnBus, Interfaces
    <3>9. OnBus'
      <4>1. \A b \in Addresses : \A k \in 1 .. Len(to_bus'[b]) : to_bus'[b][k][1] = Node =>
               Stands(encoder, to_bus'[b][k][3], to_bus'[b][k][2], "wire")
        BY <3>3 DEF StackInv, OnBus
      <4> QED  BY <1>1, <3>3, <3>7, <3>8, <4>1 DEF StackInv, OnBus
    <3> QED  BY <3>5, <3>9
  <2> QED  BY <2>1, <2>2
<1>17. WayDown'
  <2>1. \A k \in 1 .. Len(wanted') : \E b \in Addresses : <<b, wanted'[k][1]>> \in given'
    BY <1>1, <1>2 DEF StackInv, WayDown
  <2> QED  BY <1>8, <1>10, <1>16, <2>1 DEF WayDown
<1>18. WayUp(c)'
  <2>1. Connected /\ OnBus /\ WayUp(c)
    BY DEF StackInv
  <2> QED  BY <1>1, <1>2, <1>8, <2>1, UpKept
<1>19. Unstarted' /\ Quiet(c)'
  BY <1>1, <1>7 DEF Unstarted, Quiet
<1> QED  BY <1>2, <1>8, <1>16, <1>17, <1>18, <1>19 DEF StackInv

(* What the ICN layer sends is legible, and to a face that was given.      *)
LEMMA AnswerFits ==
    ASSUME AnswersLegible, AllFit(arrived, given, encoder, 0, handed, "packet"),
           IsSeq(handed), NEW x, NEW n, Fits(arrived, given, encoder, n, x, "packet"),
           NEW a \in Answers(x[1], x[2])
    PROVE  /\ Legible(encoder, a[2])
           /\ \E b \in Addresses : <<b, a[1]>> \in given
<1> DEFINE faces == {h[1] : h \in ToSet(handed)}
<1>0. PICK s \in Scenes : \E p \in ForNode(s) :
          s.encoder = encoder /\ x[2] = Decoded(encoder, Encoded(encoder, p))
  BY DEF Fits, Stands
<1>1. PICK p \in ForNode(s) :
          s.encoder = encoder /\ x[2] = Decoded(encoder, Encoded(encoder, p))
  BY <1>0
<1>2. \A r \in Sendable(x[2]) : Legible(encoder, r)
  BY <1>1 DEF AnswersLegible
<1>3. \E b \in Addresses : <<b, x[1]>> \in given
  BY DEF Fits
<1>4. ASSUME NEW f \in faces PROVE \E b \in Addresses : <<b, f>> \in given
  <2>1. PICK k \in 1 .. Len(handed) : f = handed[k][1]
    BY SeqDomain DEF ToSet
  <2>2. Fits(arrived, given, encoder, 0 + k, handed[k], "packet")
    BY DEF AllFit
  <2> QED  BY <2>1, <2>2 DEF Fits
<1> HIDE DEF faces
<1>5. CASE x[2].type = "interest"
  <2>1. \/ a = <<x[1], Nack(x[2].name, 150, x[2])>>
        \/ a = <<x[1], Content(x[2].name, <<58>>)>>
        \/ \E f \in faces : a = <<f, x[2]>>
    BY <1>5 DEF Answers, faces
  <2>2. Sendable(x[2]) = {x[2], Nack(x[2].name, 150, x[2]), Content(x[2].name, <<58>>)}
    BY <1>5 DEF Sendable
  <2> QED  BY <1>2, <1>3, <1>4, <2>1, <2>2
<1>6. CASE x[2].type \in {"content", "nack"}
  <2>1. \E f \in faces : a = <<f, x[2]>>
    BY <1>6 DEF Answers, faces
  <2>2. Sendable(x[2]) = {x[2]}
    BY <1>6 DEF Sendable
  <2> QED  BY <1>2, <1>4, <2>1, <2>2
<1>7. CASE x[2].type \notin {"interest", "content", "nack"}
  BY <1>7 DEF Answers
<1> QED  BY <1>5, <1>6, <1>7

(* The ICN layer takes a packet, and drops it or sends something. *)
LEMMA ICNKeeps ==
    ASSUME NEW c, Callers = {c}, AnswersLegible, StackInv(c), ICNLayer
    PROVE  StackInv(c)'
<1>1. UNCHANGED <<layers, ports, started, encoder, to_bus, from_bus, arrived, packet>>
  BY DEF ICNLayer, stack, network
<1>2. IInv(c)' /\ given' = given /\ pc' = pc /\ addr' = addr
  BY TableKept DEF StackInv, ICNLayer
<1>3. 1 \in Links /\ layers[1] = "icn" /\ Height \in 1 .. Height
  BY Tall DEF StackInv
<1>4. ports["icn"].from_lower = Up(1) /\ ports["icn"].to_lower = Down(1)
  BY <1>3 DEF Up, Down
<1>5. PICK x : x = Head(queues[Up(1)])
  OBVIOUS
<1>6. started /\ queues[Up(1)] # << >> /\ handed' = Append(handed, x)
  BY <1>4, <1>5 DEF ICNLayer, HasData, Data
<1>7. PICK u : UpOrder(c, u) /\ UpRight(c, u)
  BY DEF StackInv, WayUp
<1>8. IsSeq(handed) /\ IsSeq(wanted) /\ IsSeq(handed') /\ Connected /\ OnBus
  BY <1>6, AfterAppend DEF StackInv, OnBus
<1>9. GotStays
  BY <1>1 DEF GotStays, FromNode
<1>10. /\ Up(1) \in 5 .. Len(queues) /\ Down(1) \in 5 .. Len(queues) /\ Up(1) # Down(1)
       /\ \A i \in Links : /\ Up(i) \in 1 .. Len(queues) /\ Down(i) \in 1 .. Len(queues)
                           /\ i # 1 => Up(i) # Up(1) /\ Down(i) # Down(1)
                           /\ Up(i) # Down(1) /\ Down(i) # Up(1)
  BY <1>3, Tall DEF StackInv
<1>11. CASE queues' = Take("icn", "from_lower") /\ wanted' = wanted
  <2>1. /\ Connected' /\ queues'[Up(1)] = Tail(queues[Up(1)])
        /\ \A y \in 1 .. Len(queues) : y # Up(1) => queues'[y] = queues[y]
    <3>1. queues' = [queues EXCEPT ![Up(1)] = Tail(@)]
      BY <1>4, <1>11 DEF Take
    <3> QED  BY <1>1, <1>6, <1>8, <1>10, <3>1, Taken
  <2>2. /\ \A i \in Links : i # 1 => queues'[Up(i)] = queues[Up(i)]
        /\ \A i \in Links : queues'[Down(i)] = queues[Down(i)]
    BY <1>10, <2>1
  <2>3. WayUp(c)'
    <3>1. \E v : UpOrder(c, v)' /\ UpRight(c, v)'
      BY <1>1, <1>2, <1>5, <1>6, <1>7, <1>8, <2>1, <2>2, UpTop
    <3> QED  BY <3>1 DEF WayUp
  <2>4. WayDown'
    BY <1>1, <1>2, <1>8, <1>9, <1>11, <2>2, DownKept DEF StackInv
  <2>5. OnBus'
    BY <1>1, <1>8, <1>11 DEF OnBus
  <2>6. Unstarted' /\ Quiet(c)'
    BY <1>1, <1>6 DEF Unstarted, Quiet
  <2> QED  BY <1>2, <2>1, <2>3, <2>4, <2>5, <2>6 DEF StackInv
<1>12. ASSUME NEW a \in Answers(x[1], x[2]),
              queues' = TakeAndPut("icn", "from_lower", "to_lower", a),
              wanted' = Append(wanted, <<a[1], Meaning(a[2])>>)
       PROVE  StackInv(c)'
  <2>1. /\ Connected' /\ queues'[Up(1)] = Tail(queues[Up(1)])
        /\ queues'[Down(1)] = Append(queues[Down(1)], a)
        /\ \A y \in 1 .. Len(queues) : y \notin {Up(1), Down(1)} => queues'[y] = queues[y]
    <3>1. PICK q, r : q = Up(1) /\ r = Down(1)
      OBVIOUS
    <3>2. queues' = [queues EXCEPT ![q] = Tail(@), ![r] = Append(@, a)]
      BY <1>4, <1>12, <3>1 DEF TakeAndPut
    <3>3. /\ Connected' /\ queues'[q] = Tail(queues[q]) /\ queues'[r] = Append(queues[r], a)
          /\ \A y \in 1 .. Len(queues) : y \notin {q, r} => queues'[y] = queues[y]
      <4>1. /\ Connected /\ UNCHANGED <<layers, ports>>
            /\ q \in 5 .. Len(queues) /\ r \in 5 .. Len(queues) /\ q # r
            /\ queues[q] # << >>
        BY <1>1, <1>6, <1>8, <1>10, <3>1
      <4> QED  BY <3>2, <4>1, Moved
    <3> QED  BY <3>1, <3>3
  <2>2. /\ \A i \in Links : i # 1 => queues'[Up(i)] = queues[Up(i)]
        /\ \A i \in Links : i # 1 => queues'[Down(i)] = queues[Down(i)]
    BY <1>10, <2>1
  <2>3. /\ \E v : UpOrder(c, v)' /\ UpRight(c, v)'
        /\ Fits(arrived, given, encoder, u[1] + 1, x, "packet")
    BY <1>1, <1>2, <1>5, <1>6, <1>7, <1>8, <2>1, <2>2, UpTop
  <2>4. WayUp(c)'
    BY <2>3 DEF WayUp
  <2>5. Legible(encoder, a[2]) /\ \E b \in Addresses : <<b, a[1]>> \in given
    <3>1. AllFit(arrived, given, encoder, 0, handed, "packet")
      BY <1>7 DEF UpRight
    <3> QED  BY <1>8, <2>3, <3>1, AnswerFits
  <2>6. PICK e : e = <<a[1], Meaning(a[2])>>
    OBVIOUS
  <2>7. /\ IsSeq(wanted') /\ Len(wanted) \in Nat /\ Len(wanted') = Len(wanted) + 1
        /\ wanted'[Len(wanted) + 1] = e /\ e[1] = a[1]
        /\ \A k \in 1 .. Len(wanted) : wanted'[k] = wanted[k]
    BY <1>8, <1>12, <2>6, AfterAppend
  <2>8. \A k \in 1 .. Len(wanted') : \E b \in Addresses : <<b, wanted'[k][1]>> \in given'
    <3>1. \A k \in 1 .. Len(wanted') : k \in 1 .. Len(wanted) \/ k = Len(wanted) + 1
      BY <2>7
    <3>2. \A k \in 1 .. Len(wanted) : \E b \in Addresses : <<b, wanted[k][1]>> \in given
      BY DEF StackInv, WayDown
    <3> QED  BY <1>2, <2>5, <2>7, <3>1, <3>2
  <2>9. PICK d, h : DownOrder(d) /\ DownRight(d) /\ h = d[Height] /\ OnWire(h)
    BY DEF StackInv, WayDown
  <2>10. PICK v : DownOrder(v)' /\ DownRight(v)' /\ v[Height'] = h /\ h \in Nat
    <3>1. \E v : /\ DownOrder(v)' /\ DownRight(v)' /\ Height' = Height
                 /\ v[Height] = d[Height] /\ v[Height] \in Nat
      BY <1>1, <1>8, <1>12, <2>1, <2>2, <2>5, <2>9, DownTop
    <3> QED  BY <2>9, <3>1
  <2>11. More(wanted, wanted') /\ h <= h
    BY <2>7, <2>10 DEF More
  <2>12. OnWire(h)'
    BY <1>1, <1>2, <1>9, <2>9, <2>10, <2>11, WireStays DEF GotStays
  <2>13. WayDown'
    BY <2>8, <2>10, <2>12 DEF WayDown
  <2>14. OnBus'
    BY <1>1, <1>8, <2>7 DEF OnBus
  <2>15. Unstarted' /\ Quiet(c)'
    BY <1>1, <1>6 DEF Unstarted, Quiet
  <2> QED  BY <1>2, <2>1, <2>4, <2>13, <2>14, <2>15 DEF StackInv
<1> QED  BY <1>4, <1>5, <1>11, <1>12 DEF ICNLayer, Data

(* The bus carries a datagram, or loses it and ends. *)
LEMMA DispatchKeeps ==
    ASSUME NEW c, Callers = {c}, StackInv(c), NEW from \in Interfaces, Dispatch(from)
    PROVE  StackInv(c)'
<1>1. UNCHANGED <<layers, ports, started, queues, encoder, handed, wanted, packet>>
  BY DEF Dispatch, stack
<1>2. IInv(c)' /\ given' = given /\ pc' = pc /\ addr' = addr
  BY TableKept DEF StackInv, Dispatch
<1>3. PICK to, wire, meaning : /\ to = Head(to_bus[from])[1] /\ wire = Head(to_bus[from])[2]
                               /\ meaning = Head(to_bus[from])[3]
  OBVIOUS
<1>4. /\ to_bus[from] # << >> /\ to_bus' = [to_bus EXCEPT ![from] = Tail(@)]
      /\ \/ /\ to \in Interfaces
            /\ from_bus' = [from_bus EXCEPT ![to] = Append(@, <<from, wire>>)]
            /\ arrived' = IF to = Node THEN Append(arrived, <<from, meaning>>) ELSE arrived
         \/ UNCHANGED <<from_bus, arrived>>
  BY <1>3 DEF Dispatch, Carry, LosePacket
<1>5. /\ DOMAIN to_bus = Interfaces /\ DOMAIN from_bus = Interfaces /\ Node \in Interfaces
      /\ \A a \in Interfaces : IsSeq(to_bus[a]) /\ IsSeq(from_bus[a])
      /\ IsSeq(arrived) /\ IsSeq(handed) /\ IsSeq(wanted)
      /\ \A a \in Interfaces : a = Node \/ a \in Addresses
      /\ \A a \in Addresses : a # Node /\ a \in Interfaces
  BY LinkStackAssumption DEF StackInv, OnBus, Interfaces
<1>6. PICK s : s = to_bus[from]
  OBVIOUS
<1>7. /\ IsSeq(to_bus'[from]) /\ Len(s) \in Nat \ {0} /\ Len(to_bus'[from]) = Len(s) - 1
      /\ Head(s) = s[1] /\ 1 \in 1 .. Len(s)
      /\ \A k \in 1 .. Len(s) - 1 : to_bus'[from][k] = s[k + 1] /\ k + 1 \in 1 .. Len(s)
      /\ to_bus'[from] = Tail(s)
      /\ \A a \in Interfaces : a # from => to_bus'[a] = to_bus[a]
  <2>1. IsSeq(s) /\ s # << >> /\ to_bus'[from] = Tail(s)
        /\ \A a \in Interfaces : a # from => to_bus'[a] = to_bus[a]
    BY <1>4, <1>5, <1>6
  <2>2. Len(s) \in Nat \ {0} /\ IsSeq(Tail(s)) /\ Len(Tail(s)) = Len(s) - 1 /\ Head(s) = s[1]
        /\ \A k \in 1 .. Len(s) - 1 : Tail(s)[k] = s[k + 1]
    BY <2>1, AfterTail
  <2> QED  BY <2>1, <2>2
<1>8. /\ \A a \in Addresses : \A k \in 1 .. Len(to_bus[a]) :
            to_bus[a][k][1] = Node => Stands(encoder, to_bus[a][k][3], to_bus[a][k][2], "wire")
      /\ \A k \in 1 .. Len(to_bus[Node]) : to_bus[Node][k][1] \in Addresses
  BY DEF StackInv, OnBus
<1>9. /\ from = Node => to \in Addresses
      /\ from # Node /\ to = Node => Stands(encoder, meaning, wire, "wire")
  BY <1>3, <1>5, <1>6, <1>7, <1>8
<1>10. /\ DOMAIN from_bus' = Interfaces /\ IsSeq(arrived')
       /\ \A a \in Interfaces : IsSeq(from_bus'[a])
       /\ \A a \in Interfaces : a # to => from_bus'[a] = from_bus[a]
       /\ to \in Interfaces => \/ from_bus'[to] = from_bus[to]
                               \/ from_bus'[to] = Append(from_bus[to], <<from, wire>>)
       /\ \/ from_bus'[Node] = from_bus[Node] /\ arrived' = arrived
          \/ /\ to = Node /\ from_bus'[Node] = Append(from_bus[Node], <<from, wire>>)
             /\ arrived' = Append(arrived, <<from, meaning>>)
  <2>1. CASE UNCHANGED <<from_bus, arrived>>
    BY <1>5, <2>1
  <2>2. CASE /\ to \in Interfaces
             /\ from_bus' = [from_bus EXCEPT ![to] = Append(@, <<from, wire>>)]
             /\ arrived' = IF to = Node THEN Append(arrived, <<from, meaning>>) ELSE arrived
    <3>1. IsSeq(Append(from_bus[to], <<from, wire>>)) /\ IsSeq(Append(arrived, <<from, meaning>>))
      BY <1>5, <2>2, AfterAppend
    <3> QED  BY <1>5, <2>2, <3>1
  <2> QED  BY <1>4, <2>1, <2>2
<1>11. Connected' /\ Connected /\ OnBus
  BY <1>1, ConnectedSame DEF StackInv
<1>12. OnBus'
  <2>1. \A a \in Addresses : \A k \in 1 .. Len(to_bus'[a]) :
           to_bus'[a][k][1] = Node => Stands(encoder, to_bus'[a][k][3], to_bus'[a][k][2], "wire")
    BY <1>5, <1>6, <1>7, <1>8
  <2>2. \A k \in 1 .. Len(to_bus'[Node]) : to_bus'[Node][k][1] \in Addresses
    <3>1. CASE from = Node
      <4>1. s = to_bus[Node]
        BY <1>6, <3>1
      <4>2. Len(to_bus'[Node]) = Len(s) - 1
            /\ \A k \in 1 .. Len(s) - 1 : to_bus'[Node][k] = s[k + 1] /\ k + 1 \in 1 .. Len(s)
        BY <1>7, <3>1
      <4>3. \A k \in 1 .. Len(s) : s[k][1] \in Addresses
        BY <1>8, <4>1
      <4> QED  BY <4>2, <4>3
    <3>2. CASE from # Node
      BY <1>5, <1>7, <1>8, <3>2
    <3> QED  BY <3>1, <3>2
  <2>3. DOMAIN to_bus' = Interfaces /\ \A a \in Interfaces : IsSeq(to_bus'[a])
    BY <1>4, <1>5, <1>7
  <2> QED  BY <1>1, <1>5, <1>10, <2>1, <2>2, <2>3 DEF OnBus
<1>13. WayUp(c)'
  <2>1. PICK u : UpOrder(c, u) /\ UpRight(c, u)
    BY DEF StackInv, WayUp
  <2>2. CASE from_bus'[Node] = from_bus[Node] /\ arrived' = arrived
    BY <1>1, <1>2, <1>11, <2>2, UpKept DEF StackInv
  <2>3. CASE /\ to = Node /\ from_bus'[Node] = Append(from_bus[Node], <<from, wire>>)
             /\ arrived' = Append(arrived, <<from, meaning>>)
    <3>1. from \in Addresses /\ Stands(encoder, meaning, wire, "wire")
      BY <1>5, <1>9, <2>3
    <3>2. UNCHANGED <<layers, ports, queues, encoder, handed, given, pc, addr, packet>>
      BY <1>1, <1>2
    <3>3. UpOrder(c, u)' /\ UpRight(c, u)'
      BY <1>11, <2>1, <2>3, <3>1, <3>2, UpArrives
    <3> QED  BY <3>3 DEF WayUp
  <2> QED  BY <1>10, <2>2, <2>3
<1>14. WayDown'
  <2>1. CASE from = Node
    <3>1. PICK d, h : DownOrder(d) /\ DownRight(d) /\ h = d[Height] /\ OnWire(h)
      BY DEF StackInv, WayDown
    <3>2. DownOrder(d)' /\ DownRight(d)' /\ Height' = Height
      BY <1>1, <1>11, <3>1, DownStays
    <3>3. h \in Nat
      BY <1>11, <3>1, DownCounts
    <3>4. \A a \in Addresses :
             \/ from_bus'[a] = from_bus[a]
             \/ /\ a = Head(to_bus[Node])[1] /\ IsSeq(from_bus[a])
                /\ from_bus'[a] = Append(from_bus[a], <<Node, Head(to_bus[Node])[2]>>)
      BY <1>3, <1>5, <1>10, <2>1
    <3>5. IsSeq(to_bus[Node]) /\ to_bus[Node] # << >> /\ to_bus'[Node] = Tail(to_bus[Node])
      BY <1>4, <1>5, <1>6, <1>7, <2>1
    <3>6. OnWire(h)'
      BY <1>1, <1>2, <3>1, <3>3, <3>4, <3>5, WireTaken
    <3>7. \A k \in 1 .. Len(wanted') : \E a \in Addresses : <<a, wanted'[k][1]>> \in given'
      BY <1>1, <1>2 DEF StackInv, WayDown
    <3> QED  BY <3>1, <3>2, <3>6, <3>7 DEF WayDown
  <2>2. CASE from # Node
    <3>1. ASSUME NEW a \in Addresses
          PROVE  /\ FromNode(a)' = FromNode(a)
                 /\ \A i \in FromNode(a) : from_bus'[a][i] = from_bus[a][i]
      <4>1. CASE from_bus'[a] = from_bus[a]
        BY <4>1 DEF FromNode
      <4>2. CASE from_bus'[a] = Append(from_bus[a], <<from, wire>>)
        <5>1. PICK x, m : x = <<from, wire>> /\ m = Len(from_bus[a])
          OBVIOUS
        <5>2. /\ m \in Nat /\ DOMAIN from_bus[a] = 1 .. m /\ DOMAIN from_bus'[a] = 1 .. m + 1
              /\ from_bus'[a][m + 1] = x /\ x[1] # Node
              /\ \A k \in 1 .. m : from_bus'[a][k] = from_bus[a][k]
          BY <1>5, <2>2, <4>2, <5>1, AfterAppend
        <5> QED  BY <5>2 DEF FromNode
      <4> QED  BY <1>5, <1>10, <4>1, <4>2
    <3>2. GotStays
      BY <3>1 DEF GotStays
    <3>3. to_bus'[Node] = to_bus[Node]
      BY <1>5, <1>7, <2>2
    <3> QED  BY <1>1, <1>2, <1>11, <3>2, <3>3, DownKept DEF StackInv
  <2> QED  BY <2>1, <2>2
<1>15. Unstarted' /\ Quiet(c)'
  <2>1. Unstarted'
    BY <1>1 DEF StackInv, Unstarted
  <2>2. ASSUME ~started PROVE from # Node
    BY <1>4, <2>2 DEF StackInv, Quiet
  <2>3. Len(arrived) = Len(from_bus[Node]) => Len(arrived') = Len(from_bus'[Node])
    <3>1. CASE from_bus'[Node] = from_bus[Node] /\ arrived' = arrived
      BY <3>1
    <3>2. CASE /\ from_bus'[Node] = Append(from_bus[Node], <<from, wire>>)
               /\ arrived' = Append(arrived, <<from, meaning>>)
      <4>1. Len(arrived') = Len(arrived) + 1 /\ Len(from_bus'[Node]) = Len(from_bus[Node]) + 1
        BY <1>5, <3>2, AfterAppend
      <4> QED  BY <4>1
    <3> QED  BY <1>10, <3>1, <3>2
  <2>4. ~started => to_bus'[Node] = to_bus[Node]
    BY <1>5, <1>7, <2>2
  <2>5. Quiet(c)'
    BY <1>1, <1>2, <2>3, <2>4 DEF StackInv, Quiet
  <2> QED  BY <2>1, <2>5
<1> QED  BY <1>2, <1>11, <1>12, <1>13, <1>14, <1>15 DEF StackInv

(* The stack starts. *)
LEMMA StartKeeps ==
    ASSUME NEW c, Callers = {c}, StackInv(c), StartAll
    PROVE  StackInv(c)'
<1>1. /\ UNCHANGED <<layers, ports, queues, encoder, to_bus, from_bus, packet,
                     arrived, handed, wanted>>
      /\ started'
  BY DEF StartAll, Start, network, told
<1>2. IInv(c)' /\ given' = given /\ pc' = pc /\ addr' = addr
  BY TableKept DEF StackInv, StartAll
<1>3. Connected' /\ Connected /\ OnBus
  BY <1>1, ConnectedSame DEF StackInv
<1>4. WayUp(c)'
  BY <1>1, <1>2, <1>3, UpKept DEF StackInv
<1>5. WayDown'
  <2>1. GotStays
    BY <1>1 DEF GotStays, FromNode
  <2> QED  BY <1>1, <1>2, <1>3, <2>1, DownKept DEF StackInv
<1>6. OnBus'
  BY <1>1, <1>3 DEF OnBus
<1> QED  BY <1>1, <1>2, <1>3, <1>4, <1>5, <1>6 DEF StackInv, Unstarted, Quiet

(* As long as nothing has come and nothing was sent, all counts are zero.  *)
Nothing(c) ==
    /\ Connected /\ \A q \in 1 .. Len(queues) : queues[q] = << >>
    /\ pc[c] = "idle" /\ handed = << >> /\ wanted = << >> /\ to_bus[Node] = << >>
    /\ Len(arrived) = Len(from_bus[Node]) /\ IsSeq(from_bus[Node])
    /\ AllCame(arrived, encoder, 0, from_bus[Node])
    /\ \A a \in Addresses : FromNode(a) = {}

LEMMA NothingCounts ==
    ASSUME NEW c, Nothing(c) PROVE WayUp(c) /\ WayDown
<1>1. PICK u : u = [i \in 1 .. Height |-> 0]
  OBVIOUS
<1>2. /\ Height \in 1 .. Height /\ 1 \in 1 .. Height /\ u \in [1 .. Height -> Nat]
      /\ \A i \in Links : i \in 1 .. Height /\ i + 1 \in 1 .. Height
      /\ \A i \in 1 .. Height : u[i] = 0
  BY <1>1, Tall DEF Nothing
<1>3. \A i \in Links : /\ queues[Up(i)] = << >> /\ Len(queues[Up(i)]) = 0
                       /\ queues[Down(i)] = << >> /\ Len(queues[Down(i)]) = 0
  <2>1. \A i \in Links : queues[Up(i)] = << >> /\ queues[Down(i)] = << >>
    BY Tall DEF Nothing
  <2> QED  BY <2>1, EmptyIsSeq
<1>4. Len(handed) = 0 /\ Len(wanted) = 0 /\ Len(to_bus[Node]) = 0 /\ Len(from_bus[Node]) \in Nat
  BY EmptyIsSeq, SeqDomain DEF Nothing
<1>5. UpOrder(c, u) /\ UpRight(c, u)
  <2>1. UpOrder(c, u)
    BY <1>2, <1>3, <1>4 DEF UpOrder, Nothing, Handling
  <2>2. AllFit(arrived, given, encoder, 0, handed, "packet")
    BY <1>4 DEF AllFit
  <2>3. \A i \in Links : AllFit(arrived, given, encoder, u[i], queues[Up(i)], Form(i))
    BY <1>3 DEF AllFit
  <2>4. AllCame(arrived, encoder, u[Height] + Handling(c), from_bus[Node])
    <3>1. u[Height] + Handling(c) = 0
      BY <1>2 DEF Handling, Nothing
    <3> QED  BY <3>1 DEF Nothing
  <2>5. UpRight(c, u)
    BY <2>2, <2>3, <2>4 DEF UpRight, Nothing
  <2> QED  BY <2>1, <2>5
<1>6. DownOrder(u) /\ DownRight(u)
  <2>1. DownOrder(u)
    BY <1>2, <1>3, <1>4 DEF DownOrder
  <2>2. DownRight(u)
    BY <1>3 DEF DownRight, AllSent
  <2> QED  BY <2>1, <2>2
<1>7. OnWire(0)
  <2>1. PICK t : t = [k \in 1 .. 0 |-> 0]
    OBVIOUS
  <2>2. OnInterface(0, 0, t)
    BY <1>4, <2>1 DEF OnInterface
  <2>3. ASSUME NEW a \in Addresses PROVE \E w : Got(a, 0, w)
    <3>1. PICK w : w = [i \in {} |-> 0]
      OBVIOUS
    <3>2. Got(a, 0, w)
      BY <3>1 DEF Got, Nothing
    <3> QED  BY <3>2
  <2> QED  BY <2>2, <2>3 DEF OnWire
<1>8. WayDown
  BY <1>2, <1>4, <1>6, <1>7 DEF WayDown
<1> QED  BY <1>5, <1>8 DEF WayUp

LEMMA NothingCountsNext ==
    ASSUME NEW c PROVE Nothing(c)' => (WayUp(c) /\ WayDown)'
<1>1. Nothing(c) => WayUp(c) /\ WayDown
  BY NothingCounts
<1> QED  BY <1>1, PTL

(* Layers that are inserted before the start change no count. *)
LEMMA BuildKeeps ==
    ASSUME NEW c, Callers = {c}, StackInv(c), Build
    PROVE  StackInv(c)'
<1>1. /\ ~started /\ ~started'
      /\ UNCHANGED <<encoder, to_bus, from_bus, packet, arrived, handed, wanted>>
  BY DEF Build, InsertBelow, InsertOnTopOf, InsertLayer, network, told
<1>2. IInv(c)' /\ given' = given /\ pc' = pc /\ addr' = addr
  BY TableKept DEF StackInv, Build
<1>3. Connected' /\ Unstarted'
  <2>1. PICK l \in Passers \ ToSet(layers) : InsertBelow(l, "icn") \/ InsertOnTopOf(l, "encoding")
    BY DEF Build
  <2>2. l \in Layers /\ l \notin ToSet(layers) /\ Connected /\ Unstarted
    BY DEF Passers, StackInv
  <2>3. /\ Height \in Nat /\ Height >= 3 /\ DOMAIN layers = 1 .. Height
        /\ layers[1] = "icn" /\ layers[Height - 1] = "encoding"
        /\ \A i, j \in 1 .. Height : layers[i] = layers[j] => i = j
        /\ 1 \in 1 .. Height /\ Height - 1 \in 1 .. Height
    BY <2>2, Tall
  <2>4. PositionOf("icn") = 1
    <3>1. \A i \in DOMAIN layers : layers[i] = "icn" => i = 1
      BY <2>3
    <3> QED  BY <2>3, <3>1 DEF PositionOf
  <2>5. PositionOf("encoding") = Height - 1
    <3>1. \A i \in DOMAIN layers : layers[i] = "encoding" => i = Height - 1
      BY <2>3
    <3> QED  BY <2>3, <3>1 DEF PositionOf
  <2>6. CASE InsertBelow(l, "icn")
    <3>1. InsertLayer(l, 2) /\ 2 \in 2 .. Height - 1
      BY <2>3, <2>4, <2>6 DEF InsertBelow
    <3> QED  BY <1>1, <2>2, <3>1, Inserted
  <2>7. CASE InsertOnTopOf(l, "encoding")
    <3>1. InsertLayer(l, Height - 1) /\ Height - 1 \in 2 .. Height - 1
      BY <2>3, <2>5, <2>7 DEF InsertOnTopOf
    <3> QED  BY <1>1, <2>2, <3>1, Inserted
  <2> QED  BY <2>1, <2>6, <2>7
<1>4. /\ pc[c] = "idle" /\ handed = << >> /\ wanted = << >> /\ to_bus[Node] = << >>
      /\ Len(arrived) = Len(from_bus[Node])
  BY <1>1 DEF StackInv, Quiet
<1>5. IsSeq(from_bus[Node]) /\ Len(from_bus[Node]) \in Nat
  BY SeqDomain DEF StackInv, OnBus, Interfaces
<1>6. AllCame(arrived, encoder, 0, from_bus[Node])
  <2>1. PICK u : UpOrder(c, u) /\ UpRight(c, u)
    BY DEF StackInv, WayUp
  <2>2. Height \in 1 .. Height
    BY Tall DEF StackInv
  <2>3. u[Height] \in Nat /\ Handling(c) = 0
        /\ Len(from_bus[Node]) = u[Height] + 0 + Len(from_bus[Node])
    BY <1>4, <2>1, <2>2 DEF UpOrder, Handling
  <2>4. u[Height] + Handling(c) = 0
    BY <1>5, <2>3
  <2> QED  BY <2>1, <2>4 DEF UpRight
<1>7. \A a \in Addresses : FromNode(a) = {}
  <2>1. PICK h : OnWire(h)
    BY DEF StackInv, WayDown
  <2>2. Len(wanted) = 0
    BY <1>4, EmptyIsSeq
  <2>3. ASSUME NEW a \in Addresses, NEW i \in FromNode(a) PROVE FALSE
    <3>1. PICK e, w : Got(a, e, w)
      BY <2>1 DEF OnWire
    <3>2. Serves(wanted, given, encoder, w[i], a, from_bus[a][i][2])
      BY <3>1 DEF Got
    <3>3. w[i] \in 1 .. 0
      BY <2>2, <3>2 DEF Serves
    <3> QED  BY <3>3
  <2> QED  BY <2>3
<1>8. Nothing(c)'
  <2>1. \A q \in 1 .. Len(queues') : queues'[q] = << >>
    BY <1>1, <1>3 DEF Unstarted
  <2>2. \A a \in Addresses : FromNode(a)' = FromNode(a)
    BY <1>1 DEF FromNode
  <2> QED  BY <1>1, <1>2, <1>3, <1>4, <1>5, <1>6, <1>7, <2>1, <2>2 DEF Nothing
<1>9. WayUp(c)' /\ WayDown'
  BY <1>8, NothingCountsNext
<1>10. OnBus'
  BY <1>1 DEF StackInv, OnBus
<1>11. Quiet(c)'
  BY <1>1, <1>2 DEF StackInv, Quiet
<1> QED  BY <1>2, <1>3, <1>9, <1>10, <1>11 DEF StackInv

(* The peers have posted, and the layers of every node are connected. *)
LEMMA StackInvInit ==
    ASSUME NEW c, Callers = {c}, LinkInit PROVE StackInv(c)
<1>1. IInv(c)
  BY InitInvariant DEF LinkInit
<1>2. Connected /\ Unstarted
  BY Constructed, LinkStackAssumption DEF LinkInit
<1>3. /\ from_bus = [i \in Interfaces |-> << >>] /\ ~started /\ pc[c] = "idle"
      /\ arrived = << >> /\ handed = << >> /\ wanted = << >>
  BY DEF LinkInit, Init, StackInit
<1>4. PICK s \in Scenes :
          /\ encoder = s.encoder
          /\ to_bus = [i \in Interfaces |->
                          IF i = Node THEN << >> ELSE Posted(s.encoder, s.posts[i])]
  BY DEF LinkInit
<1>5. /\ Node \in Interfaces /\ to_bus[Node] = << >>
      /\ \A a \in Addresses : /\ a \in Interfaces /\ a # Node
                              /\ to_bus[a] = Posted(encoder, s.posts[a])
                              /\ s.posts[a] \in Seq(ToSet(s.posts[a]))
  BY <1>4, LinkStackAssumption DEF Interfaces
<1>6. \A q \in 1 .. Len(queues) : queues[q] = << >>
  BY <1>2, <1>3 DEF Unstarted
<1>7. IsSeq(<< >>) /\ Len(<< >>) = 0 /\ DOMAIN << >> = 1 .. 0
  BY EmptyIsSeq, SeqDomain
<1>8. ASSUME NEW a \in Addresses
      PROVE  /\ IsSeq(to_bus[a])
             /\ \A k \in 1 .. Len(to_bus[a]) :
                   to_bus[a][k][1] = Node => Stands(encoder, to_bus[a][k][3], to_bus[a][k][2], "wire")
  <2>1. PICK ps : ps = s.posts[a]
    OBVIOUS
  <2>2. PICK t : t = to_bus[a]
    OBVIOUS
  <2>3. /\ Len(ps) \in Nat /\ DOMAIN ps = 1 .. Len(ps)
        /\ t = [i \in 1 .. Len(ps) |-> <<ps[i][1], Encoded(encoder, ps[i][2]), Meaning(ps[i][2])>>]
    BY <1>5, <2>1, <2>2 DEF Posted
  <2>4. PICK S : S = {t[i] : i \in 1 .. Len(ps)}
    OBVIOUS
  <2>5. t \in Seq(S) /\ Len(t) = Len(ps)
    BY <2>3, <2>4
  <2>6. IsSeq(t)
    BY <2>5 DEF IsSeq
  <2>7. ASSUME NEW k \in 1 .. Len(t), t[k][1] = Node
        PROVE  Stands(encoder, t[k][3], t[k][2], "wire")
    <3>1. k \in DOMAIN ps /\ k \in 1 .. Len(ps)
      BY <2>3, <2>5
    <3>2. /\ t[k][1] = ps[k][1] /\ t[k][2] = Encoded(encoder, ps[k][2])
          /\ t[k][3] = Meaning(ps[k][2])
      BY <2>3, <3>1
    <3>3. ps[k] \in {post \in ToSet(s.posts[a]) : post[1] = Node}
      BY <2>1, <2>7, <3>1, <3>2 DEF ToSet
    <3>4. ps[k][2] \in ForNode(s)
      BY <3>3 DEF ForNode
    <3> QED  BY <1>4, <3>2, <3>4 DEF Stands
  <2> QED  BY <2>2, <2>6, <2>7
<1>9. OnBus
  <2>1. \A i \in Interfaces : from_bus[i] = << >>
    BY <1>3
  <2>2. \A i \in Interfaces : IsSeq(to_bus[i]) /\ IsSeq(from_bus[i])
    BY <1>5, <1>7, <1>8, <2>1 DEF Interfaces
  <2>3. DOMAIN to_bus = Interfaces /\ DOMAIN from_bus = Interfaces
    BY <1>3, <1>4
  <2> QED  BY <1>3, <1>5, <1>7, <1>8, <2>2, <2>3 DEF OnBus
<1>10. Nothing(c)
  <2>1. from_bus[Node] = << >> /\ \A a \in Addresses : from_bus[a] = << >>
    BY <1>3, <1>5
  <2>2. \A a \in Addresses : FromNode(a) = {}
    BY <1>7, <2>1 DEF FromNode
  <2>3. AllCame(arrived, encoder, 0, from_bus[Node])
    BY <1>7, <2>1 DEF AllCame
  <2> QED  BY <1>2, <1>3, <1>5, <1>6, <1>7, <2>1, <2>2, <2>3 DEF Nothing
<1>11. WayUp(c) /\ WayDown
  BY <1>10, NothingCounts
<1>12. Quiet(c)
  BY <1>3, <1>5, <1>10 DEF Quiet, Nothing
<1> QED  BY <1>1, <1>2, <1>9, <1>11, <1>12 DEF StackInv

-----------------------------------------------------------------------------
(* NdnTlvEncoder reads what it has written.  Numbers first, then blobs of  *)
(* a type, a length and a value, names, and the three kinds of packet.     *)

(* A set of numbers has a least one. *)
LEMMA LeastOf ==
    ASSUME NEW U, U \subseteq Nat, U # {}
    PROVE  \E x \in U : \A y \in U : x <= y
<1>1. PICK x \in U : \A y \in U : ~(<<y, x>> \in OpToRel(<, Nat))
  BY NatLessThanWellFounded, WFMin
<1>2. \A y \in U : ~(y < x)
  BY <1>1 DEF OpToRel
<1> QED  BY <1>2

(* The bytes of s lie in the packet from the offset at on.                 *)
LiesAt(in, at, s) ==
    /\ at + Len(s) <= Len(in) + 1
    /\ \A k \in 1 .. Len(s) : in[at + k - 1] = s[k]

(* Two parts of a packet, one behind the other. *)
LEMMA JoinedBytes ==
    ASSUME NEW s \in Seq(Byte), NEW t \in Seq(Byte)
    PROVE  /\ s \o t \in Seq(Byte) /\ Len(s \o t) = Len(s) + Len(t)
           /\ \A k \in 1 .. Len(s) : (s \o t)[k] = s[k]
           /\ \A k \in 1 .. Len(t) : (s \o t)[Len(s) + k] = t[k]
<1>1. Len(s) \in Nat /\ Len(t) \in Nat
  BY LenProperties
<1>2. /\ s \o t \in Seq(Byte) /\ Len(s \o t) = Len(s) + Len(t)
      /\ \A k \in 1 .. Len(s) + Len(t) : (s \o t)[k] = IF k <= Len(s) THEN s[k] ELSE t[k - Len(s)]
  BY ConcatProperties
<1>3. ASSUME NEW k \in 1 .. Len(t) PROVE (s \o t)[Len(s) + k] = t[k]
  <2>1. Len(s) + k \in 1 .. Len(s) + Len(t) /\ ~(Len(s) + k <= Len(s)) /\ (Len(s) + k) - Len(s) = k
    BY <1>1
  <2> QED  BY <1>2, <2>1
<1> QED  BY <1>1, <1>2, <1>3

(* What lies in a packet one after the other lies there each on its own.   *)
LEMMA LieApart ==
    ASSUME NEW in \in Seq(Byte), NEW at \in Nat, NEW s \in Seq(Byte), NEW t \in Seq(Byte),
           LiesAt(in, at, s \o t)
    PROVE  LiesAt(in, at, s) /\ LiesAt(in, at + Len(s), t)
<1>1. PICK w : w = s \o t
  OBVIOUS
<1>2. PICK n, m : n = Len(s) /\ m = Len(t)
  OBVIOUS
<1>3. /\ n \in Nat /\ m \in Nat /\ Len(in) \in Nat /\ Len(w) = n + m
      /\ \A k \in 1 .. n : w[k] = s[k]
      /\ \A k \in 1 .. m : w[n + k] = t[k]
  BY <1>1, <1>2, LenProperties, JoinedBytes
<1>4. at + (n + m) <= Len(in) + 1 /\ \A k \in 1 .. n + m : in[at + k - 1] = w[k]
  BY <1>1, <1>3 DEF LiesAt
<1>5. ASSUME NEW k \in 1 .. n PROVE in[at + k - 1] = s[k]
  <2>1. k \in 1 .. n + m
    BY <1>3
  <2> QED  BY <1>3, <1>4, <2>1
<1>6. ASSUME NEW k \in 1 .. m PROVE in[(at + n) + k - 1] = t[k]
  <2>1. n + k \in 1 .. n + m /\ at + (n + k) - 1 = (at + n) + k - 1
    BY <1>3
  <2> QED  BY <1>3, <1>4, <2>1
<1> QED  BY <1>2, <1>3, <1>4, <1>5, <1>6 DEF LiesAt

(* A packet lies in itself. *)
LEMMA LiesWhole ==
    ASSUME NEW in \in Seq(Byte) PROVE LiesAt(in, 1, in)
<1>1. Len(in) \in Nat
  BY LenProperties
<1> QED  BY <1>1 DEF LiesAt

(* Cutting out what lies in a packet. *)
LEMMA CutOut ==
    ASSUME NEW in \in Seq(Byte), NEW at \in Nat, at >= 1, NEW s \in Seq(Byte),
           LiesAt(in, at, s)
    PROVE  SubSeq(in, at, at + Len(s) - 1) = s
<1>1. PICK n, l, w : n = Len(s) /\ l = Len(in) /\ w = SubSeq(in, at, at + n - 1)
  OBVIOUS
<1>2. n \in Nat /\ l \in Nat /\ at + n <= l + 1
  BY <1>1, LenProperties DEF LiesAt
<1>3. \A i \in at .. at + n - 1 : in[i] \in Byte
  <2> SUFFICES ASSUME NEW i \in at .. at + n - 1 PROVE in[i] \in Byte
    OBVIOUS
  <2>1. i \in 1 .. Len(in)
    BY <1>1, <1>2
  <2> QED  BY <2>1, ElementOfSeq
<1>4. /\ w \in Seq(Byte)
      /\ Len(w) = IF at <= at + n - 1 THEN (at + n - 1) - at + 1 ELSE 0
      /\ \A i \in 1 .. (at + n - 1) - at + 1 : w[i] = in[at + i - 1]
  <2>1. at \in Int /\ at + n - 1 \in Int
    BY <1>2
  <2> QED  BY <1>1, <1>3, <2>1, SubSeqProperties
<1>5. Len(w) = n /\ \A i \in 1 .. n : w[i] = in[at + i - 1]
  BY <1>2, <1>4
<1>6. \A i \in 1 .. n : w[i] = s[i]
  BY <1>1, <1>5 DEF LiesAt
<1>7. w = s
  BY <1>1, <1>4, <1>5, <1>6, SeqEqual
<1> QED  BY <1>1, <1>7

-----------------------------------------------------------------------------
(* Numbers *)

(* A function on 1 .. n is a sequence. *)
LEMMA IsSequence ==
    ASSUME NEW S, NEW n \in Nat, NEW f \in [1 .. n -> S]
    PROVE  f \in Seq(S) /\ Len(f) = n
<1>1. PICK s : s = SubSeq(f, 1, n)
  OBVIOUS
<1>2. /\ s \in Seq(S) /\ Len(s) = n
      /\ \A i \in 1 .. n : s[i] = f[i]
  <2>1. \A i \in 1 .. n : f[i] \in S
    OBVIOUS
  <2>2. /\ s \in Seq(S)
        /\ Len(s) = IF 1 <= n THEN n - 1 + 1 ELSE 0
        /\ \A i \in 1 .. n - 1 + 1 : s[i] = f[1 + i - 1]
    BY <1>1, <2>1, SubSeqProperties
  <2> QED  BY <2>2
<1>3. DOMAIN s = 1 .. n
  BY <1>2, LenProperties
<1>4. f = s
  BY <1>2, <1>3, LenProperties
<1> QED  BY <1>2, <1>4

(* Numbers that are read back whatever they are, and the bytes of a        *)
(* number.                                                                 *)
Sizes == {n \in Nat : n <= 2147483647}
First(n) == n % 256
Second(n) == (n \div 256) % 256
Third(n) == (n \div 65536) % 256
Fourth(n) == (n \div 16777216) % 256

LEMMA SizesAreNat ==
    ASSUME NEW n \in Sizes PROVE n \in Nat
BY SMT DEF Sizes

(* The bytes of a number are bytes. *)
LEMMA TheBytes ==
    ASSUME NEW n \in Nat
    PROVE  First(n) \in Byte /\ Second(n) \in Byte /\ Third(n) \in Byte /\ Fourth(n) \in Byte
BY SMT DEF First, Second, Third, Fourth, Byte

(* A number of 16 bits is made up of its two bytes, one of 31 bits of its  *)
(* four.                                                                   *)
LEMMA TwoBytes ==
    ASSUME NEW n \in Nat, n <= 65535
    PROVE  Second(n) * 256 + First(n) = n
BY SMT DEF First, Second

LEMMA FourBytes ==
    ASSUME NEW n \in Sizes
    PROVE  /\ ((Fourth(n) * 256 + Third(n)) * 256 + Second(n)) * 256 + First(n) = n
           /\ Fourth(n) <= 127 /\ Fourth(n) \in Int
<1>1. /\ n \in Nat /\ n <= 2147483647 /\ First(n) = n % 256 /\ Second(n) = (n \div 256) % 256
      /\ Third(n) = (n \div 65536) % 256 /\ Fourth(n) = (n \div 16777216) % 256
  BY SMT DEF First, Second, Third, Fourth, Sizes
<1> QED  BY SMT, <1>1

(* What Bytes writes. *)
LEMMA OfBytes ==
    ASSUME NEW n \in Nat
    PROVE  /\ Bytes(n, 2) \in Seq(Byte) /\ Len(Bytes(n, 2)) = 2
           /\ Bytes(n, 2)[1] = Second(n) /\ Bytes(n, 2)[2] = First(n)
           /\ Bytes(n, 4) \in Seq(Byte) /\ Len(Bytes(n, 4)) = 4
           /\ Bytes(n, 4)[1] = Fourth(n) /\ Bytes(n, 4)[2] = Third(n)
           /\ Bytes(n, 4)[3] = Second(n) /\ Bytes(n, 4)[4] = First(n)
<1>1. /\ n \div 256 ^ 0 = n /\ n \div 256 ^ 1 = n \div 256
      /\ n \div 256 ^ 2 = n \div 65536 /\ n \div 256 ^ 3 = n \div 16777216
  BY SMT
<1>2. /\ Bytes(n, 2)[1] = Second(n) /\ Bytes(n, 2)[2] = First(n)
      /\ Bytes(n, 4)[1] = Fourth(n) /\ Bytes(n, 4)[2] = Third(n)
      /\ Bytes(n, 4)[3] = Second(n) /\ Bytes(n, 4)[4] = First(n)
  BY SMT, <1>1 DEF Bytes, First, Second, Third, Fourth
<1>3. Bytes(n, 2) \in [1 .. 2 -> Byte]
  <2>1. \A i \in 1 .. 2 : Bytes(n, 2)[i] \in Byte
    BY <1>2, TheBytes
  <2> QED  BY <2>1 DEF Bytes
<1>4. Bytes(n, 4) \in [1 .. 4 -> Byte]
  <2>1. \A i \in 1 .. 4 : Bytes(n, 4)[i] \in Byte
    BY <1>2, TheBytes
  <2> QED  BY <2>1 DEF Bytes
<1>5. Bytes(n, 2) \in Seq(Byte) /\ Len(Bytes(n, 2)) = 2
  BY <1>3, IsSequence
<1>6. Bytes(n, 4) \in Seq(Byte) /\ Len(Bytes(n, 4)) = 4
  BY <1>4, IsSequence
<1> QED  BY <1>2, <1>5, <1>6

LEMMA OneByteMore ==
    ASSUME NEW m \in Nat, NEW byte \in 0 .. 255
    PROVE  m * 256 + byte \in Nat
OBVIOUS

(* What Number makes of two bytes and of four. *)
LEMMA OfNumber ==
    ASSUME NEW b \in Seq(Byte)
    PROVE  /\ Len(b) = 2 => Number(b) = b[1] * 256 + b[2]
           /\ Len(b) = 4 => Number(b) = ((b[1] * 256 + b[2]) * 256 + b[3]) * 256 + b[4]
<1> DEFINE body(f) == [k \in 0 .. Len(b) |-> IF k = 0 THEN 0 ELSE f[k - 1] * 256 + b[k]]
           n == CHOOSE f : f = body(f)
<1>1. Number(b) = n[Len(b)]
  BY DEF Number
<1>2. \A k \in 1 .. Len(b) : b[k] \in 0 .. 255
  BY ElementOfSeq DEF Byte
<1>3. CASE Len(b) = 2
  <2>1. b[1] \in 0 .. 255 /\ b[2] \in 0 .. 255
    BY <1>2, <1>3
  <2>2. PICK m1 : m1 = b[1]
    OBVIOUS
  <2>3. PICK m2 : m2 = m1 * 256 + b[2]
    OBVIOUS
  <2>0. m1 \in Nat /\ m2 \in Nat
    <3>0. m1 \in 0 .. 255
      BY <2>1, <2>2
    <3>1. m1 \in Nat
      BY <3>0
    <3>2. m2 \in Nat
      BY <2>1, <2>3, <3>1, OneByteMore
    <3> QED  BY <3>1, <3>2
  <2> DEFINE g == [k \in 0 .. 2 |-> IF k = 0 THEN 0 ELSE IF k = 1 THEN m1 ELSE m2]
  <2>4. g[0] = 0 /\ g[1] = m1 /\ g[2] = m2
    OBVIOUS
  <2>5. g = body(g)
    <3>1. g = [k \in 0 .. 2 |-> g[k]]
      OBVIOUS
    <3> HIDE DEF g
    <3>2. g[1] = g[0] * 256 + b[1] /\ g[2] = g[1] * 256 + b[2]
      BY <2>0, <2>1, <2>2, <2>3, <2>4
    <3>3. \A k \in 0 .. 2 : g[k] = IF k = 0 THEN 0 ELSE g[k - 1] * 256 + b[k]
      BY <2>4, <3>2
    <3> QED  BY <1>3, <3>1, <3>3
  <2>6. n = body(n)
    BY <2>5
  <2> HIDE DEF n
  <2>7. n[0] = 0 /\ n[1] = n[0] * 256 + b[1] /\ n[2] = n[1] * 256 + b[2]
    BY <1>3, <2>6
  <2>8. n[1] = m1 /\ n[2] = m2
    BY <2>0, <2>1, <2>2, <2>3, <2>7
  <2> QED  BY <1>1, <1>3, <2>2, <2>3, <2>8
<1>4. CASE Len(b) = 4
  <2>1. b[1] \in 0 .. 255 /\ b[2] \in 0 .. 255 /\ b[3] \in 0 .. 255 /\ b[4] \in 0 .. 255
    BY <1>2, <1>4
  <2>2. PICK m1 : m1 = b[1]
    OBVIOUS
  <2>3. PICK m2 : m2 = m1 * 256 + b[2]
    OBVIOUS
  <2>4. PICK m3 : m3 = m2 * 256 + b[3]
    OBVIOUS
  <2>5. PICK m4 : m4 = m3 * 256 + b[4]
    OBVIOUS
  <2>0. m1 \in Nat /\ m2 \in Nat /\ m3 \in Nat /\ m4 \in Nat
    <3>0. m1 \in 0 .. 255
      BY <2>1, <2>2
    <3>1. m1 \in Nat
      BY <3>0
    <3>2. m2 \in Nat
      BY <2>1, <2>3, <3>1, OneByteMore
    <3>3. m3 \in Nat
      BY <2>1, <2>4, <3>2, OneByteMore
    <3>4. m4 \in Nat
      BY <2>1, <2>5, <3>3, OneByteMore
    <3> QED  BY <3>1, <3>2, <3>3, <3>4
  <2> DEFINE g == [k \in 0 .. 4 |-> IF k = 0 THEN 0 ELSE IF k = 1 THEN m1 ELSE
                                    IF k = 2 THEN m2 ELSE IF k = 3 THEN m3 ELSE m4]
  <2>6. g[0] = 0 /\ g[1] = m1 /\ g[2] = m2 /\ g[3] = m3 /\ g[4] = m4
    OBVIOUS
  <2>7. g = body(g)
    <3>1. g = [k \in 0 .. 4 |-> g[k]]
      OBVIOUS
    <3> HIDE DEF g
    <3>2. /\ g[1] = g[0] * 256 + b[1] /\ g[2] = g[1] * 256 + b[2]
          /\ g[3] = g[2] * 256 + b[3] /\ g[4] = g[3] * 256 + b[4]
      BY <2>0, <2>1, <2>2, <2>3, <2>4, <2>5, <2>6
    <3>3. \A k \in 0 .. 4 : g[k] = IF k = 0 THEN 0 ELSE g[k - 1] * 256 + b[k]
      BY <2>6, <3>2
    <3> QED  BY <1>4, <3>1, <3>3
  <2>8. n = body(n)
    BY <2>7
  <2> HIDE DEF n
  <2>9. /\ n[0] = 0 /\ n[1] = n[0] * 256 + b[1] /\ n[2] = n[1] * 256 + b[2]
        /\ n[3] = n[2] * 256 + b[3] /\ n[4] = n[3] * 256 + b[4]
    BY <1>4, <2>8
  <2>10. n[1] = m1 /\ n[2] = m2 /\ n[3] = m3 /\ n[4] = m4
    BY <2>0, <2>1, <2>2, <2>3, <2>4, <2>5, <2>9
  <2> QED  BY <1>1, <1>4, <2>2, <2>3, <2>4, <2>5, <2>10
<1> QED  BY <1>3, <1>4

(* What is read from two or four bytes is never negative. *)
LEMMA NumberIsNat ==
    ASSUME NEW b \in Seq(Byte), Len(b) \in {2, 4}
    PROVE  Number(b) \in Nat
<1>1. \A k \in 1 .. Len(b) : b[k] \in 0 .. 255
  BY ElementOfSeq DEF Byte
<1>2. CASE Len(b) = 2
  <2>1. PICK c, d : c = b[1] /\ d = b[2]
    OBVIOUS
  <2>2. c \in 0 .. 255 /\ d \in 0 .. 255
    BY <1>1, <1>2, <2>1
  <2>3. Number(b) = c * 256 + d
    BY <1>2, <2>1, OfNumber
  <2> QED  BY <2>2, <2>3
<1>3. CASE Len(b) = 4
  <2>1. PICK c, d, e, f : c = b[1] /\ d = b[2] /\ e = b[3] /\ f = b[4]
    OBVIOUS
  <2>2. c \in 0 .. 255 /\ d \in 0 .. 255 /\ e \in 0 .. 255 /\ f \in 0 .. 255
    BY <1>1, <1>3, <2>1
  <2>3. Number(b) = ((c * 256 + d) * 256 + e) * 256 + f
    BY <1>3, <2>1, OfNumber
  <2> QED  BY <2>2, <2>3
<1> QED  BY <1>2, <1>3

(* A number takes one byte, three or five. *)
LEMMA OfVarNumber ==
    ASSUME NEW n \in Nat
    PROVE  /\ VarNumber(n) \in Seq(Byte) /\ Len(VarNumber(n)) \in {1, 3, 5}
<1>0. n \in Nat
  OBVIOUS
<1>1. CASE n < 253
  <2>1. VarNumber(n) = <<n>>
    BY <1>0, <1>1 DEF VarNumber
  <2>2. n \in Byte
    BY <1>0, <1>1 DEF Byte
  <2>3. <<n>> \in Seq(Byte) /\ Len(<<n>>) = 1
    BY <2>2
  <2> QED  BY <1>0, <1>1, <2>1, <2>3
<1>2. CASE n >= 253 /\ n <= 65535
  <2>1. VarNumber(n) = <<253>> \o Bytes(n, 2)
    BY <1>0, <1>2 DEF VarNumber
  <2>2. PICK m, b : m = <<253>> /\ b = Bytes(n, 2)
    OBVIOUS
  <2>3. m \in Seq(Byte) /\ Len(m) = 1 /\ b \in Seq(Byte) /\ Len(b) = 2
    BY <1>0, <2>2, OfBytes DEF Byte
  <2>4. m \o b \in Seq(Byte) /\ Len(m \o b) = 1 + 2
    <3>1. m \in Seq(Byte) /\ b \in Seq(Byte)
      BY <2>3
    <3>2. m \o b \in Seq(Byte) /\ Len(m \o b) = Len(m) + Len(b)
      BY <3>1, JoinedBytes
    <3> QED  BY <2>3, <3>2
  <2> QED  BY <1>0, <1>2, <2>1, <2>2, <2>4
<1>3. CASE n > 65535
  <2>1. VarNumber(n) = <<254>> \o Bytes(n, 4)
    BY <1>0, <1>3 DEF VarNumber
  <2>2. PICK m, b : m = <<254>> /\ b = Bytes(n, 4)
    OBVIOUS
  <2>3. m \in Seq(Byte) /\ Len(m) = 1 /\ b \in Seq(Byte) /\ Len(b) = 4
    BY <1>0, <2>2, OfBytes DEF Byte
  <2>4. m \o b \in Seq(Byte) /\ Len(m \o b) = 1 + 4
    <3>1. m \in Seq(Byte) /\ b \in Seq(Byte)
      BY <2>3
    <3>2. m \o b \in Seq(Byte) /\ Len(m \o b) = Len(m) + Len(b)
      BY <3>1, JoinedBytes
    <3> QED  BY <2>3, <3>2
  <2> QED  BY <1>0, <1>3, <2>1, <2>2, <2>4
<1> QED  BY <1>0, <1>1, <1>2, <1>3

(* A number is read as it was written, and so is where it ends.            *)
LEMMA NumberRead ==
    ASSUME NEW in \in Seq(Byte), NEW at \in Nat, at >= 1, NEW n \in Sizes,
           LiesAt(in, at, VarNumber(n))
    PROVE  ReadNumber(in, at) = [n |-> n, next |-> at + Len(VarNumber(n))]
<1>0. n \in Nat /\ Len(in) \in Nat /\ DOMAIN in = 1 .. Len(in)
  BY LenProperties, SizesAreNat
<1>1. CASE n < 253
  <2>1. VarNumber(n) = <<n>> /\ Len(VarNumber(n)) = 1
    BY <1>0, <1>1 DEF VarNumber
  <2>2. at \in DOMAIN in /\ in[at] = n
    BY <1>0, <2>1 DEF LiesAt
  <2>3. ReadNumber(in, at) = [n |-> n, next |-> at + 1]
    BY <1>0, <1>1, <2>2 DEF ReadNumber
  <2> QED  BY <2>1, <2>3
<1>2. CASE n >= 253 /\ n <= 65535
  <2>1. PICK m, b : m = <<253>> /\ b = Bytes(n, 2)
    OBVIOUS
  <2>2. /\ m \in Seq(Byte) /\ Len(m) = 1 /\ m[1] = 253
        /\ b \in Seq(Byte) /\ Len(b) = 2
        /\ b[1] = Second(n) /\ b[2] = First(n)
    BY <1>0, <2>1, OfBytes DEF Byte
  <2>3. VarNumber(n) = m \o b
    BY <1>0, <1>2, <2>1 DEF VarNumber
  <2>4. Len(VarNumber(n)) = 1 + 2
    <3>1. m \in Seq(Byte) /\ b \in Seq(Byte)
      BY <2>2
    <3>2. Len(m \o b) = Len(m) + Len(b)
      BY <3>1, JoinedBytes
    <3> QED  BY <2>2, <2>3, <3>2
  <2>5. LiesAt(in, at, m) /\ LiesAt(in, at + 1, b)
    <3>1. LiesAt(in, at, m \o b)
      BY <2>3
    <3>2. LiesAt(in, at, m) /\ LiesAt(in, at + Len(m), b)
      BY <2>2, <3>1, LieApart
    <3> QED  BY <2>2, <3>2
  <2>6. at \in DOMAIN in /\ in[at] = 253
    BY <1>0, <2>2, <2>5 DEF LiesAt
  <2>7. at + 2 <= Len(in) /\ in[at + 1] = b[1]
    BY <1>0, <2>2, <2>5 DEF LiesAt
  <2>8. SubSeq(in, at + 1, at + 2) = b
    <3>1. at + 1 \in Nat /\ at + 1 >= 1 /\ (at + 1) + 2 - 1 = at + 2
      BY <1>0
    <3>2. b \in Seq(Byte) /\ LiesAt(in, at + 1, b)
      BY <2>2, <2>5
    <3>3. SubSeq(in, at + 1, (at + 1) + Len(b) - 1) = b
      BY <3>1, <3>2, CutOut
    <3> QED  BY <2>2, <3>1, <3>3
  <2>9. Number(b) = n
    <3>1. Number(b) = b[1] * 256 + b[2]
      BY <2>2, OfNumber
    <3> QED  BY <1>0, <1>2, <2>2, <3>1, TwoBytes
  <2>10. ReadNumber(in, at) = [n |-> Number(SubSeq(in, at + 1, at + 2)), next |-> at + 2 + 1]
    BY <1>0, <2>6, <2>7 DEF ReadNumber
  <2>11. at + 2 + 1 = at + Len(VarNumber(n))
    BY <2>4
  <2> QED  BY <2>8, <2>9, <2>10, <2>11
<1>3. CASE n > 65535
  <2>1. PICK m, b : m = <<254>> /\ b = Bytes(n, 4)
    OBVIOUS
  <2>2. /\ m \in Seq(Byte) /\ Len(m) = 1 /\ m[1] = 254
        /\ b \in Seq(Byte) /\ Len(b) = 4
        /\ b[1] = Fourth(n) /\ b[2] = Third(n) /\ b[3] = Second(n) /\ b[4] = First(n)
    BY <1>0, <2>1, OfBytes DEF Byte
  <2>3. VarNumber(n) = m \o b
    BY <1>0, <1>3, <2>1 DEF VarNumber
  <2>4. Len(VarNumber(n)) = 1 + 4
    <3>1. m \in Seq(Byte) /\ b \in Seq(Byte)
      BY <2>2
    <3>2. Len(m \o b) = Len(m) + Len(b)
      BY <3>1, JoinedBytes
    <3> QED  BY <2>2, <2>3, <3>2
  <2>5. LiesAt(in, at, m) /\ LiesAt(in, at + 1, b)
    <3>1. LiesAt(in, at, m \o b)
      BY <2>3
    <3>2. LiesAt(in, at, m) /\ LiesAt(in, at + Len(m), b)
      BY <2>2, <3>1, LieApart
    <3> QED  BY <2>2, <3>2
  <2>6. at \in DOMAIN in /\ in[at] = 254
    BY <1>0, <2>2, <2>5 DEF LiesAt
  <2>7. at + 4 <= Len(in) /\ in[at + 1] = b[1]
    BY <1>0, <2>2, <2>5 DEF LiesAt
  <2>8. SubSeq(in, at + 1, at + 4) = b
    <3>1. at + 1 \in Nat /\ at + 1 >= 1 /\ (at + 1) + 4 - 1 = at + 4
      BY <1>0
    <3>2. b \in Seq(Byte) /\ LiesAt(in, at + 1, b)
      BY <2>2, <2>5
    <3>3. SubSeq(in, at + 1, (at + 1) + Len(b) - 1) = b
      BY <3>1, <3>2, CutOut
    <3> QED  BY <2>2, <3>1, <3>3
  <2>9. Number(b) = n
    <3>1. Number(b) = ((b[1] * 256 + b[2]) * 256 + b[3]) * 256 + b[4]
      BY <2>2, OfNumber
    <3> QED  BY <1>0, <1>3, <2>2, <3>1, FourBytes
  <2>10. ~(in[at + 1] > 127)
    <3>1. Fourth(n) <= 127 /\ Fourth(n) \in Int
      BY FourBytes
    <3>2. in[at + 1] = Fourth(n)
      BY <2>2, <2>7
    <3>3. \A t \in Int : t <= 127 => ~(t > 127)
      OBVIOUS
    <3> QED  BY <3>1, <3>2, <3>3
  <2>11. ReadNumber(in, at) = [n |-> Number(SubSeq(in, at + 1, at + 4)), next |-> at + 4 + 1]
    BY <1>0, <2>6, <2>7, <2>10 DEF ReadNumber
  <2>12. at + 4 + 1 = at + Len(VarNumber(n))
    BY <2>4
  <2> QED  BY <2>8, <2>9, <2>11, <2>12
<1> QED  BY <1>0, <1>1, <1>2, <1>3

(* Where the value of a blob starts that lies at an offset. *)
BlobStart(at, type, value) == at + Len(VarNumber(type)) + Len(VarNumber(Len(value)))

(* A blob has its type, its length and its value. *)
LEMMA OfBlob ==
    ASSUME NEW type \in Nat, NEW value \in Seq(Byte)
    PROVE  /\ BlobTlv(type, value) \in Seq(Byte)
           /\ Len(BlobTlv(type, value)) = Len(VarNumber(type)) + Len(VarNumber(Len(value))) + Len(value)
<1>1. PICK t, l : t = VarNumber(type) /\ l = VarNumber(Len(value))
  OBVIOUS
<1>2. t \in Seq(Byte) /\ l \in Seq(Byte)
  <2>1. Len(value) \in Nat
    BY LenProperties
  <2> QED  BY <1>1, <2>1, OfVarNumber
<1>3. t \o l \in Seq(Byte) /\ Len(t \o l) = Len(t) + Len(l)
  BY <1>2, JoinedBytes
<1>4. (t \o l) \o value \in Seq(Byte) /\ Len((t \o l) \o value) = Len(t \o l) + Len(value)
  BY <1>3, JoinedBytes
<1>5. BlobTlv(type, value) = (t \o l) \o value
  BY <1>1 DEF BlobTlv
<1> QED  BY <1>1, <1>3, <1>4, <1>5

(* A value is found where it has been put.                                 *)
LEMMA BlobRead ==
    ASSUME NEW in \in Seq(Byte), NEW at \in Nat, at >= 1,
           Len(in) \in Sizes, NEW type \in Sizes, NEW value \in Seq(Byte),
           LiesAt(in, at, BlobTlv(type, value))
    PROVE  /\ ReadNumber(in, at).n = type
           /\ ReadTypeAndLength(in, at, type)
                 = [start |-> BlobStart(at, type, value),
                    end |-> at + Len(BlobTlv(type, value))]
           /\ ReadTypeAndLength(in, at, type) # NoValue
           /\ BlobStart(at, type, value) \in Nat /\ BlobStart(at, type, value) >= at + 2
           /\ BlobStart(at, type, value) + Len(value) = at + Len(BlobTlv(type, value))
           /\ at + Len(BlobTlv(type, value)) <= Len(in) + 1
           /\ LiesAt(in, BlobStart(at, type, value), value)
           /\ Value(in, ReadTypeAndLength(in, at, type)) = value
<1>1. PICK t, l, n, m, k : /\ t = VarNumber(type) /\ l = VarNumber(Len(value))
                        /\ n = Len(t) /\ m = Len(l) /\ k = Len(value)
  OBVIOUS
<1>2. /\ t \in Seq(Byte) /\ l \in Seq(Byte) /\ n \in {1, 3, 5} /\ m \in {1, 3, 5}
  <2>0. type \in Nat /\ Len(value) \in Nat
    BY LenProperties, SizesAreNat
  <2>1. VarNumber(type) \in Seq(Byte) /\ Len(VarNumber(type)) \in {1, 3, 5}
    BY <2>0, OfVarNumber
  <2>2. VarNumber(Len(value)) \in Seq(Byte) /\ Len(VarNumber(Len(value))) \in {1, 3, 5}
    BY <2>0, OfVarNumber
  <2> QED  BY <1>1, <2>1, <2>2
<1>3. k \in Nat
  BY <1>1, LenProperties
<1>4. t \o l \in Seq(Byte) /\ Len(t \o l) = n + m
  BY <1>1, <1>2, JoinedBytes
<1>5. /\ BlobTlv(type, value) = (t \o l) \o value
      /\ Len(BlobTlv(type, value)) = n + m + k
  <2>1. Len(BlobTlv(type, value)) = Len(VarNumber(type)) + Len(VarNumber(Len(value))) + Len(value)
    BY OfBlob, SizesAreNat
  <2> QED  BY <1>1, <2>1 DEF BlobTlv
<1>6. LiesAt(in, at, t \o l) /\ LiesAt(in, at + (n + m), value)
  <2>1. LiesAt(in, at, (t \o l) \o value)
    BY <1>5
  <2>2. LiesAt(in, at, t \o l) /\ LiesAt(in, at + Len(t \o l), value)
    BY <1>4, <2>1, LieApart
  <2> QED  BY <1>4, <2>2
<1>7. LiesAt(in, at, t) /\ LiesAt(in, at + n, l)
  <2>1. LiesAt(in, at, t) /\ LiesAt(in, at + Len(t), l)
    BY <1>2, <1>6, LieApart
  <2> QED  BY <1>1, <2>1
<1>8. ReadNumber(in, at) = [n |-> type, next |-> at + n]
  BY <1>1, <1>7, NumberRead
<1>20. k \in Sizes
  <2>1. PICK z : z = Len(in)
    OBVIOUS
  <2>2. z \in Nat /\ z <= 2147483647
    BY SMT, <2>1 DEF Sizes
  <2>3. at + (n + m) + k <= z + 1
    BY <1>1, <1>6, <2>1 DEF LiesAt
  <2>4. k <= z
    BY <1>2, <1>3, <2>2, <2>3
  <2>5. k <= 2147483647
    BY SMT, <1>3, <2>2, <2>4
  <2> QED  BY SMT, <1>3, <2>5 DEF Sizes
<1>9. ReadNumber(in, at + n) = [n |-> k, next |-> (at + n) + m]
  <2>1. at + n \in Nat /\ at + n >= 1 /\ k \in Sizes /\ LiesAt(in, at + n, VarNumber(k))
    BY <1>1, <1>2, <1>7, <1>20
  <2>2. ReadNumber(in, at + n) = [n |-> k, next |-> (at + n) + Len(VarNumber(k))]
    BY <2>1, NumberRead
  <2> QED  BY <1>1, <2>2
<1>10. PICK s, w, z : s = at + n + m /\ w = s + k /\ z = Len(in)
  OBVIOUS
<1>11. /\ s \in Nat /\ s >= at + 2 /\ w \in Nat /\ z \in Nat /\ s = at + (n + m)
       /\ w = at + (n + m + k) /\ w <= z + 1
  <2>1. Len(in) \in Nat
    BY LenProperties
  <2>2. s \in Nat /\ s >= at + 2 /\ w \in Nat /\ s = at + (n + m) /\ w = at + (n + m + k)
    BY <1>2, <1>3, <1>10
  <2>3. s + k <= z + 1
    BY <1>1, <1>6, <1>10, <2>2 DEF LiesAt
  <2> QED  BY <1>10, <2>1, <2>2, <2>3
<1>12. ReadTypeAndLength(in, at, type) = [start |-> s, end |-> w]
  <2>1. Extent(in, [n |-> k, next |-> s]) = [start |-> s, end |-> w]
    BY <1>3, <1>10, <1>11 DEF Extent, NoNumber
  <2>2. ReadNumber(in, at).n = type /\ ReadNumber(in, ReadNumber(in, at).next) = [n |-> k, next |-> s]
    BY <1>8, <1>9, <1>10
  <2> QED  BY <2>1, <2>2 DEF ReadTypeAndLength
<1>13. s = BlobStart(at, type, value)
  BY <1>1, <1>10 DEF BlobStart
<1>14. [start |-> s, end |-> w] # NoValue
  BY <1>11 DEF NoValue
<1>15. LiesAt(in, s, value)
  BY <1>6, <1>11
<1>16. Value(in, [start |-> s, end |-> w]) = value
  <2>1. s \in Nat /\ s >= 1
    BY <1>11
  <2>2. SubSeq(in, s, s + Len(value) - 1) = value
    BY <1>15, <2>1, CutOut
  <2> QED  BY <1>1, <1>10, <2>2 DEF Value
<1>17. ReadNumber(in, at).n = type
  BY <1>8
<1>18. w = at + Len(BlobTlv(type, value))
  BY <1>5, <1>11
<1> QED  BY <1>1, <1>10, <1>11, <1>12, <1>13, <1>14, <1>15, <1>16, <1>17, <1>18

(* What is read, of whatever packet, ends after it begins and in the packet. *)
LEMMA NumberAdvances ==
    ASSUME NEW in \in Seq(Byte), NEW at \in Nat
    PROVE  \/ ReadNumber(in, at) = NoNumber
           \/ /\ ReadNumber(in, at).n \in Nat /\ ReadNumber(in, at).next \in Nat
              /\ ReadNumber(in, at).next > at /\ ReadNumber(in, at).next <= Len(in) + 1
<1> SUFFICES ASSUME ReadNumber(in, at) # NoNumber
             PROVE  /\ ReadNumber(in, at).n \in Nat /\ ReadNumber(in, at).next \in Nat
                    /\ ReadNumber(in, at).next > at /\ ReadNumber(in, at).next <= Len(in) + 1
  OBVIOUS
<1>1. Len(in) \in Nat /\ DOMAIN in = 1 .. Len(in)
  BY LenProperties
<1>2. at \in DOMAIN in
  BY DEF ReadNumber
<1>3. in[at] \in Nat /\ at <= Len(in)
  <2>1. at \in 1 .. Len(in)
    BY <1>1, <1>2
  <2>2. in[at] \in Byte
    BY <2>1, ElementOfSeq
  <2>3. \A b \in Byte : b \in Nat
    BY DEF Byte
  <2>4. in[at] \in Nat
    BY <2>2, <2>3
  <2> QED  BY <1>1, <2>1, <2>4
<1>4. CASE in[at] < 253
  <2>1. ReadNumber(in, at) = [n |-> in[at], next |-> at + 1]
    BY <1>2, <1>3, <1>4 DEF ReadNumber
  <2> QED  BY <1>1, <1>3, <2>1
<1>5. CASE ~(in[at] < 253)
  <2>1. PICK count : count = IF in[at] = 253 THEN 2 ELSE 4
    OBVIOUS
  <2>2. count \in {2, 4}
    BY <2>1
  <2>3. in[at] >= 253
    BY <1>3, <1>5
  <2>4. /\ at + count <= Len(in)
        /\ ReadNumber(in, at) = [n |-> Number(SubSeq(in, at + 1, at + count)), next |-> at + count + 1]
    BY <1>1, <1>2, <1>5, <2>1, <2>2, <2>3 DEF ReadNumber
  <2>5. Number(SubSeq(in, at + 1, at + count)) \in Nat
    <3>1. \A i \in at + 1 .. at + count : in[i] \in Byte
      <4> SUFFICES ASSUME NEW i \in at + 1 .. at + count PROVE in[i] \in Byte
        OBVIOUS
      <4>1. i \in 1 .. Len(in)
        BY <1>1, <2>2, <2>4
      <4> QED  BY <4>1, ElementOfSeq
    <3>2. PICK b : b = SubSeq(in, at + 1, at + count)
      OBVIOUS
    <3>3. /\ b \in Seq(Byte)
          /\ Len(b) = IF at + 1 <= at + count THEN (at + count) - (at + 1) + 1 ELSE 0
      <4>1. at + 1 \in Int /\ at + count \in Int
        BY <2>2
      <4> QED  BY <3>1, <3>2, <4>1, SubSeqProperties
    <3>4. Len(b) \in {2, 4}
      BY <2>2, <3>3
    <3> QED  BY <3>2, <3>3, <3>4, NumberIsNat
  <2> QED  BY <1>1, <2>2, <2>4, <2>5
<1> QED  BY <1>4, <1>5

(* What has been read ends behind where it started, in the packet. *)
LEMMA ReadAdvances ==
    ASSUME NEW in \in Seq(Byte), NEW at \in Nat, at >= 1, NEW type,
           ReadTypeAndLength(in, at, type) # NoValue
    PROVE  /\ ReadTypeAndLength(in, at, type).end \in Nat
           /\ ReadTypeAndLength(in, at, type).end > at
           /\ ReadTypeAndLength(in, at, type).end <= Len(in) + 1
<1>1. PICK t, l : t = ReadNumber(in, at) /\ l = ReadNumber(in, t.next)
  OBVIOUS
<1>2. ReadTypeAndLength(in, at, type) = Extent(in, l)
  BY <1>1 DEF ReadTypeAndLength
<1>3. l # NoNumber /\ ~(l.next + l.n > Len(in) + 1) /\ Extent(in, l) = [start |-> l.next, end |-> l.next + l.n]
  <2>1. Extent(in, l) # NoValue
    BY <1>2
  <2> QED  BY <2>1 DEF Extent
<1>4. t # NoNumber
  <2> SUFFICES ASSUME t = NoNumber PROVE FALSE
    OBVIOUS
  <2>1. t.next = 0
    BY DEF NoNumber
  <2>2. ReadNumber(in, 0) = NoNumber
    <3>1. 0 \notin DOMAIN in
      BY LenProperties
    <3> QED  BY <3>1 DEF ReadNumber
  <2> QED  BY <1>1, <1>3, <2>1, <2>2
<1>5. t.next \in Nat /\ t.next > at
  BY <1>1, <1>4, NumberAdvances
<1>6. l.n \in Nat /\ l.next \in Nat /\ l.next > t.next
  BY <1>1, <1>3, <1>5, NumberAdvances
<1>7. l.next + l.n \in Nat /\ l.next + l.n > at /\ l.next + l.n <= Len(in) + 1
  <2>1. Len(in) \in Nat
    BY LenProperties
  <2> QED  BY <1>3, <1>5, <1>6, <2>1
<1> QED  BY <1>2, <1>3, <1>7

(* What a name is from an offset on, given what it is from later ones on.  *)
Rest(in, end, f, o) ==
    LET c == ReadTypeAndLength(in, o, ReadNumber(in, o).n) IN
    CASE o = end -> [name |-> << >>, next |-> o]
      [] o > end -> NoName
      [] OTHER ->
            IF c = NoValue \/ f[c.end] = NoName THEN NoName
            ELSE [name |-> <<Value(in, c)>> \o f[c.end].name, next |-> f[c.end].next]

(* The rest of a name depends on what is read further on only. *)
LEMMA RestOfLater ==
    ASSUME NEW in \in Seq(Byte), NEW end, NEW f, NEW g, NEW o \in Nat, o >= 1,
           \A p \in Nat : p > o /\ p <= Len(in) + 1 => f[p] = g[p]
    PROVE  Rest(in, end, f, o) = Rest(in, end, g, o)
<1>1. PICK c : c = ReadTypeAndLength(in, o, ReadNumber(in, o).n)
  OBVIOUS
<1>2. CASE c = NoValue
  BY <1>1, <1>2 DEF Rest
<1>3. CASE c # NoValue
  <2>1. c.end \in Nat /\ c.end > o /\ c.end <= Len(in) + 1
    BY <1>1, <1>3, ReadAdvances
  <2>2. f[c.end] = g[c.end]
    BY <2>1
  <2> QED  BY <1>1, <2>2 DEF Rest
<1> QED  BY <1>2, <1>3

(* From an offset on, the name from every offset is determined.            *)
ReadFrom(in, end, m, f) ==
    f = [o \in m .. Len(in) + 1 |-> Rest(in, end, f, o)]

(* Reading from one offset earlier extends what is read from the later     *)
(* ones.                                                                   *)
LEMMA ReadEarlier ==
    ASSUME NEW in \in Seq(Byte), NEW end, NEW m \in Nat, m >= 1, m <= Len(in),
           NEW f, ReadFrom(in, end, m + 1, f)
    PROVE  \E g : ReadFrom(in, end, m, g)
<1>1. PICK l : l = Len(in) + 1
  OBVIOUS
<1>2. l \in Nat /\ m <= l
  BY <1>1, LenProperties
<1> DEFINE g == [o \in m .. l |-> IF o = m THEN Rest(in, end, f, m) ELSE f[o]]
<1>3. \A p \in Nat : p > m /\ p <= l => g[p] = f[p]
  BY <1>2
<1>4. g[m] = Rest(in, end, f, m)
  BY <1>2
<1>5. \A o \in m .. l : g[o] = Rest(in, end, g, o)
  <2> SUFFICES ASSUME NEW o \in m .. l PROVE g[o] = Rest(in, end, g, o)
    OBVIOUS
  <2>0. o \in Nat /\ o >= 1
    BY <1>2
  <2>1. Rest(in, end, g, o) = Rest(in, end, f, o)
    <3>1. \A p \in Nat : p > o /\ p <= Len(in) + 1 => g[p] = f[p]
      BY <1>1, <1>3
    <3> HIDE DEF g
    <3> QED  BY <2>0, <3>1, RestOfLater
  <2>2. CASE o = m
    BY <1>4, <2>1, <2>2
  <2>3. CASE o # m
    <3>1. o \in m + 1 .. l /\ g[o] = f[o]
      BY <1>2, <1>3, <2>3
    <3>2. f[o] = Rest(in, end, f, o)
      BY <1>1, <3>1 DEF ReadFrom
    <3> QED  BY <2>1, <3>1, <3>2
  <2> QED  BY <2>2, <2>3
<1>6. g = [o \in m .. l |-> g[o]]
  OBVIOUS
<1> HIDE DEF g
<1>7. ReadFrom(in, end, m, g)
  BY <1>1, <1>5, <1>6 DEF ReadFrom
<1> QED  BY <1>7

(* So there is what is read from the first offset on. *)
LEMMA ReadFromStart ==
    ASSUME NEW in \in Seq(Byte), NEW end
    PROVE  \E f : ReadFrom(in, end, 1, f)
<1>1. PICK l : l = Len(in) + 1
  OBVIOUS
<1>2. l \in Nat /\ l >= 1 /\ Len(in) \in Nat
  BY <1>1, LenProperties
<1> DEFINE U == {m \in 1 .. l : \E f : ReadFrom(in, end, m, f)}
<1>3. U \subseteq Nat
  OBVIOUS
<1>4. l \in U
  <2>1. PICK e : TRUE
    OBVIOUS
  <2>2. PICK f : f = [o \in l .. l |-> Rest(in, end, e, l)]
    OBVIOUS
  <2>3. Rest(in, end, f, l) = Rest(in, end, e, l)
    <3>1. \A p \in Nat : p > l /\ p <= Len(in) + 1 => f[p] = e[p]
      BY <1>1, <1>2
    <3> QED  BY <1>2, <3>1, RestOfLater
  <2>4. f = [o \in l .. l |-> Rest(in, end, f, o)]
    BY <1>2, <2>2, <2>3
  <2>5. ReadFrom(in, end, l, f)
    BY <1>1, <2>4 DEF ReadFrom
  <2> QED  BY <1>2, <2>5
<1>5. PICK x \in U : \A y \in U : x <= y
  <2> HIDE DEF U
  <2> QED  BY <1>3, <1>4, LeastOf
<1>6. x \in 1 .. l /\ \E f : ReadFrom(in, end, x, f)
  OBVIOUS
<1>7. x = 1
  <2> SUFFICES ASSUME x # 1 PROVE FALSE
    OBVIOUS
  <2>1. x - 1 \in Nat /\ x - 1 >= 1 /\ x - 1 <= Len(in) /\ (x - 1) + 1 = x /\ x - 1 \in 1 .. l
    BY <1>1, <1>2, <1>6
  <2>2. PICK f : ReadFrom(in, end, (x - 1) + 1, f)
    BY <1>6, <2>1
  <2>3. \E g : ReadFrom(in, end, x - 1, g)
    BY <2>1, <2>2, ReadEarlier
  <2>4. x - 1 \in U
    BY <2>1, <2>3
  <2>5. x <= x - 1
    BY <1>5, <2>4
  <2> QED  BY <1>6, <2>5
<1> QED  BY <1>6, <1>7

(* The name that is read is that from the start of its value on.           *)
LEMMA NameIsRead ==
    ASSUME NEW in \in Seq(Byte), NEW at, ReadTypeAndLength(in, at, 7) # NoValue
    PROVE  \E f : /\ ReadFrom(in, ReadTypeAndLength(in, at, 7).end, 1, f)
                  /\ DecodedName(in, at) = f[ReadTypeAndLength(in, at, 7).start]
<1>1. PICK s : s = ReadTypeAndLength(in, at, 7)
  OBVIOUS
<1>2. PICK f : f = CHOOSE g : ReadFrom(in, s.end, 1, g)
  OBVIOUS
<1>3. ReadFrom(in, s.end, 1, f)
  BY <1>2, ReadFromStart
<1>4. DecodedName(in, at) = f[s.start]
  BY <1>1, <1>2 DEF DecodedName, ReadFrom, Rest
<1> QED  BY <1>1, <1>3, <1>4

(* f[i] is the first i of the sequences, one after the other.              *)
Joins(seqs, n, f) ==
    f = [i \in 1 .. n |-> IF i = 1 THEN seqs[i] ELSE f[i - 1] \o seqs[i]]

(* One sequence more can be joined. *)
LEMMA JoinsMore ==
    ASSUME NEW seqs, NEW n \in Nat, n >= 1, NEW f, Joins(seqs, n, f)
    PROVE  \E g : Joins(seqs, n + 1, g)
<1> DEFINE g == [i \in 1 .. n + 1 |-> IF i = n + 1 THEN f[n] \o seqs[n + 1] ELSE f[i]]
<1>1. \A i \in 1 .. n : g[i] = f[i]
  OBVIOUS
<1>2. g[n + 1] = f[n] \o seqs[n + 1]
  <2>1. n + 1 \in 1 .. n + 1
    OBVIOUS
  <2> QED  BY <2>1
<1>3. g = [i \in 1 .. n + 1 |-> g[i]]
  OBVIOUS
<1> HIDE DEF g
<1>4. \A i \in 1 .. n + 1 : g[i] = IF i = 1 THEN seqs[i] ELSE g[i - 1] \o seqs[i]
  <2> SUFFICES ASSUME NEW i \in 1 .. n + 1
               PROVE  g[i] = IF i = 1 THEN seqs[i] ELSE g[i - 1] \o seqs[i]
    OBVIOUS
  <2>1. CASE i = n + 1
    <3>1. i # 1 /\ i - 1 = n /\ n \in 1 .. n
      BY <2>1
    <3>2. g[i - 1] = f[n]
      BY <1>1, <3>1
    <3> QED  BY <1>2, <2>1, <3>1, <3>2
  <2>2. CASE i # n + 1
    <3>1. i \in 1 .. n
      BY <2>2
    <3>2. f[i] = IF i = 1 THEN seqs[i] ELSE f[i - 1] \o seqs[i]
      BY <3>1 DEF Joins
    <3>3. CASE i = 1
      BY <1>1, <3>1, <3>2, <3>3
    <3>4. CASE i # 1
      <4>1. i - 1 \in 1 .. n
        BY <3>1, <3>4
      <4>2. g[i - 1] = f[i - 1] /\ g[i] = f[i]
        BY <1>1, <3>1, <4>1
      <4> QED  BY <3>2, <3>4, <4>2
    <3> QED  BY <3>3, <3>4
  <2> QED  BY <2>1, <2>2
<1>5. Joins(seqs, n + 1, g)
  BY <1>3, <1>4 DEF Joins
<1> QED  BY <1>5

(* So any number can. *)
LEMMA JoinsAll ==
    ASSUME NEW seqs, NEW n \in Nat, n >= 1
    PROVE  \E f : Joins(seqs, n, f)
<1> DEFINE U == {m \in 1 .. n : ~\E f : Joins(seqs, m, f)}
<1> SUFFICES ASSUME U # {} PROVE FALSE
  OBVIOUS
<1>1. U \subseteq Nat
  OBVIOUS
<1>2. PICK x \in U : \A y \in U : x <= y
  <2> HIDE DEF U
  <2> QED  BY <1>1, LeastOf
<1>3. x \in 1 .. n /\ ~\E f : Joins(seqs, x, f)
  OBVIOUS
<1>4. x # 1
  <2>1. PICK f : f = [i \in 1 .. 1 |-> seqs[i]]
    OBVIOUS
  <2>2. f = [i \in 1 .. 1 |-> IF i = 1 THEN seqs[i] ELSE f[i - 1] \o seqs[i]]
    BY <2>1
  <2>3. Joins(seqs, 1, f)
    BY <2>2 DEF Joins
  <2> QED  BY <1>3, <2>3
<1>5. x - 1 \in 1 .. n /\ x - 1 \in Nat /\ x - 1 >= 1 /\ (x - 1) + 1 = x /\ ~(x <= x - 1)
  BY <1>3, <1>4
<1>6. PICK f : Joins(seqs, x - 1, f)
  BY <1>2, <1>5
<1>7. \E g : Joins(seqs, (x - 1) + 1, g)
  BY <1>5, <1>6, JoinsMore
<1> QED  BY <1>3, <1>5, <1>7

(* FlattenSeq joins all of them. *)
LEMMA FlattensJoined ==
    ASSUME NEW seqs, NEW n \in Nat, n >= 1, Len(seqs) = n
    PROVE  \E f : Joins(seqs, n, f) /\ FlattenSeq(seqs) = f[n]
<1>1. PICK f : f = CHOOSE g : Joins(seqs, n, g)
  OBVIOUS
<1>2. Joins(seqs, n, f)
  BY <1>1, JoinsAll
<1>3. n # 0
  OBVIOUS
<1>4. FlattenSeq(seqs) = f[n]
  BY <1>1, <1>3 DEF FlattenSeq, Joins
<1> QED  BY <1>2, <1>4

(* Bytes that are joined are bytes. *)
LEMMA JoinedAreBytes ==
    ASSUME NEW seqs, NEW n \in Nat, NEW f, Joins(seqs, n, f),
           \A i \in 1 .. n : seqs[i] \in Seq(Byte), NEW k \in 1 .. n
    PROVE  f[k] \in Seq(Byte)
<1> DEFINE U == {i \in 1 .. n : f[i] \notin Seq(Byte)}
<1> SUFFICES ASSUME U # {} PROVE FALSE
  OBVIOUS
<1>1. U \subseteq Nat
  OBVIOUS
<1>2. PICK x \in U : \A y \in U : x <= y
  <2> HIDE DEF U
  <2> QED  BY <1>1, LeastOf
<1>3. x \in 1 .. n /\ f[x] \notin Seq(Byte)
  OBVIOUS
<1>4. f[x] = IF x = 1 THEN seqs[x] ELSE f[x - 1] \o seqs[x]
  BY <1>3 DEF Joins
<1>5. x # 1
  BY <1>3, <1>4
<1>6. x - 1 \in 1 .. n /\ ~(x <= x - 1)
  BY <1>3, <1>5
<1>7. f[x - 1] \in Seq(Byte)
  BY <1>2, <1>6
<1>8. f[x - 1] \o seqs[x] \in Seq(Byte)
  BY <1>3, <1>7, JoinedBytes
<1> QED  BY <1>3, <1>4, <1>5, <1>8

(* Where the first i of them end, if all of them begin at s.               *)
EndOf(s, f, i) == IF i = 0 THEN s ELSE s + Len(f[i])

(* The k-th of the joined sequences lies behind those before it. *)
Placed(in, s, f, seqs, k) ==
    /\ LiesAt(in, EndOf(s, f, k - 1), seqs[k])
    /\ EndOf(s, f, k - 1) \in Nat /\ EndOf(s, f, k - 1) >= s
    /\ EndOf(s, f, k) = EndOf(s, f, k - 1) + Len(seqs[k])

(* All that has been joined lies in the packet one after the other.        *)
LEMMA JoinedLie ==
    ASSUME NEW in \in Seq(Byte), NEW s \in Nat,
           NEW seqs, NEW n \in Nat, NEW f, Joins(seqs, n, f),
           \A i \in 1 .. n : seqs[i] \in Seq(Byte),
           n >= 1, LiesAt(in, s, f[n]), NEW k \in 1 .. n
    PROVE  Placed(in, s, f, seqs, k)
<1>1. \A i \in 1 .. n : f[i] \in Seq(Byte) /\ Len(f[i]) \in Nat
  BY JoinedAreBytes, LenProperties
<1>2. \A i \in 1 .. n : f[i] = IF i = 1 THEN seqs[i] ELSE f[i - 1] \o seqs[i]
  BY DEF Joins
<1>3. \A i \in 2 .. n : /\ LiesAt(in, s, f[i]) => LiesAt(in, s, f[i - 1])
                        /\ LiesAt(in, s, f[i]) => LiesAt(in, s + Len(f[i - 1]), seqs[i])
                        /\ Len(f[i]) = Len(f[i - 1]) + Len(seqs[i])
  <2> SUFFICES ASSUME NEW i \in 2 .. n
               PROVE  /\ LiesAt(in, s, f[i]) => LiesAt(in, s, f[i - 1])
                      /\ LiesAt(in, s, f[i]) => LiesAt(in, s + Len(f[i - 1]), seqs[i])
                      /\ Len(f[i]) = Len(f[i - 1]) + Len(seqs[i])
    OBVIOUS
  <2>1. i \in 1 .. n /\ i - 1 \in 1 .. n /\ i # 1
    OBVIOUS
  <2>2. PICK a, b : a = f[i - 1] /\ b = seqs[i]
    OBVIOUS
  <2>3. a \in Seq(Byte) /\ b \in Seq(Byte) /\ f[i] = a \o b
    BY <1>1, <1>2, <2>1, <2>2
  <2>4. LiesAt(in, s, a \o b) => LiesAt(in, s, a) /\ LiesAt(in, s + Len(a), b)
    BY <2>3, LieApart
  <2>5. Len(a \o b) = Len(a) + Len(b)
    BY <2>3, JoinedBytes
  <2> QED  BY <2>2, <2>3, <2>4, <2>5
<1>4. \A i \in 1 .. n : LiesAt(in, s, f[i])
  <2> DEFINE U == {d \in 0 .. n - 1 : ~LiesAt(in, s, f[n - d])}
  <2>1. U = {}
    <3> SUFFICES ASSUME U # {} PROVE FALSE
      OBVIOUS
    <3>1. U \subseteq Nat
      OBVIOUS
    <3>2. PICK x \in U : \A y \in U : x <= y
      <4> HIDE DEF U
      <4> QED  BY <3>1, LeastOf
    <3>3. x \in 0 .. n - 1 /\ ~LiesAt(in, s, f[n - x])
      OBVIOUS
    <3>4. x # 0
      <4>1. n - 0 = n
        OBVIOUS
      <4> QED  BY <3>3, <4>1
    <3>5. x - 1 \in 0 .. n - 1 /\ ~(x <= x - 1) /\ n - (x - 1) \in 2 .. n /\ (n - (x - 1)) - 1 = n - x
      BY <3>3, <3>4
    <3>6. LiesAt(in, s, f[n - (x - 1)])
      BY <3>2, <3>5
    <3>7. LiesAt(in, s, f[(n - (x - 1)) - 1])
      BY <1>3, <3>5, <3>6
    <3> QED  BY <3>3, <3>5, <3>7
  <2> SUFFICES ASSUME NEW i \in 1 .. n PROVE LiesAt(in, s, f[i])
    OBVIOUS
  <2>2. n - i \in 0 .. n - 1 /\ n - (n - i) = i
    OBVIOUS
  <2>3. n - i \notin U
    BY <2>1
  <2> QED  BY <2>2, <2>3
<1>5. CASE k = 1
  <2>1. EndOf(s, f, k - 1) = s /\ EndOf(s, f, k) = s + Len(f[1]) /\ f[1] = seqs[1]
    BY <1>2, <1>5 DEF EndOf
  <2>2. LiesAt(in, s, f[1])
    BY <1>4, <1>5
  <2> QED  BY <1>5, <2>1, <2>2 DEF Placed
<1>6. CASE k # 1
  <2>1. k \in 2 .. n /\ k - 1 \in 1 .. n /\ k - 1 # 0 /\ k # 0
    BY <1>6
  <2>2. EndOf(s, f, k - 1) = s + Len(f[k - 1]) /\ EndOf(s, f, k) = s + Len(f[k])
    BY <2>1 DEF EndOf
  <2>3. LiesAt(in, s + Len(f[k - 1]), seqs[k]) /\ Len(f[k]) = Len(f[k - 1]) + Len(seqs[k])
    BY <1>3, <1>4, <2>1
  <2>4. Len(f[k - 1]) \in Nat /\ Len(seqs[k]) \in Nat
    BY <1>1, <2>1, LenProperties
  <2>5. PICK a, b : a = Len(f[k - 1]) /\ b = Len(seqs[k])
    OBVIOUS
  <2>6. s + a \in Nat /\ s + a >= s /\ s + (a + b) = (s + a) + b
    <3>1. a \in Nat /\ b \in Nat
      BY <2>4, <2>5
    <3> QED  BY <3>1
  <2>7. EndOf(s, f, k - 1) = s + a /\ EndOf(s, f, k) = s + (a + b)
    BY <2>2, <2>3, <2>5
  <2>8. LiesAt(in, s + a, seqs[k])
    BY <2>3, <2>5
  <2> QED  BY <2>5, <2>6, <2>7, <2>8 DEF Placed
<1> QED  BY <1>5, <1>6

(* A blob is two to ten bytes longer than its value. *)
LEMMA SizeOfBlob ==
    ASSUME NEW type \in Nat, NEW value \in Seq(Byte)
    PROVE  /\ Len(BlobTlv(type, value)) \in Nat /\ Len(BlobTlv(type, value)) >= Len(value) + 2
           /\ Len(BlobTlv(type, value)) <= Len(value) + 10 /\ Len(BlobTlv(type, value)) >= 2
           /\ Len(value) \in Nat
<1>1. PICK n, m, k : n = Len(VarNumber(type)) /\ m = Len(VarNumber(Len(value))) /\ k = Len(value)
  OBVIOUS
<1>2. k \in Nat
  BY <1>1, LenProperties
<1>3. n \in {1, 3, 5} /\ m \in {1, 3, 5}
  BY <1>1, <1>2, OfVarNumber
<1>4. Len(BlobTlv(type, value)) = n + m + k
  BY <1>1, OfBlob
<1>5. n + m + k \in Nat /\ n + m + k >= k + 2 /\ n + m + k <= k + 10 /\ n + m + k >= 2
  BY <1>2, <1>3
<1> QED  BY <1>1, <1>2, <1>4, <1>5

(* The components of a name as they are written. *)
Blobs(name) == [i \in DOMAIN name |-> BlobTlv(8, name[i])]

(* A name is written with bytes. *)
LEMMA OfName ==
    ASSUME NEW name \in Seq(Seq(Byte))
    PROVE  /\ FlattenSeq(Blobs(name)) \in Seq(Byte) /\ NameTlv(name) \in Seq(Byte)
           /\ \A i \in 1 .. Len(name) : Blobs(name)[i] \in Seq(Byte)
           /\ Len(Blobs(name)) = Len(name)
<1>1. PICK n : n = Len(name)
  OBVIOUS
<1>2. n \in Nat /\ DOMAIN name = 1 .. n
  BY <1>1, LenProperties
<1>3. \A i \in 1 .. n : Blobs(name)[i] = BlobTlv(8, name[i])
  BY <1>2 DEF Blobs
<1>4. \A i \in 1 .. n : Blobs(name)[i] \in Seq(Byte)
  <2> SUFFICES ASSUME NEW i \in 1 .. n PROVE Blobs(name)[i] \in Seq(Byte)
    OBVIOUS
  <2>1. name[i] \in Seq(Byte)
    BY <1>1, ElementOfSeq
  <2>2. BlobTlv(8, name[i]) \in Seq(Byte)
    BY <2>1, OfBlob
  <2> QED  BY <1>3, <2>2
<1>5. Blobs(name) \in [1 .. n -> Seq(Byte)]
  BY <1>2, <1>4 DEF Blobs
<1>6. Len(Blobs(name)) = n
  BY <1>2, <1>5, IsSequence
<1>7. FlattenSeq(Blobs(name)) \in Seq(Byte)
  <2>1. CASE n = 0
    <3>1. FlattenSeq(Blobs(name)) = Blobs(name)
      BY <1>6, <2>1 DEF FlattenSeq
    <3>2. Blobs(name) \in [1 .. 0 -> Byte]
      BY <1>5, <2>1
    <3>3. Blobs(name) \in Seq(Byte)
      BY <3>2, IsSequence
    <3> QED  BY <3>1, <3>3
  <2>2. CASE n # 0
    <3>1. n >= 1 /\ n \in 1 .. n
      BY <1>2, <2>2
    <3>2. PICK f : Joins(Blobs(name), n, f) /\ FlattenSeq(Blobs(name)) = f[n]
      BY <1>2, <1>6, <3>1, FlattensJoined
    <3>3. f[n] \in Seq(Byte)
      BY <1>2, <1>4, <3>1, <3>2, JoinedAreBytes
    <3> QED  BY <3>2, <3>3
  <2> QED  BY <2>1, <2>2
<1>8. NameTlv(name) = BlobTlv(7, FlattenSeq(Blobs(name)))
  BY DEF NameTlv, Blobs
<1>9. BlobTlv(7, FlattenSeq(Blobs(name))) \in Seq(Byte)
  BY <1>7, OfBlob
<1> QED  BY <1>1, <1>4, <1>6, <1>7, <1>8, <1>9

(* From the offset o on, a name is read that ends at the offset end. *)
ReadsTo(r, o, name, end) == r[o] = [name |-> name, next |-> end]

(* From a component on: the component, and what follows it.                *)
LEMMA ComponentRead ==
    ASSUME NEW in \in Seq(Byte), Len(in) \in Sizes, NEW end \in Nat, NEW r,
           ReadFrom(in, end, 1, r), NEW o \in Nat, o >= 1, o < end,
           NEW component \in Seq(Byte), LiesAt(in, o, BlobTlv(8, component)),
           NEW rest, ReadsTo(r, o + Len(BlobTlv(8, component)), rest, end)
    PROVE  ReadsTo(r, o, <<component>> \o rest, end)
<1>1. PICK c : c = ReadTypeAndLength(in, o, 8)
  OBVIOUS
<1>2. 8 \in Sizes
  BY DEF Sizes
<1>3. /\ ReadNumber(in, o).n = 8 /\ c # NoValue /\ Value(in, c) = component
      /\ c.end = o + Len(BlobTlv(8, component))
      /\ o + Len(BlobTlv(8, component)) <= Len(in) + 1
  <2>1. /\ ReadNumber(in, o).n = 8
        /\ ReadTypeAndLength(in, o, 8) = [start |-> BlobStart(o, 8, component),
                                          end |-> o + Len(BlobTlv(8, component))]
        /\ ReadTypeAndLength(in, o, 8) # NoValue
        /\ o + Len(BlobTlv(8, component)) <= Len(in) + 1
        /\ Value(in, ReadTypeAndLength(in, o, 8)) = component
    BY <1>2, BlobRead
  <2> QED  BY <1>1, <2>1
<1>4. o \in 1 .. Len(in) + 1
  <2>1. Len(in) \in Nat /\ Len(BlobTlv(8, component)) \in Nat
    BY OfBlob, LenProperties
  <2> QED  BY <1>3, <2>1
<1>5. r[o] = Rest(in, end, r, o)
  BY <1>4 DEF ReadFrom
<1>6. [name |-> rest, next |-> end] # NoName
  BY DEF NoName
<1>7. o # end /\ ~(o > end)
  OBVIOUS
<1>9. r[c.end] = [name |-> rest, next |-> end]
  BY <1>3 DEF ReadsTo
<1>8. Rest(in, end, r, o) = [name |-> <<component>> \o r[c.end].name, next |-> r[c.end].next]
  BY <1>1, <1>3, <1>6, <1>7, <1>9 DEF Rest
<1>10. r[c.end].name = rest /\ r[c.end].next = end
  BY <1>9
<1> QED  BY <1>5, <1>8, <1>10 DEF ReadsTo

(* decode_name reads the name that lies in a packet, whatever its          *)
(* components.                                                             *)
LEMMA NameRead ==
    ASSUME NEW in \in Seq(Byte), Len(in) \in Sizes, NEW at \in Nat, at >= 1,
           NEW name \in Seq(Seq(Byte)), LiesAt(in, at, NameTlv(name))
    PROVE  DecodedName(in, at) = [name |-> name, next |-> at + Len(NameTlv(name))]
<1>1. PICK n, flat, z : n = Len(name) /\ flat = FlattenSeq(Blobs(name)) /\ z = Len(in) + 1
  OBVIOUS
<1>2. /\ n \in Nat /\ z \in Nat /\ flat \in Seq(Byte) /\ Len(flat) \in Nat
      /\ \A i \in 1 .. n : Blobs(name)[i] \in Seq(Byte)
      /\ Len(Blobs(name)) = n /\ DOMAIN name = 1 .. n
  BY <1>1, OfName, LenProperties
<1>3. NameTlv(name) = BlobTlv(7, flat)
  BY <1>1 DEF NameTlv, Blobs
<1>4. PICK s, end : s = BlobStart(at, 7, flat) /\ end = at + Len(NameTlv(name))
  OBVIOUS
<1>5. /\ ReadTypeAndLength(in, at, 7) = [start |-> s, end |-> end]
      /\ ReadTypeAndLength(in, at, 7) # NoValue
      /\ s \in Nat /\ s >= 1 /\ end = s + Len(flat) /\ end <= z /\ LiesAt(in, s, flat)
  <2>1. 7 \in Sizes /\ LiesAt(in, at, BlobTlv(7, flat)) /\ flat \in Seq(Byte)
    BY <1>2, <1>3 DEF Sizes
  <2>2. /\ ReadTypeAndLength(in, at, 7) = [start |-> BlobStart(at, 7, flat),
                                           end |-> at + Len(BlobTlv(7, flat))]
        /\ ReadTypeAndLength(in, at, 7) # NoValue
        /\ BlobStart(at, 7, flat) \in Nat /\ BlobStart(at, 7, flat) >= at + 2
        /\ BlobStart(at, 7, flat) + Len(flat) = at + Len(BlobTlv(7, flat))
        /\ at + Len(BlobTlv(7, flat)) <= Len(in) + 1
        /\ LiesAt(in, BlobStart(at, 7, flat), flat)
    BY <2>1, BlobRead
  <2>3. s \in Nat /\ s >= at + 2
    BY <1>4, <2>2
  <2>4. s >= 1
    BY <2>3
  <2> QED  BY <1>1, <1>3, <1>4, <2>2, <2>3, <2>4
<1>6. end \in Nat /\ end >= s
  BY <1>2, <1>5
<1>7. PICK r : ReadFrom(in, end, 1, r) /\ DecodedName(in, at) = r[s]
  BY <1>5, NameIsRead
<1>8. r[end] = [name |-> << >>, next |-> end]
  <2>1. end \in 1 .. Len(in) + 1
    BY <1>1, <1>2, <1>5, <1>6
  <2>2. r[end] = Rest(in, end, r, end)
    BY <1>7, <2>1 DEF ReadFrom
  <2>3. Rest(in, end, r, end) = [name |-> << >>, next |-> end]
    BY <1>6 DEF Rest
  <2> QED  BY <2>2, <2>3
<1>9. CASE n = 0
  <2>1. name = << >>
    BY <1>2, <1>9
  <2>2. Len(flat) = 0
    BY <1>1, <1>2, <1>9 DEF FlattenSeq
  <2>3. end = s
    BY <1>5, <2>2
  <2> QED  BY <1>4, <1>7, <1>8, <2>1, <2>3
<1>10. CASE n # 0
  <2>0. n >= 1 /\ n \in 1 .. n
    BY <1>2, <1>10
  <2>1. PICK f : Joins(Blobs(name), n, f) /\ flat = f[n]
    BY <1>1, <1>2, <2>0, FlattensJoined
  <2> DEFINE E(i) == EndOf(s, f, i)
  <2>2. PICK blobs : blobs = Blobs(name)
    OBVIOUS
  <2>3. /\ Joins(blobs, n, f) /\ \A i \in 1 .. n : blobs[i] \in Seq(Byte)
        /\ LiesAt(in, s, f[n]) /\ LiesAt(flat, 1, f[n])
    <3>1. LiesAt(flat, 1, flat)
      BY <1>2, LiesWhole
    <3> QED  BY <1>2, <1>5, <2>1, <2>2, <3>1
  <2>4. ASSUME NEW k \in 1 .. n
        PROVE  /\ LiesAt(in, E(k - 1), blobs[k]) /\ LiesAt(flat, EndOf(1, f, k - 1), blobs[k])
               /\ E(k - 1) \in Nat /\ E(k - 1) >= s
               /\ EndOf(1, f, k - 1) \in Nat
               /\ E(k) = E(k - 1) + Len(blobs[k])
    <3>1. Placed(in, s, f, blobs, k)
      <4>1. s \in Nat /\ n \in Nat /\ n >= 1
        BY <1>2, <1>5, <2>0
      <4> QED  BY <2>3, <4>1, JoinedLie
    <3>2. Placed(flat, 1, f, blobs, k)
      BY <1>2, <2>0, <2>3, JoinedLie
    <3> QED  BY <3>1, <3>2 DEF Placed
  <2>5. ASSUME NEW k \in 1 .. n
        PROVE  name[k] \in Seq(Byte) /\ blobs[k] = BlobTlv(8, name[k]) /\ Len(blobs[k]) \in Nat /\ Len(blobs[k]) >= 2
    <3>1. name[k] \in Seq(Byte) /\ blobs[k] = BlobTlv(8, name[k])
      BY <1>1, <1>2, <2>2, ElementOfSeq DEF Blobs
    <3>2. Len(BlobTlv(8, name[k])) \in Nat /\ Len(BlobTlv(8, name[k])) >= 2
      BY <3>1, SizeOfBlob
    <3> QED  BY <3>1, <3>2
  <2>6. ASSUME NEW k \in 1 .. n PROVE E(k - 1) < end
    <3>1. PICK e, l, w : e = EndOf(1, f, k - 1) /\ l = Len(blobs[k]) /\ w = Len(flat)
      OBVIOUS
    <3>2. e \in Nat /\ l \in Nat /\ l >= 2 /\ w \in Nat
      BY <1>2, <2>4, <2>5, <3>1
    <3>3. e + l <= w + 1
      BY <2>4, <3>1 DEF LiesAt
    <3>4. E(k - 1) = (s - 1) + e
      <4>1. CASE k = 1
        BY <1>5, <3>1, <4>1 DEF EndOf
      <4>2. CASE k # 1
        <5>1. k - 1 \in 1 .. n /\ k - 1 # 0
          BY <1>2, <4>2
        <5>2. Len(f[k - 1]) \in Nat
          BY <1>2, <2>3, <5>1, JoinedAreBytes, LenProperties
        <5>3. E(k - 1) = s + Len(f[k - 1]) /\ e = 1 + Len(f[k - 1])
          BY <3>1, <5>1 DEF EndOf
        <5> QED  BY <1>5, <5>2, <5>3
      <4> QED  BY <4>1, <4>2
    <3>5. end = s + w
      BY <1>5, <3>1
    <3> QED  BY <1>5, <3>2, <3>3, <3>4, <3>5
  <2>7. E(n) = end /\ E(0) = s
    BY <1>5, <2>0, <2>1 DEF EndOf
  <2> HIDE DEF E
  <2>8. ASSUME NEW k \in 1 .. n, r[E(k)] = [name |-> SubSeq(name, k + 1, n), next |-> end]
        PROVE  r[E(k - 1)] = [name |-> SubSeq(name, k, n), next |-> end]
    <3>1. PICK o : o = E(k - 1)
      OBVIOUS
    <3>2. /\ o \in Nat /\ o >= 1 /\ o < end /\ name[k] \in Seq(Byte)
          /\ LiesAt(in, o, BlobTlv(8, name[k]))
          /\ E(k) = o + Len(BlobTlv(8, name[k]))
      <4>1. o \in Nat /\ o >= s
        BY <2>4, <3>1
      <4>2. o >= 1
        BY <1>5, <4>1
      <4> QED  BY <2>4, <2>5, <2>6, <3>1, <4>1, <4>2
    <3>3. ReadsTo(r, o + Len(BlobTlv(8, name[k])), SubSeq(name, k + 1, n), end)
      BY <2>8, <3>2 DEF ReadsTo
    <3>4. ReadsTo(r, o, <<name[k]>> \o SubSeq(name, k + 1, n), end)
      <4>1. end \in Nat /\ ReadFrom(in, end, 1, r) /\ Len(in) \in Sizes
        BY <1>6, <1>7
      <4>2. o \in Nat /\ o >= 1 /\ o < end /\ name[k] \in Seq(Byte) /\ LiesAt(in, o, BlobTlv(8, name[k]))
        BY <3>2
      <4> QED  BY <3>3, <4>1, <4>2, ComponentRead
    <3>5. SubSeq(name, k, n) = <<name[k]>> \o SubSeq(name, k + 1, n)
      <4>1. k \in 1 .. Len(name) /\ n \in k .. Len(name)
        BY <1>1, <1>2
      <4> QED  BY <4>1, SubSeqRecursiveFirst
    <3> QED  BY <3>1, <3>4, <3>5 DEF ReadsTo
  <2> DEFINE U == {d \in 0 .. n : r[E(n - d)] # [name |-> SubSeq(name, (n - d) + 1, n), next |-> end]}
  <2>9. U = {}
    <3> SUFFICES ASSUME U # {} PROVE FALSE
      OBVIOUS
    <3>1. U \subseteq Nat
      OBVIOUS
    <3>2. PICK x \in U : \A y \in U : x <= y
      <4> HIDE DEF U
      <4> QED  BY <3>1, LeastOf
    <3>3. x \in 0 .. n /\ r[E(n - x)] # [name |-> SubSeq(name, (n - x) + 1, n), next |-> end]
      OBVIOUS
    <3>4. x # 0
      <4>1. n - 0 = n /\ n + 1 > n /\ n + 1 \in Int /\ n \in Int
        BY <1>2
      <4>2. SubSeq(name, n + 1, n) = << >>
        BY <4>1, SubSeqEmpty
      <4> QED  BY <1>8, <2>7, <3>3, <4>1, <4>2
    <3>5. PICK k : k = n - (x - 1)
      OBVIOUS
    <3>6. k \in 1 .. n /\ x - 1 \in 0 .. n /\ ~(x <= x - 1) /\ k - 1 = n - x /\ k = (n - x) + 1
      BY <1>2, <3>3, <3>4, <3>5
    <3>7. r[E(k)] = [name |-> SubSeq(name, k + 1, n), next |-> end]
      BY <3>2, <3>5, <3>6
    <3>8. r[E(k - 1)] = [name |-> SubSeq(name, k, n), next |-> end]
      BY <2>8, <3>6, <3>7
    <3> QED  BY <3>3, <3>6, <3>8
  <2>10. n \in 0 .. n /\ n - n = 0 /\ 0 + 1 = 1
    BY <1>2
  <2>11. r[E(0)] = [name |-> SubSeq(name, 1, n), next |-> end]
    BY <2>9, <2>10
  <2>12. SubSeq(name, 1, n) = name
    BY <1>1, SubSeqFull
  <2> QED  BY <1>4, <1>7, <2>7, <2>11, <2>12
<1> QED  BY <1>9, <1>10

(* The first byte of what has been written with a small type.              *)
LEMMA FirstByte ==
    ASSUME NEW type \in Nat, type < 253, NEW value \in Seq(Byte)
    PROVE  BlobTlv(type, value)[1] = type /\ BlobTlv(type, value) # << >>
<1>1. PICK t, l : t = VarNumber(type) /\ l = VarNumber(Len(value))
  OBVIOUS
<1>2. t \in Seq(Byte) /\ l \in Seq(Byte)
  BY <1>1, OfVarNumber, LenProperties
<1>3. t = <<type>>
  BY <1>1 DEF VarNumber
<1>4. Len(t) = 1 /\ t[1] = type
  BY <1>3
<1>5. /\ t \o l \in Seq(Byte) /\ Len(t \o l) = Len(t) + Len(l)
      /\ \A k \in 1 .. Len(t) : (t \o l)[k] = t[k]
  BY <1>2, JoinedBytes
<1>6. \A k \in 1 .. Len(t \o l) : ((t \o l) \o value)[k] = (t \o l)[k]
  BY <1>5, JoinedBytes
<1>7. Len(l) \in Nat
  BY <1>2, LenProperties
<1>8. 1 \in 1 .. Len(t) /\ 1 \in 1 .. Len(t \o l)
  BY <1>4, <1>5, <1>7
<1>9. BlobTlv(type, value) = (t \o l) \o value
  BY <1>1 DEF BlobTlv
<1>10. BlobTlv(type, value)[1] = type
  BY <1>4, <1>5, <1>6, <1>8, <1>9
<1>11. Len(BlobTlv(type, value)) >= 2
  BY SizeOfBlob
<1>12. BlobTlv(type, value) # << >>
  BY <1>11
<1> QED  BY <1>10, <1>12

(* The nonce and the signature are bytes. *)
LEMMA ZeroesAreBytes ==
    ASSUME NEW count \in Nat
    PROVE  Zeroes(count) \in Seq(Byte) /\ Len(Zeroes(count)) = count
<1>1. Zeroes(count) \in [1 .. count -> Byte]
  BY DEF Zeroes, Byte
<1> QED  BY <1>1, IsSequence

(* The types of the packets and of their parts can be read. *)
LEMMA SmallTypes ==
    /\ 5 \in Sizes /\ 6 \in Sizes /\ 7 \in Sizes /\ 8 \in Sizes /\ 10 \in Sizes /\ 20 \in Sizes
    /\ 21 \in Sizes /\ 22 \in Sizes /\ 23 \in Sizes /\ 80 \in Sizes /\ 100 \in Sizes
    /\ 800 \in Sizes /\ 801 \in Sizes
BY SMT DEF Sizes

(* What an interest holds. *)
LEMMA OfInterest ==
    ASSUME NEW name \in Seq(Seq(Byte))
    PROVE  /\ NameTlv(name) \o BlobTlv(10, Zeroes(4)) \in Seq(Byte)
           /\ InterestTlv(name) \in Seq(Byte) /\ Len(InterestTlv(name)) \in Nat
           /\ NameTlv(name) \in Seq(Byte) /\ BlobTlv(10, Zeroes(4)) \in Seq(Byte)
           /\ Len(NameTlv(name)) <= Len(InterestTlv(name))
<1>1. PICK n, z : n = NameTlv(name) /\ z = BlobTlv(10, Zeroes(4))
  OBVIOUS
<1>2. Zeroes(4) \in Seq(Byte)
  BY ZeroesAreBytes
<1>3. n \in Seq(Byte) /\ z \in Seq(Byte)
  BY <1>1, <1>2, OfName, OfBlob
<1>4. n \o z \in Seq(Byte) /\ Len(n \o z) = Len(n) + Len(z)
  BY <1>3, JoinedBytes
<1>5. BlobTlv(5, n \o z) \in Seq(Byte) /\ Len(BlobTlv(5, n \o z)) >= Len(n \o z) + 2
  BY <1>4, OfBlob, SizeOfBlob
<1>6. InterestTlv(name) = BlobTlv(5, n \o z)
  BY <1>1 DEF InterestTlv
<1>7. Len(n) \in Nat /\ Len(z) \in Nat /\ Len(BlobTlv(5, n \o z)) \in Nat
  BY <1>3, <1>5, LenProperties
<1>8. Len(n) <= Len(BlobTlv(5, n \o z))
  BY <1>4, <1>5, <1>7
<1> QED  BY <1>1, <1>3, <1>4, <1>5, <1>6, <1>7, <1>8

(* decode_interest reads the name of an interest. *)
LEMMA InterestRead ==
    ASSUME NEW name \in Seq(Seq(Byte)), Len(InterestTlv(name)) \in Sizes
    PROVE  \E next \in Nat : /\ DecodedInterest(InterestTlv(name)) = [name |-> name, next |-> next]
                             /\ next # 0
<1>1. PICK w, v, n : w = InterestTlv(name) /\ v = n \o BlobTlv(10, Zeroes(4)) /\ n = NameTlv(name)
  OBVIOUS
<1>2. w \in Seq(Byte) /\ v \in Seq(Byte) /\ n \in Seq(Byte) /\ BlobTlv(10, Zeroes(4)) \in Seq(Byte)
  BY <1>1, OfInterest
<1>3. w = BlobTlv(5, v)
  BY <1>1 DEF InterestTlv
<1>4. LiesAt(w, 1, BlobTlv(5, v)) /\ Len(w) \in Sizes /\ 5 \in Sizes
  BY <1>1, <1>2, <1>3, LiesWhole, SmallTypes
<1>5. PICK s : s = BlobStart(1, 5, v)
  OBVIOUS
<1>6. /\ ReadTypeAndLength(w, 1, 5) # NoValue /\ ReadTypeAndLength(w, 1, 5).start = s
      /\ s \in Nat /\ s >= 1 /\ LiesAt(w, s, v)
  <2>1. /\ ReadTypeAndLength(w, 1, 5) = [start |-> BlobStart(1, 5, v), end |-> 1 + Len(BlobTlv(5, v))]
        /\ ReadTypeAndLength(w, 1, 5) # NoValue
        /\ BlobStart(1, 5, v) \in Nat /\ BlobStart(1, 5, v) >= 1 + 2
        /\ LiesAt(w, BlobStart(1, 5, v), v)
    BY <1>2, <1>4, BlobRead
  <2> QED  BY <1>5, <2>1
<1>7. LiesAt(w, s, n)
  BY <1>1, <1>2, <1>6, LieApart
<1>8. DecodedName(w, s) = [name |-> name, next |-> s + Len(n)]
  BY <1>1, <1>2, <1>4, <1>6, <1>7, NameRead
<1>9. DecodedInterest(w) = [name |-> name, next |-> s + Len(n)]
  BY <1>6, <1>8 DEF DecodedInterest
<1>10. s + Len(n) \in Nat /\ s + Len(n) # 0
  <2>1. Len(n) \in Nat
    BY <1>2, LenProperties
  <2> QED  BY <1>6, <2>1
<1> QED  BY <1>1, <1>9, <1>10

(* An interest is decoded as one, with its name. *)
LEMMA InterestComesThrough ==
    ASSUME NEW name \in Seq(Seq(Byte)), Len(InterestTlv(name)) \in Sizes
    PROVE  DecodedTlv(InterestTlv(name)) = Received(Interest(name), InterestTlv(name))
<1>1. PICK w : w = InterestTlv(name)
  OBVIOUS
<1>2. PICK next \in Nat : DecodedInterest(w) = [name |-> name, next |-> next] /\ next # 0
  BY <1>1, InterestRead
<1>3. [name |-> name, next |-> next] # NoName
  BY <1>2 DEF NoName
<1>4. w # << >> /\ w[1] = 5
  <2>1. PICK v : v = NameTlv(name) \o BlobTlv(10, Zeroes(4))
    OBVIOUS
  <2>2. v \in Seq(Byte) /\ w = BlobTlv(5, v)
    BY <1>1, <2>1, OfInterest DEF InterestTlv
  <2> QED  BY <2>2, FirstByte
<1>5. HasType(w, 5) /\ ~HasType(w, 6) /\ ~IsNack(w)
  BY <1>4 DEF HasType, IsNack
<1>6. DecodedTlv(w) = Received(Interest(name), w)
  BY <1>2, <1>3, <1>5 DEF DecodedTlv
<1> QED  BY <1>1, <1>6

(* What data hold, one after the other. *)
DataParts(payload, n, i, p, g, z) ==
    /\ n \in Seq(Byte) /\ i \in Seq(Byte) /\ p \in Seq(Byte) /\ g \in Seq(Byte) /\ z \in Seq(Byte)
    /\ Len(n) \in Nat
    /\ Len(i) \in Nat /\ Len(i) <= 10 /\ Len(p) \in Nat /\ Len(p) <= Len(payload) + 10
    /\ Len(g) \in Nat /\ Len(g) <= 13 /\ Len(z) \in Nat /\ Len(z) <= 42

(* Each part of data is bytes, and no longer than this. *)
LEMMA OfData ==
    ASSUME NEW name \in Seq(Seq(Byte)), NEW payload \in Seq(Byte)
    PROVE  DataParts(payload, NameTlv(name), BlobTlv(20, << >>), BlobTlv(21, payload),
                     BlobTlv(22, <<27, 1, 0>>), BlobTlv(23, Zeroes(32)))
<1>0. PICK n, i, p, g, z : /\ n = NameTlv(name) /\ i = BlobTlv(20, << >>) /\ p = BlobTlv(21, payload)
                           /\ g = BlobTlv(22, <<27, 1, 0>>) /\ z = BlobTlv(23, Zeroes(32))
  OBVIOUS
<1>1. << >> \in Seq(Byte) /\ Len(<< >>) = 0
  BY EmptySeq
<1>2. <<27, 1, 0>> \in Seq(Byte) /\ Len(<<27, 1, 0>>) = 3
  BY DEF Byte
<1>3. Zeroes(32) \in Seq(Byte) /\ Len(Zeroes(32)) = 32
  BY ZeroesAreBytes
<1>4. n \in Seq(Byte) /\ Len(n) \in Nat
  BY <1>0, OfName, LenProperties
<1>5. i \in Seq(Byte) /\ Len(i) \in Nat /\ Len(i) <= 10
  <2>1. BlobTlv(20, << >>) \in Seq(Byte)
    BY <1>1, OfBlob
  <2>2. Len(BlobTlv(20, << >>)) \in Nat /\ Len(BlobTlv(20, << >>)) <= Len(<< >>) + 10
    BY <1>1, SizeOfBlob
  <2> QED  BY <1>0, <1>1, <2>1, <2>2
<1>6. p \in Seq(Byte) /\ Len(p) \in Nat /\ Len(p) <= Len(payload) + 10
  BY <1>0, OfBlob, SizeOfBlob
<1>7. g \in Seq(Byte) /\ Len(g) \in Nat /\ Len(g) <= 13
  <2>1. BlobTlv(22, <<27, 1, 0>>) \in Seq(Byte)
    BY <1>2, OfBlob
  <2>2. /\ Len(BlobTlv(22, <<27, 1, 0>>)) \in Nat
        /\ Len(BlobTlv(22, <<27, 1, 0>>)) <= Len(<<27, 1, 0>>) + 10
    BY <1>2, SizeOfBlob
  <2> QED  BY <1>0, <1>2, <2>1, <2>2
<1>8. z \in Seq(Byte) /\ Len(z) \in Nat /\ Len(z) <= 42
  <2>1. PICK x : x = Zeroes(32)
    OBVIOUS
  <2>2. x \in Seq(Byte) /\ Len(x) = 32 /\ z = BlobTlv(23, x)
    BY <1>0, <1>3, <2>1
  <2>3. z \in Seq(Byte) /\ Len(z) \in Nat /\ Len(z) <= Len(x) + 10
    BY <2>2, OfBlob, SizeOfBlob
  <2> QED  BY <2>2, <2>3
<1>9. DataParts(payload, n, i, p, g, z)
  BY <1>4, <1>5, <1>6, <1>7, <1>8 DEF DataParts
<1> QED  BY <1>0, <1>9

(* Five parts of a packet, one behind the other. *)
LEMMA FiveJoined ==
    ASSUME NEW a \in Seq(Byte), NEW b \in Seq(Byte), NEW c \in Seq(Byte),
           NEW d \in Seq(Byte), NEW e \in Seq(Byte)
    PROVE  /\ a \o b \in Seq(Byte) /\ a \o b \o c \in Seq(Byte) /\ a \o b \o c \o d \in Seq(Byte)
           /\ a \o b \o c \o d \o e \in Seq(Byte)
           /\ Len(a \o b) = Len(a) + Len(b)
           /\ Len(a \o b \o c \o d \o e) = Len(a) + Len(b) + Len(c) + Len(d) + Len(e)
<1>1. a \o b \in Seq(Byte) /\ Len(a \o b) = Len(a) + Len(b)
  BY JoinedBytes
<1>2. a \o b \o c \in Seq(Byte) /\ Len(a \o b \o c) = Len(a \o b) + Len(c)
  BY <1>1, JoinedBytes
<1>3. a \o b \o c \o d \in Seq(Byte) /\ Len(a \o b \o c \o d) = Len(a \o b \o c) + Len(d)
  BY <1>2, JoinedBytes
<1>4. /\ a \o b \o c \o d \o e \in Seq(Byte)
      /\ Len(a \o b \o c \o d \o e) = Len(a \o b \o c \o d) + Len(e)
  BY <1>3, JoinedBytes
<1> QED  BY <1>1, <1>2, <1>3, <1>4

(* Data are decoded as a content with the name and the payload. *)
LEMMA DataRead ==
    ASSUME NEW name \in Seq(Seq(Byte)), NEW payload \in Seq(Byte),
           Len(DataTlv(name, payload)) \in Sizes
    PROVE  DecodedTlv(DataTlv(name, payload)) = Received(Content(name, payload), DataTlv(name, payload))
<1>1. PICK n, i, p, g, z : /\ n = NameTlv(name) /\ i = BlobTlv(20, << >>) /\ p = BlobTlv(21, payload)
                           /\ g = BlobTlv(22, <<27, 1, 0>>) /\ z = BlobTlv(23, Zeroes(32))
  OBVIOUS
<1>2. /\ n \in Seq(Byte) /\ i \in Seq(Byte) /\ p \in Seq(Byte) /\ g \in Seq(Byte) /\ z \in Seq(Byte)
      /\ Len(n) \in Nat /\ Len(i) \in Nat
  <2>1. DataParts(payload, NameTlv(name), BlobTlv(20, << >>), BlobTlv(21, payload),
                  BlobTlv(22, <<27, 1, 0>>), BlobTlv(23, Zeroes(32)))
    BY OfData
  <2>2. DataParts(payload, n, i, p, g, z)
    BY <1>1, <2>1
  <2> QED  BY <2>2 DEF DataParts
<1>3. PICK w, v : w = DataTlv(name, payload) /\ v = n \o i \o p \o g \o z
  OBVIOUS
<1>4. w = BlobTlv(6, v)
  BY <1>1, <1>3 DEF DataTlv
<1>5. /\ v \in Seq(Byte) /\ n \o i \in Seq(Byte) /\ n \o i \o p \in Seq(Byte)
      /\ n \o i \o p \o g \in Seq(Byte) /\ Len(n \o i) = Len(n) + Len(i)
  BY <1>2, <1>3, FiveJoined
<1>6. w \in Seq(Byte) /\ Len(w) \in Sizes
  BY <1>3, <1>4, <1>5, OfBlob
<1>7. LiesAt(w, 1, BlobTlv(6, v))
  BY <1>4, <1>6, LiesWhole
<1>8. PICK s, d : s = BlobStart(1, 6, v) /\ d = ReadTypeAndLength(w, 1, 6)
  OBVIOUS
<1>9. d # NoValue /\ d.start = s /\ s \in Nat /\ s >= 1 /\ LiesAt(w, s, v)
  <2>1. /\ ReadTypeAndLength(w, 1, 6) = [start |-> BlobStart(1, 6, v), end |-> 1 + Len(BlobTlv(6, v))]
        /\ ReadTypeAndLength(w, 1, 6) # NoValue
        /\ BlobStart(1, 6, v) \in Nat /\ BlobStart(1, 6, v) >= 1 + 2
        /\ LiesAt(w, BlobStart(1, 6, v), v)
    BY <1>5, <1>6, <1>7, BlobRead, SmallTypes
  <2> QED  BY <1>8, <2>1
<1>10. LiesAt(w, s, n \o i \o p \o g)
  BY <1>2, <1>3, <1>5, <1>6, <1>9, LieApart
<1>11. LiesAt(w, s, n \o i \o p)
  BY <1>2, <1>5, <1>6, <1>9, <1>10, LieApart
<1>12. LiesAt(w, s, n \o i) /\ LiesAt(w, s + Len(n \o i), p)
  BY <1>2, <1>5, <1>6, <1>9, <1>11, LieApart
<1>13. LiesAt(w, s, n) /\ LiesAt(w, s + Len(n), i)
  BY <1>2, <1>5, <1>6, <1>9, <1>12, LieApart
<1>14. PICK o, q : o = s + Len(n) /\ q = o + Len(i)
  OBVIOUS
<1>15. o \in Nat /\ o >= 1 /\ q \in Nat /\ q >= 1 /\ q = s + (Len(n) + Len(i))
  BY <1>2, <1>9, <1>14
<1>16. LiesAt(w, o, i) /\ LiesAt(w, q, p)
  BY <1>5, <1>12, <1>13, <1>14, <1>15
<1>17. DecodedName(w, s) = [name |-> name, next |-> o]
  BY <1>1, <1>6, <1>9, <1>13, <1>14, NameRead
<1>18. /\ ReadTypeAndLength(w, o, 20) # NoValue /\ ReadTypeAndLength(w, o, 20).end = q
  <2>1. PICK e : e = << >>
    OBVIOUS
  <2>2. LiesAt(w, o, BlobTlv(20, e)) /\ e \in Seq(Byte)
    BY <1>1, <1>16, <2>1, EmptySeq
  <2>3. /\ ReadTypeAndLength(w, o, 20) = [start |-> BlobStart(o, 20, e), end |-> o + Len(BlobTlv(20, e))]
        /\ ReadTypeAndLength(w, o, 20) # NoValue
    BY <1>6, <1>15, <2>2, BlobRead, SmallTypes
  <2> QED  BY <1>1, <1>14, <2>1, <2>3
<1>19. /\ ReadTypeAndLength(w, q, 21) # NoValue
       /\ Value(w, ReadTypeAndLength(w, q, 21)) = payload
  <2>1. PICK type : type = 21
    OBVIOUS
  <2>2. type \in Sizes /\ LiesAt(w, q, BlobTlv(type, payload))
    BY <1>1, <1>16, <2>1, SmallTypes
  <2>3. /\ ReadTypeAndLength(w, q, type) # NoValue
        /\ Value(w, ReadTypeAndLength(w, q, type)) = payload
    BY <1>6, <1>15, <2>2, BlobRead
  <2> QED  BY <2>1, <2>3
<1>20. [name |-> name, next |-> o] # NoName
  BY <1>15 DEF NoName
<1>21. DecodedData(w) = Received(Content(name, payload), w)
  BY <1>8, <1>9, <1>17, <1>18, <1>19, <1>20 DEF DecodedData
<1>22. w # << >> /\ w[1] = 6
  BY <1>4, <1>5, FirstByte
<1>23. HasType(w, 6) /\ ~HasType(w, 5) /\ ~IsNack(w)
  BY <1>22 DEF HasType, IsNack
<1>24. DecodedTlv(w) = DecodedData(w)
  BY <1>23 DEF DecodedTlv
<1> QED  BY <1>3, <1>21, <1>24

(* A number below 253 is written as it is. *)
LEMMA OfSmall ==
    ASSUME NEW n \in Nat, n < 253
    PROVE  VarNumber(n) = <<n>> /\ Len(VarNumber(n)) = 1
<1>1. VarNumber(n) = <<n>>
  BY DEF VarNumber
<1> QED  BY <1>1

(* A mark and two bytes behind it. *)
LEMMA MarkAndTwo ==
    ASSUME NEW mark \in Byte, NEW b \in Seq(Byte), Len(b) = 2
    PROVE  /\ Len(<<mark>> \o b) = 3 /\ (<<mark>> \o b)[1] = mark
           /\ (<<mark>> \o b)[2] = b[1] /\ (<<mark>> \o b)[3] = b[2]
<1>1. PICK m : m = <<mark>>
  OBVIOUS
<1>2. m \in Seq(Byte) /\ Len(m) = 1 /\ m[1] = mark
  BY <1>1
<1>3. /\ Len(m \o b) = Len(m) + Len(b)
      /\ \A k \in 1 .. Len(m) : (m \o b)[k] = m[k]
      /\ \A k \in 1 .. Len(b) : (m \o b)[Len(m) + k] = b[k]
  BY <1>2, JoinedBytes
<1>4. (m \o b)[1] = m[1] /\ (m \o b)[1 + 1] = b[1] /\ (m \o b)[1 + 2] = b[2]
  BY <1>2, <1>3
<1> QED  BY <1>1, <1>2, <1>3, <1>4

(* A number of 16 bits from 253 on is written with a mark and its two      *)
(* bytes.                                                                  *)
LEMMA OfLarge ==
    ASSUME NEW n \in Nat, n >= 253, n <= 65535
    PROVE  /\ Len(VarNumber(n)) = 3
           /\ VarNumber(n)[1] = 253 /\ VarNumber(n)[2] = Second(n) /\ VarNumber(n)[3] = First(n)
<1>1. VarNumber(n) = <<253>> \o Bytes(n, 2)
  BY SMT DEF VarNumber
<1>2. /\ Bytes(n, 2) \in Seq(Byte) /\ Len(Bytes(n, 2)) = 2
      /\ Bytes(n, 2)[1] = Second(n) /\ Bytes(n, 2)[2] = First(n)
  BY OfBytes, SMT
<1>3. 253 \in Byte
  BY SMT DEF Byte
<1> QED  BY <1>1, <1>2, <1>3, MarkAndTwo, SMT

(* The types of a Nack and of its reason take three bytes; is_nack looks   *)
(* at two of them.                                                         *)
LEMMA NackTypes ==
    /\ 800 \in Nat /\ Len(VarNumber(800)) = 3 /\ VarNumber(800)[2] = 3 /\ VarNumber(800)[3] = 32
    /\ 801 \in Nat /\ Len(VarNumber(801)) = 3
<1>1. 800 \in Nat /\ 800 >= 253 /\ 800 <= 65535 /\ 801 \in Nat /\ 801 >= 253 /\ 801 <= 65535
  BY SMT
<1>2. Second(800) = 3 /\ First(800) = 32
  BY SMT DEF First, Second
<1>3. /\ Len(VarNumber(800)) = 3 /\ VarNumber(800)[2] = Second(800) /\ VarNumber(800)[3] = First(800)
      /\ Len(VarNumber(801)) = 3
  BY <1>1, OfLarge
<1> QED  BY <1>1, <1>2, <1>3

(* How long what has been written with a small length is. *)
LEMMA LengthOfBlob ==
    ASSUME NEW type \in Nat, NEW value \in Seq(Byte), Len(value) < 253
    PROVE  /\ BlobTlv(type, value) \in Seq(Byte)
           /\ Len(BlobTlv(type, value)) = Len(VarNumber(type)) + 1 + Len(value)
           /\ Len(VarNumber(type)) \in {1, 3, 5}
           /\ BlobStart(1, type, value) = 1 + Len(VarNumber(type)) + 1
<1>1. PICK n, m : n = Len(value) /\ m = VarNumber(n)
  OBVIOUS
<1>2. n \in Nat /\ n < 253
  BY <1>1, LenProperties
<1>3. Len(m) = 1
  BY <1>1, <1>2, OfSmall
<1>4. /\ BlobTlv(type, value) \in Seq(Byte)
      /\ Len(BlobTlv(type, value)) = Len(VarNumber(type)) + Len(m) + n
  BY <1>1, OfBlob
<1>5. Len(VarNumber(type)) \in {1, 3, 5}
  BY OfVarNumber
<1> QED  BY <1>1, <1>3, <1>4, <1>5 DEF BlobStart

(* What a small blob that lies in a packet is read as. *)
LEMMA SmallBlobRead ==
    ASSUME NEW in \in Seq(Byte), NEW at \in Nat, at >= 1, Len(in) \in Sizes,
           NEW type \in Sizes, NEW value \in Seq(Byte), Len(value) < 253,
           LiesAt(in, at, BlobTlv(type, value))
    PROVE  /\ ReadTypeAndLength(in, at, type) # NoValue
           /\ ReadTypeAndLength(in, at, type).start = at + Len(VarNumber(type)) + 1
           /\ LiesAt(in, at + Len(VarNumber(type)) + 1, value)
           /\ LiesAt(in, at, VarNumber(type))
<1>0. type \in Nat
  BY SizesAreNat
<1>1. PICK n, t, l, d : /\ n = Len(value) /\ t = VarNumber(type) /\ l = VarNumber(n)
                        /\ d = ReadTypeAndLength(in, at, type)
  OBVIOUS
<1>2. n \in Nat /\ n < 253
  BY <1>1, LenProperties
<1>3. Len(l) = 1 /\ l \in Seq(Byte) /\ t \in Seq(Byte)
  BY <1>0, <1>1, <1>2, OfSmall, OfVarNumber
<1>4. /\ ReadTypeAndLength(in, at, type) = [start |-> BlobStart(at, type, value),
                                            end |-> at + Len(BlobTlv(type, value))]
      /\ ReadTypeAndLength(in, at, type) # NoValue
      /\ LiesAt(in, BlobStart(at, type, value), value)
  BY BlobRead
<1>5. BlobStart(at, type, value) = at + Len(t) + Len(l)
  BY <1>1 DEF BlobStart
<1>6. BlobTlv(type, value) = (t \o l) \o value
  BY <1>1 DEF BlobTlv
<1>7. t \o l \in Seq(Byte)
  BY <1>3, JoinedBytes
<1>8. LiesAt(in, at, t \o l)
  BY <1>6, <1>7, LieApart
<1>9. LiesAt(in, at, t)
  BY <1>3, <1>8, LieApart
<1>10. BlobStart(at, type, value) = at + Len(VarNumber(type)) + 1
  BY <1>1, <1>3, <1>5
<1> QED  BY <1>1, <1>4, <1>9, <1>10

(* The reasons a Nack can give. *)
Reasons == NackReason \ {NoReason}

(* A reason is written in one byte. *)
LEMMA ReasonsAreSmall ==
    ASSUME NEW reason \in Reasons
    PROVE  reason \in Nat /\ reason < 253 /\ reason \in Sizes /\ reason \in NackReason /\ reason # NoReason
BY SMT DEF Reasons, NackReason, NoReason, Sizes

(* Where the parts of a packet of three blobs, one in the other, lie: the  *)
(* types stand for those of a Nack, its reason and its cause.              *)
LEMMA CauseLies ==
    ASSUME NEW w \in Seq(Byte), Len(w) \in Sizes, NEW at \in Nat, at >= 1,
           NEW k \in Sizes, NEW m \in Sizes, Len(VarNumber(k)) = 3, Len(VarNumber(m)) = 3,
           NEW r \in Seq(Byte), Len(r) = 1, LiesAt(w, at, BlobTlv(k, BlobTlv(m, r)))
    PROVE  /\ ReadTypeAndLength(w, at, k) # NoValue
           /\ ReadTypeAndLength(w, at, k).start = at + 4
           /\ ReadTypeAndLength(w, at + 4, m) # NoValue
           /\ ReadTypeAndLength(w, at + 4, m).start = at + 8
           /\ LiesAt(w, at + 8, r) /\ LiesAt(w, at, VarNumber(k))
<1>0. k \in Nat /\ m \in Nat /\ Len(r) < 253 /\ Len(r) = 1
  BY SizesAreNat
<1>1. PICK c : c = BlobTlv(m, r)
  OBVIOUS
<1>2. c \in Seq(Byte) /\ Len(c) = 3 + 1 + 1
  BY <1>0, <1>1, LengthOfBlob
<1>3. c \in Seq(Byte) /\ Len(c) < 253 /\ LiesAt(w, at, BlobTlv(k, c))
  BY <1>1, <1>2
<1>4. /\ ReadTypeAndLength(w, at, k) # NoValue
      /\ ReadTypeAndLength(w, at, k).start = at + Len(VarNumber(k)) + 1
      /\ LiesAt(w, at + Len(VarNumber(k)) + 1, c) /\ LiesAt(w, at, VarNumber(k))
  BY <1>3, SmallBlobRead
<1>5. PICK q : q = at + 4
  OBVIOUS
<1>6. q \in Nat /\ q >= 1 /\ q = at + Len(VarNumber(k)) + 1
  BY <1>5
<1>7. LiesAt(w, q, BlobTlv(m, r))
  BY <1>1, <1>4, <1>6
<1>8. /\ ReadTypeAndLength(w, q, m) # NoValue
      /\ ReadTypeAndLength(w, q, m).start = q + Len(VarNumber(m)) + 1
      /\ LiesAt(w, q + Len(VarNumber(m)) + 1, r)
  BY <1>0, <1>6, <1>7, SmallBlobRead
<1>9. q + Len(VarNumber(m)) + 1 = at + 8
  BY <1>5
<1> QED  BY <1>4, <1>5, <1>6, <1>8, <1>9

(* How long these parts are. *)
LEMMA CauseSize ==
    ASSUME NEW k \in Sizes, NEW m \in Sizes, Len(VarNumber(k)) = 3, Len(VarNumber(m)) = 3,
           NEW r \in Seq(Byte), Len(r) = 1
    PROVE  BlobTlv(k, BlobTlv(m, r)) \in Seq(Byte) /\ Len(BlobTlv(k, BlobTlv(m, r))) = 9
<1>0. k \in Nat /\ m \in Nat /\ Len(r) < 253 /\ Len(r) = 1
  BY SizesAreNat
<1>1. PICK c : c = BlobTlv(m, r)
  OBVIOUS
<1>2. c \in Seq(Byte) /\ Len(c) = 3 + 1 + 1
  BY <1>0, <1>1, LengthOfBlob
<1>3. c \in Seq(Byte) /\ Len(c) < 253 /\ Len(c) = 5
  BY <1>2
<1>4. BlobTlv(k, c) \in Seq(Byte) /\ Len(BlobTlv(k, c)) = 3 + 1 + 5
  BY <1>0, <1>3, LengthOfBlob
<1> QED  BY <1>1, <1>4

(* The value of such a packet starts at the third byte. *)
LEMMA HeaderLies ==
    ASSUME NEW h \in Sizes, Len(VarNumber(h)) = 1, NEW v \in Seq(Byte), Len(v) < 253
    PROVE  \A w : w = BlobTlv(h, v) =>
              /\ w \in Seq(Byte) /\ Len(w) = Len(v) + 2 /\ Len(w) \in Sizes
              /\ ReadTypeAndLength(w, 1, h) # NoValue /\ ReadTypeAndLength(w, 1, h).start = 3
              /\ LiesAt(w, 3, v)
<1>0. h \in Nat /\ Len(v) \in Nat
  BY SizesAreNat, LenProperties
<1>1. PICK w : w = BlobTlv(h, v)
  OBVIOUS
<1>2. w \in Seq(Byte) /\ Len(w) = Len(VarNumber(h)) + 1 + Len(v)
  BY <1>0, <1>1, LengthOfBlob
<1>3. Len(w) = Len(v) + 2 /\ Len(w) \in Nat /\ Len(w) <= 255
  BY <1>0, <1>2
<1>4. Len(w) \in Sizes
  BY <1>3, SMT DEF Sizes
<1>5. PICK at : at = 1
  OBVIOUS
<1>6. /\ LiesAt(w, at, BlobTlv(h, v)) /\ w \in Seq(Byte) /\ Len(w) \in Sizes
      /\ at \in Nat /\ at >= 1
  BY <1>1, <1>2, <1>4, <1>5, LiesWhole
<1>7. /\ ReadTypeAndLength(w, at, h) # NoValue
      /\ ReadTypeAndLength(w, at, h).start = at + Len(VarNumber(h)) + 1
      /\ LiesAt(w, at + Len(VarNumber(h)) + 1, v)
  BY <1>6, SmallBlobRead
<1>8. at + Len(VarNumber(h)) + 1 = 3
  BY <1>5
<1> QED  BY <1>1, <1>3, <1>5, <1>6, <1>7, <1>8

(* What lies behind its header, at the end of the packet, starts at the    *)
(* fourteenth.                                                             *)
LEMMA TailLies ==
    ASSUME NEW w \in Seq(Byte), Len(w) \in Sizes, NEW p \in Sizes, Len(VarNumber(p)) = 1,
           NEW f \in Seq(Byte), Len(f) < 253, LiesAt(w, 12, BlobTlv(p, f)), Len(w) = 13 + Len(f)
    PROVE  SubSeq(w, 14, Len(w)) = f
<1>0. Len(f) \in Nat
  BY LenProperties
<1>1. PICK at : at = 12
  OBVIOUS
<1>2. LiesAt(w, 14, f)
  <2>1. at \in Nat /\ at >= 1 /\ LiesAt(w, at, BlobTlv(p, f))
    BY <1>1
  <2>2. LiesAt(w, at + Len(VarNumber(p)) + 1, f)
    BY <2>1, SmallBlobRead
  <2> QED  BY <1>1, <2>2
<1>3. SubSeq(w, 14, 14 + Len(f) - 1) = f
  BY <1>2, CutOut
<1>4. 14 + Len(f) - 1 = Len(w)
  BY <1>0
<1> QED  BY <1>3, <1>4

(* The fragment of such a packet starts at the fourteenth byte, and ends   *)
(* with the packet.                                                        *)
NackParts(w, h, a, f) ==
    /\ w \in Seq(Byte) /\ Len(w) \in Sizes
    /\ ReadTypeAndLength(w, 1, h) # NoValue /\ ReadTypeAndLength(w, 1, h).start = 3
    /\ LiesAt(w, 3, a) /\ SubSeq(w, 14, Len(w)) = f /\ Len(w) >= 5

LEMMA FragmentLies ==
    ASSUME NEW h \in Sizes, NEW p \in Sizes, Len(VarNumber(h)) = 1, Len(VarNumber(p)) = 1,
           NEW a \in Seq(Byte), Len(a) = 9, NEW f \in Seq(Byte), Len(f) <= 241
    PROVE  /\ NackParts(BlobTlv(h, a \o BlobTlv(p, f)), h, a, f)
           /\ a \o BlobTlv(p, f) \in Seq(Byte)
<1>0. h \in Nat /\ p \in Nat /\ Len(f) \in Nat
  BY SizesAreNat, LenProperties
<1>1. PICK b, v, n, w : /\ b = BlobTlv(p, f) /\ v = a \o b /\ n = Len(f)
                        /\ w = BlobTlv(h, a \o BlobTlv(p, f))
  OBVIOUS
<1>2. n \in Nat /\ n <= 241 /\ Len(f) < 253
  BY <1>0, <1>1
<1>3. b \in Seq(Byte) /\ Len(b) = Len(VarNumber(p)) + 1 + Len(f)
  BY <1>0, <1>1, <1>2, LengthOfBlob
<1>4. v \in Seq(Byte) /\ Len(v) = Len(a) + Len(b)
  BY <1>1, <1>3, JoinedBytes
<1>5. Len(b) = 2 + n /\ Len(v) = 11 + n /\ Len(v) < 253
  BY <1>1, <1>2, <1>3, <1>4
<1>6. w = BlobTlv(h, v)
  BY <1>1
<1>7. /\ w \in Seq(Byte) /\ Len(w) = Len(v) + 2 /\ Len(w) \in Sizes
      /\ ReadTypeAndLength(w, 1, h) # NoValue /\ ReadTypeAndLength(w, 1, h).start = 3
      /\ LiesAt(w, 3, v)
  BY <1>4, <1>5, <1>6, HeaderLies
<1>8. LiesAt(w, 3, a \o b) /\ b \in Seq(Byte) /\ w \in Seq(Byte)
  BY <1>1, <1>3, <1>7
<1>9. LiesAt(w, 3, a) /\ LiesAt(w, 3 + Len(a), b)
  BY <1>8, LieApart
<1>10. LiesAt(w, 12, BlobTlv(p, f)) /\ Len(f) < 253 /\ Len(w) = 13 + Len(f)
  BY <1>1, <1>2, <1>5, <1>7, <1>9
<1>11. SubSeq(w, 14, Len(w)) = f
  BY <1>7, <1>10, TailLies
<1>12. Len(w) >= 5
  BY <1>2, <1>5, <1>7
<1>13. NackParts(w, h, a, f)
  BY <1>7, <1>9, <1>11, <1>12 DEF NackParts
<1> QED  BY <1>1, <1>4, <1>13

(* A Nack is decoded with its reason and with the name of its interest. *)
LEMMA NackRead ==
    ASSUME NEW reason \in Reasons, NEW name, NEW next \in Nat, NEW f \in Seq(Byte),
           DecodedInterest(f) = [name |-> name, next |-> next], next # 0, Len(f) <= 241
    PROVE  \A w : w = BlobTlv(100, BlobTlv(800, BlobTlv(801, VarNumber(reason))) \o BlobTlv(80, f))
              => DecodedTlv(w) = Received(Nack(name, reason, NoInterest), w) /\ w # << >>
<1>0. PICK w : w = BlobTlv(100, BlobTlv(800, BlobTlv(801, VarNumber(reason))) \o BlobTlv(80, f))
  OBVIOUS
<1>1. PICK h, k, m, p, r : h = 100 /\ k = 800 /\ m = 801 /\ p = 80 /\ r = VarNumber(reason)
  OBVIOUS
<1>2. h \in Sizes /\ k \in Sizes /\ m \in Sizes /\ p \in Sizes
  BY <1>1, SmallTypes
<1>3. Len(VarNumber(80)) = 1 /\ Len(VarNumber(100)) = 1
  BY OfSmall
<1>4. /\ Len(VarNumber(h)) = 1 /\ Len(VarNumber(k)) = 3 /\ Len(VarNumber(m)) = 3
      /\ Len(VarNumber(p)) = 1
  BY <1>1, <1>3, NackTypes
<1>5. reason \in Nat /\ reason < 253 /\ reason \in Sizes /\ reason \in NackReason /\ reason # NoReason
  BY ReasonsAreSmall
<1>6. r \in Seq(Byte) /\ Len(r) = 1
  BY <1>1, <1>5, OfSmall, OfVarNumber
<1>7. PICK a : a = BlobTlv(k, BlobTlv(m, r))
  OBVIOUS
<1>8. a \in Seq(Byte) /\ Len(a) = 9
  BY <1>2, <1>4, <1>6, <1>7, CauseSize
<1>9. w = BlobTlv(h, a \o BlobTlv(p, f))
  BY <1>0, <1>1, <1>7
<1>10. /\ w \in Seq(Byte) /\ Len(w) \in Sizes
       /\ ReadTypeAndLength(w, 1, h) # NoValue /\ ReadTypeAndLength(w, 1, h).start = 3
       /\ LiesAt(w, 3, a) /\ SubSeq(w, 14, Len(w)) = f /\ Len(w) >= 5
       /\ a \o BlobTlv(p, f) \in Seq(Byte)
  <2>1. /\ NackParts(BlobTlv(h, a \o BlobTlv(p, f)), h, a, f)
        /\ a \o BlobTlv(p, f) \in Seq(Byte)
    BY <1>2, <1>4, <1>8, FragmentLies
  <2>2. NackParts(w, h, a, f)
    BY <1>9, <2>1
  <2> QED  BY <2>1, <2>2 DEF NackParts
<1>11. LiesAt(w, 3, BlobTlv(k, BlobTlv(m, r))) /\ w \in Seq(Byte) /\ Len(w) \in Sizes
  BY <1>7, <1>10
<1>12. /\ ReadTypeAndLength(w, 3, k) # NoValue /\ ReadTypeAndLength(w, 3, k).start = 3 + 4
       /\ ReadTypeAndLength(w, 3 + 4, m) # NoValue
       /\ ReadTypeAndLength(w, 3 + 4, m).start = 3 + 8
       /\ LiesAt(w, 3 + 8, r) /\ LiesAt(w, 3, VarNumber(k))
  BY <1>2, <1>4, <1>6, <1>11, CauseLies
<1>13. LiesAt(w, 11, VarNumber(reason))
  BY <1>1, <1>12
<1>14. ReadNumber(w, 11).n = reason
  BY <1>5, <1>10, <1>13, NumberRead
<1>16. [name |-> name, next |-> next] # NoName
  BY DEF NoName
<1>17. /\ ReadTypeAndLength(w, 1, 100) # NoValue /\ ReadTypeAndLength(w, 1, 100).start = 3
       /\ ReadTypeAndLength(w, 3, 800) # NoValue /\ ReadTypeAndLength(w, 3, 800).start = 7
       /\ ReadTypeAndLength(w, 7, 801) # NoValue /\ ReadTypeAndLength(w, 7, 801).start = 11
  BY <1>1, <1>10, <1>12
<1>18. DecodedNack(w) = Received(Nack(name, reason, NoInterest), w)
  <2>1. DecodedInterest(SubSeq(w, 14, Len(w))) = [name |-> name, next |-> next]
    BY <1>10
  <2> QED  BY <2>1, <1>5, <1>14, <1>16, <1>17 DEF DecodedNack
<1>19. w # << >> /\ w[1] = 100
  <2>1. PICK v : v = a \o BlobTlv(p, f)
    OBVIOUS
  <2>2. v \in Seq(Byte) /\ w = BlobTlv(100, v)
    BY <2>1, <1>1, <1>9, <1>10
  <2>3. 100 \in Nat /\ 100 < 253
    OBVIOUS
  <2>4. BlobTlv(100, v)[1] = 100 /\ BlobTlv(100, v) # << >>
    BY <2>2, <2>3, FirstByte
  <2> QED  BY <2>2, <2>4
<1>20. w[4] = 3 /\ w[5] = 32
  <2>1. PICK n : n = VarNumber(k)
    OBVIOUS
  <2>2. LiesAt(w, 3, n) /\ Len(n) = 3 /\ n[2] = 3 /\ n[3] = 32
    BY <1>1, <1>4, <1>12, <2>1, NackTypes
  <2>3. \A i \in 1 .. 3 : w[3 + i - 1] = n[i]
    BY <2>2 DEF LiesAt
  <2>4. w[3 + 2 - 1] = n[2] /\ w[3 + 3 - 1] = n[3]
    BY <2>3
  <2> QED  BY <2>2, <2>4
<1>21. IsNack(w) /\ ~HasType(w, 5) /\ ~HasType(w, 6)
  BY <1>10, <1>19, <1>20 DEF IsNack, HasType
<1>22. DecodedTlv(w) = DecodedNack(w)
  BY <1>21 DEF DecodedTlv
<1> QED  BY <1>0, <1>18, <1>19, <1>22

(* So it is whether its interest has been received or not. *)
LEMMA NackComesThrough ==
    ASSUME NEW reason \in Reasons, NEW name \in Seq(Seq(Byte)), Len(InterestTlv(name)) <= 241,
           NEW interest \in {Interest(name), Received(Interest(name), InterestTlv(name))}
    PROVE  /\ DecodedTlv(NackTlv(reason, interest))
                = Received(Nack(name, reason, NoInterest), NackTlv(reason, interest))
           /\ NackTlv(reason, interest) # << >>
<1>1. PICK f : f = InterestTlv(name)
  OBVIOUS
<1>2. (IF interest.wire = << >> THEN InterestTlv(interest.name) ELSE interest.wire) = f
  BY <1>1 DEF Interest, Received
<1>3. reason # NoReason
  BY ReasonsAreSmall
<1>4. PICK w : w = BlobTlv(100, BlobTlv(800, BlobTlv(801, VarNumber(reason))) \o BlobTlv(80, f))
  OBVIOUS
<1>5. NackTlv(reason, interest) = w
  BY <1>2, <1>3, <1>4 DEF NackTlv
<1>6. f \in Seq(Byte) /\ Len(f) \in Nat /\ Len(f) <= 241
  BY <1>1, OfInterest
<1>7. Len(f) \in Sizes
  BY <1>6, SMT DEF Sizes
<1>8. PICK next \in Nat : DecodedInterest(f) = [name |-> name, next |-> next] /\ next # 0
  BY <1>1, <1>7, InterestRead
<1>9. DecodedTlv(w) = Received(Nack(name, reason, NoInterest), w) /\ w # << >>
  BY <1>4, <1>6, <1>8, NackRead
<1> QED  BY <1>5, <1>9

(* Data are not empty. *)
LEMMA OfDataTlv ==
    ASSUME NEW name \in Seq(Seq(Byte)), NEW payload \in Seq(Byte)
    PROVE  DataTlv(name, payload) # << >> /\ Len(DataTlv(name, payload)) \in Nat
<1>1. PICK n, i, p, g, z : /\ n = NameTlv(name) /\ i = BlobTlv(20, << >>) /\ p = BlobTlv(21, payload)
                           /\ g = BlobTlv(22, <<27, 1, 0>>) /\ z = BlobTlv(23, Zeroes(32))
  OBVIOUS
<1>2. n \in Seq(Byte) /\ i \in Seq(Byte) /\ p \in Seq(Byte) /\ g \in Seq(Byte) /\ z \in Seq(Byte)
  <2>1. DataParts(payload, NameTlv(name), BlobTlv(20, << >>), BlobTlv(21, payload),
                  BlobTlv(22, <<27, 1, 0>>), BlobTlv(23, Zeroes(32)))
    BY OfData
  <2>2. DataParts(payload, n, i, p, g, z)
    BY <1>1, <2>1
  <2> QED  BY <2>2 DEF DataParts
<1>3. PICK v : v = n \o i \o p \o g \o z
  OBVIOUS
<1>4. v \in Seq(Byte) /\ DataTlv(name, payload) = BlobTlv(6, v)
  BY <1>1, <1>2, <1>3, FiveJoined DEF DataTlv
<1> QED  BY <1>4, FirstByte, SizeOfBlob

(* The content that answers an interest is no longer than can be read. *)
LEMMA AnswerSize ==
    ASSUME NEW name \in Seq(Seq(Byte)), Len(InterestTlv(name)) <= 241
    PROVE  Len(DataTlv(name, <<58>>)) \in Sizes /\ <<58>> \in Seq(Byte)
<1>0. PICK payload : payload = <<58>>
  OBVIOUS
<1>1. PICK n, i, p, g, z :
          /\ n = NameTlv(name) /\ i = BlobTlv(20, << >>)
          /\ p = BlobTlv(21, payload) /\ g = BlobTlv(22, <<27, 1, 0>>) /\ z = BlobTlv(23, Zeroes(32))
  OBVIOUS
<1>2. payload \in Seq(Byte) /\ Len(payload) = 1
  BY <1>0 DEF Byte
<1>3. /\ n \in Seq(Byte) /\ i \in Seq(Byte) /\ p \in Seq(Byte) /\ g \in Seq(Byte) /\ z \in Seq(Byte)
      /\ Len(n) \in Nat
      /\ Len(i) \in Nat /\ Len(i) <= 10 /\ Len(p) \in Nat /\ Len(p) <= Len(payload) + 10
      /\ Len(g) \in Nat /\ Len(g) <= 13 /\ Len(z) \in Nat /\ Len(z) <= 42
  <2>1. DataParts(payload, NameTlv(name), BlobTlv(20, << >>), BlobTlv(21, payload),
                  BlobTlv(22, <<27, 1, 0>>), BlobTlv(23, Zeroes(32)))
    BY <1>2, OfData
  <2>2. DataParts(payload, n, i, p, g, z)
    BY <1>1, <2>1
  <2> QED  BY <2>2 DEF DataParts
<1>4. Len(n) <= 241
  <2>1. Len(n) <= Len(InterestTlv(name)) /\ Len(InterestTlv(name)) \in Nat
    BY <1>1, OfInterest
  <2> QED  BY <1>3, <2>1
<1>5. PICK v : v = n \o i \o p \o g \o z
  OBVIOUS
<1>6. v \in Seq(Byte) /\ Len(v) = Len(n) + Len(i) + Len(p) + Len(g) + Len(z)
  BY <1>3, <1>5, FiveJoined
<1>7. Len(v) \in Nat /\ Len(v) <= 400
  BY <1>2, <1>3, <1>4, <1>6
<1>8. Len(BlobTlv(6, v)) \in Nat /\ Len(BlobTlv(6, v)) <= Len(v) + 10
  BY <1>6, SizeOfBlob
<1>9. Len(BlobTlv(6, v)) \in Nat /\ Len(BlobTlv(6, v)) <= 410
  BY <1>7, <1>8
<1>10. Len(BlobTlv(6, v)) \in Sizes
  BY <1>9, SMT DEF Sizes
<1>11. DataTlv(name, payload) = BlobTlv(6, v)
  BY <1>1, <1>5 DEF DataTlv
<1> QED  BY <1>0, <1>2, <1>10, <1>11

(* A packet that has been received goes out as it came. *)
LEMMA PassedOn ==
    ASSUME NEW p, NEW w, w # << >>, p.wire = w, DecodedTlv(w) = p
    PROVE  Legible("ndn", p)
<1>1. EncodedTlv(p) = w
  BY DEF EncodedTlv
<1> QED  BY <1>1 DEF Legible, Encoded, Decoded

(* An interest is read as it was meant, and so are the answers to it. *)
LEMMA InterestFits ==
    ASSUME NEW name \in Seq(Seq(Byte)), Len(InterestTlv(name)) <= 241
    PROVE  /\ Legible("ndn", Interest(name))
           /\ \A r \in Sendable(Decoded("ndn", Encoded("ndn", Interest(name)))) : Legible("ndn", r)
<1>1. PICK w, d : w = InterestTlv(name) /\ d = Received(Interest(name), w)
  OBVIOUS
<1>2. Len(w) \in Nat /\ Len(w) <= 241
  BY <1>1, OfInterest
<1>3. Len(InterestTlv(name)) \in Sizes
  BY <1>1, <1>2, SMT DEF Sizes
<1>4. DecodedTlv(w) = d
  BY <1>1, <1>3, InterestComesThrough
<1>5. EncodedTlv(Interest(name)) = w
  BY <1>1 DEF EncodedTlv, Interest
<1>6. /\ d.type = "interest" /\ d.name = name /\ d.wire = w
      /\ Interest(name).type = "interest" /\ Interest(name).name = name
  BY <1>1 DEF Interest, Received
<1>7. Legible("ndn", Interest(name))
  BY <1>4, <1>5, <1>6 DEF Legible, Encoded, Decoded, Meaning
<1>8. Legible("ndn", d)
  <2>1. w # << >>
    <3>1. PICK v : v = NameTlv(name) \o BlobTlv(10, Zeroes(4))
      OBVIOUS
    <3>2. v \in Seq(Byte) /\ w = BlobTlv(5, v)
      BY <1>1, <3>1, OfInterest DEF InterestTlv
    <3> QED  BY <3>2, FirstByte
  <2> QED  BY <1>4, <1>6, <2>1, PassedOn
<1>9. Legible("ndn", Nack(name, 150, d))
  <2>1. 150 \in Reasons
    BY SMT DEF Reasons, NackReason, NoReason
  <2>2. d \in {Interest(name), Received(Interest(name), InterestTlv(name))}
    BY <1>1
  <2>3. DecodedTlv(NackTlv(150, d)) = Received(Nack(name, 150, NoInterest), NackTlv(150, d))
    BY <2>1, <2>2, NackComesThrough
  <2>4. EncodedTlv(Nack(name, 150, d)) = NackTlv(150, d)
    BY DEF EncodedTlv, Nack
  <2>5. Meaning(Received(Nack(name, 150, NoInterest), NackTlv(150, d))) = Meaning(Nack(name, 150, d))
    BY DEF Meaning, Received, Nack
  <2> QED  BY <2>3, <2>4, <2>5 DEF Legible, Encoded, Decoded
<1>10. Legible("ndn", Content(name, <<58>>))
  <2>1. PICK c : c = <<58>>
    OBVIOUS
  <2>2. c \in Seq(Byte) /\ Len(DataTlv(name, c)) \in Sizes
    BY <2>1, AnswerSize
  <2>3. DecodedTlv(DataTlv(name, c)) = Received(Content(name, c), DataTlv(name, c))
    BY <2>2, DataRead
  <2>4. EncodedTlv(Content(name, c)) = DataTlv(name, c)
    BY DEF EncodedTlv, Content
  <2>5. Meaning(Received(Content(name, c), DataTlv(name, c))) = Meaning(Content(name, c))
    BY DEF Meaning, Received, Content
  <2> QED  BY <2>1, <2>3, <2>4, <2>5 DEF Legible, Encoded, Decoded
<1>11. Sendable(d) = {d, Nack(name, 150, d), Content(name, <<58>>)}
  BY <1>6 DEF Sendable
<1>12. Decoded("ndn", Encoded("ndn", Interest(name))) = d
  BY <1>4, <1>5 DEF Decoded, Encoded
<1> QED  BY <1>7, <1>8, <1>9, <1>10, <1>11, <1>12

(* What is true of a packet that is not an interest, if it is read as it   *)
(* was meant.                                                              *)
LEMMA OtherFits ==
    ASSUME NEW p, NEW d, NEW w, w # << >>, EncodedTlv(p) = w, DecodedTlv(w) = d, d.wire = w,
           d.type \in {"content", "nack"}, Meaning(d) = Meaning(p)
    PROVE  /\ Legible("ndn", p)
           /\ \A r \in Sendable(Decoded("ndn", Encoded("ndn", p))) : Legible("ndn", r)
<1>1. Decoded("ndn", Encoded("ndn", p)) = d
  BY DEF Decoded, Encoded
<1>2. Legible("ndn", p)
  BY <1>1 DEF Legible
<1>3. Sendable(d) = {d}
  BY DEF Sendable
<1>4. Legible("ndn", d)
  BY PassedOn
<1> QED  BY <1>1, <1>2, <1>3, <1>4

-----------------------------------------------------------------------------
(* The theorems *)

LEMMA StackInvStep ==
    ASSUME NEW c, Callers = {c}, AnswersLegible, StackInv(c), [LinkNext]_linkVars
    PROVE  StackInv(c)'
<1>1. CASE UNCHANGED linkVars
  <2>1. /\ UNCHANGED <<vars, layers, ports, started, queues, encoder, to_bus, from_bus, packet,
                       arrived, handed, wanted>>
    BY <1>1 DEF linkVars, stack, network, told
  <2>2. IInv(c)' /\ given' = given /\ pc' = pc /\ addr' = addr
    BY <2>1, TableKept DEF StackInv
  <2>3. Connected' /\ Connected /\ OnBus
    BY <2>1, ConnectedSame DEF StackInv
  <2>4. WayUp(c)'
    BY <2>1, <2>2, <2>3, UpKept DEF StackInv
  <2>5. WayDown'
    <3>1. GotStays
      BY <2>1 DEF GotStays, FromNode
    <3> QED  BY <2>1, <2>2, <2>3, <3>1, DownKept DEF StackInv
  <2>6. OnBus'
    BY <2>1, <2>3 DEF OnBus
  <2>7. Unstarted' /\ Quiet(c)'
    BY <2>1, <2>2 DEF StackInv, Unstarted, Quiet
  <2> QED  BY <2>2, <2>3, <2>4, <2>5, <2>6, <2>7 DEF StackInv
<1>2. CASE Build
  BY <1>2, BuildKeeps
<1>3. CASE StartAll
  BY <1>3, StartKeeps
<1>4. CASE \E i \in Interfaces : Dispatch(i)
  BY <1>4, DispatchKeeps
<1>5. CASE LinkLayer
  <2>1. LinkReceive(c) \/ LinkLooksUp(c) \/ LinkHandsUp(c) \/ LinkSend(c)
    BY <1>5 DEF LinkLayer
  <2> QED  BY <2>1, ReceiveKeeps, LooksUpKeeps, HandsUpKeeps, SendKeeps
<1>6. CASE EncodingLayer
  BY <1>6, EncodingKeeps
<1>7. CASE ICNLayer
  BY <1>7, ICNKeeps
<1>8. CASE \E l \in Passers : Passing(l)
  BY <1>8, PassingKeeps
<1> QED  BY <1>1, <1>2, <1>3, <1>4, <1>5, <1>6, <1>7, <1>8 DEF LinkNext

LEMMA StackInvariant ==
    ASSUME NEW c, Callers = {c}, AnswersLegible
    PROVE  LinkSpec => []StackInv(c)
<1>1. LinkInit => StackInv(c)
  BY StackInvInit
<1>2. StackInv(c) /\ [LinkNext]_linkVars => StackInv(c)'
  BY StackInvStep
<1> QED  BY <1>1, <1>2, PTL DEF LinkSpec

(* Whatever layers are inserted, what the bus gives the node reaches the   *)
(* ICN layer once and in order, decoded to what its sender meant, and with *)
(* a face that get_or_create_faceid has given for the sender.              *)
THEOREM HandsUpInOrder ==
    ASSUME NEW c, Callers = {c}, PostsLegible, AnswersLegible
    PROVE  LinkSpec => []HandedUpRight
<1>1. StackInv(c) => HandedUpRight
  <2> SUFFICES ASSUME StackInv(c), NEW i \in DOMAIN handed
               PROVE  /\ i \in DOMAIN arrived
                      /\ <<arrived[i][1], handed[i][1]>> \in given
                      /\ Meaning(handed[i][2]) = arrived[i][2]
    BY DEF HandedUpRight
  <2>1. DOMAIN handed = 1 .. Len(handed) /\ DOMAIN arrived = 1 .. Len(arrived)
    BY SeqDomain DEF StackInv, OnBus
  <2>2. AllFit(arrived, given, encoder, 0, handed, "packet")
    BY DEF StackInv, WayUp, UpRight
  <2>3. Fits(arrived, given, encoder, 0 + i, handed[i], "packet") /\ 0 + i = i
    BY <2>1, <2>2 DEF AllFit
  <2>4. Stands(encoder, arrived[i][2], handed[i][2], "packet")
    BY <2>3 DEF Fits
  <2>5. Meaning(handed[i][2]) = arrived[i][2]
    BY <2>4 DEF Stands, PostsLegible, Legible
  <2> QED  BY <2>1, <2>3, <2>5 DEF Fits
<1>2. LinkSpec => []StackInv(c)
  BY StackInvariant
<1> QED  BY <1>1, <1>2, PTL

(* A peer gets from the node only what the ICN layer has sent to one of    *)
(* the peer's faces, and as often at most as it was sent to them, although *)
(* faces are evicted while packets are on the way and the bus may lose     *)
(* them.                                                                   *)
THEOREM ServesTheRightPeers ==
    ASSUME NEW c, Callers = {c}, AnswersLegible
    PROVE  LinkSpec => []PeersServedRight
<1>1. StackInv(c) => PeersServedRight
  <2> SUFFICES ASSUME StackInv(c), NEW a \in Addresses,
                      NEW m \in {Carried(from_bus[a][i]) : i \in FromNode(a)}
               PROVE  Cardinality({i \in FromNode(a) : Carried(from_bus[a][i]) = m})
                        <= Cardinality({i \in DOMAIN wanted : /\ wanted[i][2] = m
                                                              /\ <<a, wanted[i][1]>> \in given})
    BY DEF PeersServedRight
  <2> DEFINE S == {i \in FromNode(a) : Carried(from_bus[a][i]) = m}
             T == {i \in DOMAIN wanted : wanted[i][2] = m /\ <<a, wanted[i][1]>> \in given}
  <2>1. Len(wanted) \in Nat /\ DOMAIN wanted = 1 .. Len(wanted)
    BY SeqDomain DEF StackInv, OnBus
  <2>2. PICK e, w : Got(a, e, w)
    BY DEF StackInv, WayDown, OnWire
  <2>3. PICK f : f = [i \in S |-> w[i]]
    OBVIOUS
  <2>4. \A i \in S : w[i] \in T
    <3> SUFFICES ASSUME NEW i \in S PROVE w[i] \in T
      OBVIOUS
    <3>1. Serves(wanted, given, encoder, w[i], a, from_bus[a][i][2]) /\ Carried(from_bus[a][i]) = m
      BY <2>2 DEF Got
    <3> QED  BY <2>1, <3>1 DEF Serves, Carried
  <2>5. f \in Injection(S, T)
    <3>1. f \in [S -> T]
      BY <2>3, <2>4
    <3>2. \A i, j \in S : f[i] = f[j] => i = j
      BY <2>2, <2>3 DEF Got
    <3> HIDE DEF S, T
    <3> QED  BY <3>1, <3>2 DEF Injection, IsInjective
  <2>6. IsFiniteSet(T)
    <3>1. IsFiniteSet(1 .. Len(wanted)) /\ T \subseteq 1 .. Len(wanted)
      BY <2>1, FS_Interval
    <3> QED  BY <3>1, FS_Subset
  <2> HIDE DEF S, T
  <2>7. Cardinality(S) <= Cardinality(T)
    BY <2>5, <2>6, FS_Injection
  <2> QED  BY <2>7 DEF S, T
<1>2. LinkSpec => []StackInv(c)
  BY StackInvariant
<1> QED  BY <1>1, <1>2, PTL

(* Counts that no link changes are the same at the top and at the bottom.  *)
LEMMA LevelCounts ==
    ASSUME NEW h \in Nat, h >= 1, NEW u \in [1 .. h -> Nat],
           \A i \in 1 .. h - 1 : u[i + 1] = u[i]
    PROVE  u[h] = u[1]
<1> SUFFICES ASSUME u[h] # u[1] PROVE FALSE
  OBVIOUS
<1> DEFINE U == {i \in 1 .. h : u[i] # u[1]}
<1>1. U \subseteq Nat /\ h \in U
  OBVIOUS
<1>2. PICK x \in U : \A y \in U : x <= y
  <2> HIDE DEF U
  <2> QED  BY <1>1, LeastOf
<1>3. x \in 2 .. h /\ u[x] # u[1]
  BY <1>2
<1>4. x - 1 \in 1 .. h - 1 /\ x - 1 \notin U /\ x - 1 \in 1 .. h
  BY <1>2, <1>3
<1>5. u[x - 1] = u[1]
  BY <1>4
<1>6. u[(x - 1) + 1] = u[x - 1] /\ (x - 1) + 1 = x
  BY <1>3, <1>4
<1> QED  BY <1>3, <1>5, <1>6

(* When all layers are idle, no queue has anything in it. *)
LEMMA AllIdle ==
    ASSUME Connected, started, \A l \in Layers : Idle(l)
    PROVE  /\ \A i \in Links : queues[Up(i)] = << >> /\ queues[Down(i)] = << >>
           /\ \A q \in DOMAIN queues : queues[q] = << >>
<1>1. \A i \in 1 .. Height : Contains(layers, layers[i]) /\ layers[i] \in Layers
  BY Tall DEF Contains, Height
<1>2. ASSUME NEW i \in Links PROVE queues[Up(i)] = << >> /\ queues[Down(i)] = << >>
  <2>1. i \in 1 .. Height /\ i + 1 \in 1 .. Height
    BY Tall
  <2>2. ports[layers[i]].from_lower = Up(i) /\ ports[layers[i + 1]].from_higher = Down(i)
    BY DEF Connected, Linked, Up
  <2>3. ~HasData(layers[i], "from_lower") /\ ~HasData(layers[i + 1], "from_higher")
    BY <1>1, <2>1 DEF Idle
  <2> QED  BY <1>1, <2>1, <2>2, <2>3 DEF HasData
<1>3. DOMAIN queues = 1 .. Len(queues) /\ Len(queues) \in Nat
  BY SeqDomain DEF Connected, Used
<1>4. ASSUME NEW q \in DOMAIN queues PROVE queues[q] = << >>
  <2>1. q \in 1 .. 4 \/ q \in 5 .. Len(queues)
    BY <1>3
  <2>2. CASE q \in 1 .. 4
    BY <2>2 DEF Connected, Used
  <2>3. CASE q \in 5 .. Len(queues)
    <3>1. PICK i \in Links : q \in {Up(i), Down(i)}
      BY <2>3 DEF Connected, Used
    <3> QED  BY <1>2, <3>1
  <2> QED  BY <2>1, <2>2, <2>3
<1> QED  BY <1>2, <1>4

(* Nothing gets stuck: when no process of the node has anything to do, all *)
(* that the bus gave it is with the ICN layer and every queue is empty,    *)
(* those of the inserted layers among them.                                *)
THEOREM NothingIsLeft ==
    ASSUME NEW c, Callers = {c}, AnswersLegible
    PROVE  LinkSpec => []NothingLeft
<1>1. StackInv(c) => NothingLeft
  <2> SUFFICES ASSUME StackInv(c), Settled
               PROVE  /\ \A q \in DOMAIN queues : queues[q] = << >>
                      /\ Len(handed) = Len(arrived)
    BY DEF NothingLeft
  <2>1. Connected /\ from_bus[Node] = << >> /\ pc[c] = "idle"
    BY DEF StackInv, Settled, Waiting
  <2>2. /\ \A i \in Links : queues[Up(i)] = << >> /\ queues[Down(i)] = << >>
        /\ \A q \in DOMAIN queues : queues[q] = << >>
    BY <2>1, AllIdle DEF Settled
  <2>3. PICK u : UpOrder(c, u)
    BY DEF StackInv, WayUp
  <2>4. Height \in Nat /\ Height >= 3 /\ Links = 1 .. Height - 1
    BY <2>1, Tall
  <2>5. \A i \in Links : u[i + 1] = u[i]
    <3> SUFFICES ASSUME NEW i \in Links PROVE u[i + 1] = u[i]
      OBVIOUS
    <3>1. u[i + 1] = u[i] + Len(queues[Up(i)]) /\ Len(queues[Up(i)]) = 0
      BY <2>2, <2>3 DEF UpOrder
    <3>2. u[i] \in Nat
      BY <2>3, <2>4 DEF UpOrder
    <3> QED  BY <3>1, <3>2
  <2>6. u[Height] = u[1]
    <3>1. PICK h : h = Height
      OBVIOUS
    <3>2. /\ h \in Nat /\ h >= 1 /\ u \in [1 .. h -> Nat]
          /\ \A i \in 1 .. h - 1 : u[i + 1] = u[i]
      BY <2>3, <2>4, <2>5, <3>1 DEF UpOrder
    <3>3. u[h] = u[1]
      BY <3>2, LevelCounts
    <3> QED  BY <3>1, <3>3
  <2>7. Len(arrived) = u[Height] + 0 + 0 /\ u[Height] \in Nat /\ u[1] = Len(handed)
    <3>1. Handling(c) = 0 /\ Len(from_bus[Node]) = 0
      BY <2>1 DEF Handling
    <3> QED  BY <2>3, <2>4, <3>1 DEF UpOrder
  <2> QED  BY <2>2, <2>6, <2>7
<1>2. LinkSpec => []StackInv(c)
  BY StackInvariant
<1> QED  BY <1>1, <1>2, PTL

(* Each step of the node is a statement of the face table, or leaves it as *)
(* it is.                                                                  *)
LEMMA TableSteps ==
    ASSUME NEW c, Callers = {c}, StackInv(c), [LinkNext]_linkVars
    PROVE  [Next]_vars
<1>1. CASE LinkReceive(c)
  <2>1. PICK x : x = Head(from_bus[Node])
    OBVIOUS
  <2>2. Call(c, x[1])
    BY <1>1, <2>1 DEF LinkReceive
  <2>3. x[1] \in Addresses
    BY <1>1, <2>1, ReceivesFromPeer
  <2> QED  BY <2>2, <2>3 DEF Next, Step
<1>2. CASE LinkLooksUp(c)
  BY <1>2 DEF LinkLooksUp, TableStep, Next, Step
<1>3. CASE LinkHandsUp(c)
  BY <1>3 DEF LinkHandsUp, Next, Step
<1>4. CASE UNCHANGED linkVars \/ LinkSend(c)
  BY <1>4 DEF linkVars, LinkSend
<1>5. CASE Build \/ StartAll \/ EncodingLayer \/ ICNLayer
  BY <1>5 DEF Build, StartAll, EncodingLayer, ICNLayer
<1>6. CASE \E i \in Interfaces : Dispatch(i)
  BY <1>6 DEF Dispatch
<1>7. CASE \E l \in Passers : Passing(l)
  BY <1>7 DEF Passing
<1> QED  BY <1>1, <1>2, <1>3, <1>4, <1>5, <1>6, <1>7 DEF LinkNext, LinkLayer

(* The face table under the link layer is the abstract face map: the link  *)
(* layer never has two calls at once, and calls only for addresses of the  *)
(* bus.                                                                    *)
THEOREM LinkLayerHasFaceMap ==
    ASSUME NEW c, Callers = {c}, AnswersLegible
    PROVE  LinkSpec => IsFaceMap
<1>1. LinkInit => Map!Init
  BY MapSteps DEF LinkInit
<1>2. StackInv(c) /\ StackInv(c)' /\ [LinkNext]_linkVars => [Map!Next]_<<Shown, Counted>>
  <2> SUFFICES ASSUME StackInv(c), StackInv(c)', [LinkNext]_linkVars
               PROVE  [Map!Next]_<<Shown, Counted>>
    OBVIOUS
  <2>1. IInv(c) /\ IInv(c)'
    BY DEF StackInv
  <2>2. [Next]_vars
    BY TableSteps
  <2> QED  BY <2>1, <2>2, MapSteps
<1>3. LinkSpec => []StackInv(c)
  BY StackInvariant
<1> QED
  BY <1>1, <1>2, <1>3, PTL DEF LinkSpec, IsFaceMap, Map!Spec

(* NdnTlvEncoder changes no packet of the lengths of FitsTlv: what decode  *)
(* makes of what encode has written says the same as the packet, whatever  *)
(* its name, its payload and its reason; and so does what the ICN layer    *)
(* may send when it has got the packet, the Nack around it and the packet  *)
(* itself among them.                                                      *)
THEOREM TlvRoundTrip ==
    ASSUME NEW p, FitsTlv(p)
    PROVE  /\ Legible("ndn", p)
           /\ \A r \in Sendable(Decoded("ndn", Encoded("ndn", p))) : Legible("ndn", r)
<1>1. p.type \in {"interest", "content", "nack"} /\ p.name \in Seq(Seq(Byte))
  BY DEF FitsTlv
<1>2. CASE p.type = "interest"
  <2>1. p = Interest(p.name) /\ Len(InterestTlv(p.name)) <= 241
    BY <1>2 DEF FitsTlv
  <2>2. /\ Legible("ndn", Interest(p.name))
        /\ \A r \in Sendable(Decoded("ndn", Encoded("ndn", Interest(p.name)))) : Legible("ndn", r)
    BY <1>1, <2>1, InterestFits
  <2> QED  BY <2>1, <2>2
<1>3. CASE p.type = "content"
  <2>1. PICK name, payload, w, d : /\ name = p.name /\ payload = p.payload
                                   /\ w = DataTlv(name, payload)
                                   /\ d = Received(Content(name, payload), w)
    OBVIOUS
  <2>2. /\ p = Content(name, payload) /\ payload \in Seq(Byte) /\ name \in Seq(Seq(Byte))
        /\ Len(w) <= 2147483647
    BY <1>1, <1>3, <2>1, SMT DEF FitsTlv
  <2>3. w # << >> /\ Len(w) \in Nat
    BY <2>1, <2>2, OfDataTlv
  <2>4. Len(DataTlv(name, payload)) \in Sizes
    BY <2>1, <2>2, <2>3, SMT DEF Sizes
  <2>5. DecodedTlv(w) = d
    BY <2>1, <2>2, <2>4, DataRead
  <2>6. EncodedTlv(Content(name, payload)) = w
    BY <2>1 DEF EncodedTlv, Content
  <2>7. d.wire = w /\ d.type = "content" /\ Meaning(d) = Meaning(Content(name, payload))
    BY <2>1 DEF Received, Content, Meaning
  <2>8. EncodedTlv(p) = w /\ Meaning(d) = Meaning(p) /\ d.type \in {"content", "nack"}
    BY <2>2, <2>6, <2>7
  <2> QED  BY <2>3, <2>5, <2>7, <2>8, OtherFits
<1>4. CASE p.type = "nack"
  <2>1. PICK name, reason, interest, w, d :
            /\ name = p.name /\ reason = p.reason /\ interest = p.interest
            /\ w = NackTlv(reason, interest) /\ d = Received(Nack(name, reason, NoInterest), w)
    OBVIOUS
  <2>2. /\ p = Nack(name, reason, interest) /\ reason \in Reasons /\ name \in Seq(Seq(Byte))
        /\ interest \in {Interest(name), Received(Interest(name), InterestTlv(name))}
        /\ Len(InterestTlv(name)) <= 241
    BY <1>1, <1>4, <2>1 DEF FitsTlv, Reasons
  <2>3. DecodedTlv(w) = d /\ w # << >>
    BY <2>1, <2>2, NackComesThrough
  <2>4. EncodedTlv(Nack(name, reason, interest)) = w
    BY <2>1 DEF EncodedTlv, Nack
  <2>5. /\ d.wire = w /\ d.type = "nack"
        /\ Meaning(d) = Meaning(Nack(name, reason, interest))
    BY <2>1 DEF Received, Nack, Meaning
  <2>6. EncodedTlv(p) = w /\ Meaning(d) = Meaning(p) /\ d.type \in {"content", "nack"}
    BY <2>2, <2>4, <2>5
  <2> QED  BY <2>3, <2>5, <2>6, OtherFits
<1> QED  BY <1>1, <1>2, <1>3, <1>4

LEMMA FittingIsLegible ==
    ASSUME PostsFit PROVE PostsLegible /\ AnswersLegible
<1> SUFFICES ASSUME NEW s \in Scenes, NEW p \in ForNode(s)
             PROVE  \A r \in {p} \cup Sendable(Decoded(s.encoder, Encoded(s.encoder, p))) :
                       Legible(s.encoder, r)
  BY DEF PostsLegible, AnswersLegible
<1>1. CASE s.encoder = "ndn"
  <2>1. FitsTlv(p)
    BY <1>1 DEF PostsFit
  <2>2. /\ Legible("ndn", p)
        /\ \A r \in Sendable(Decoded("ndn", Encoded("ndn", p))) : Legible("ndn", r)
    BY <2>1, TlvRoundTrip
  <2> QED  BY <1>1, <2>2
<1>2. CASE s.encoder # "ndn"
  BY <1>2 DEF PostsFit
<1> QED  BY <1>1, <1>2

(* With packets that fit, whatever layers are inserted, nothing is changed *)
(* on its way to the ICN layer, nothing reaches a wrong peer and nothing   *)
(* is left on the way.                                                     *)
THEOREM LinkStackIsRight ==
    ASSUME NEW c, Callers = {c}, PostsFit
    PROVE  LinkSpec => [](HandedUpRight /\ PeersServedRight /\ NothingLeft)
<1>1. PostsLegible /\ AnswersLegible
  BY FittingIsLegible
<1>2. LinkSpec => []HandedUpRight
  BY <1>1, HandsUpInOrder
<1>3. LinkSpec => []PeersServedRight
  BY <1>1, ServesTheRightPeers
<1>4. LinkSpec => []NothingLeft
  BY <1>1, NothingIsLeft
<1> QED  BY <1>2, <1>3, <1>4, PTL
===============================================================================

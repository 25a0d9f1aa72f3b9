------------------------------ MODULE FaceTable ------------------------------
(***************************************************************************)
(* The face table (FaceIDDict) in the process of the BaseManager, which    *)
(* runs one thread for each process that calls it: the link layer, the     *)
(* management interface, and the autoconfig and routing layers.  Nothing   *)
(* locks the table, so the statements of get_or_create_faceid, of the      *)
(* eviction it starts with and of the add it ends with are steps of their  *)
(* own, and the steps of different callers interleave.                     *)
(***************************************************************************)
EXTENDS Integers, SequencesExt

CONSTANTS
    Addresses,  \* the address infos of the peers
    Callers,    \* the threads of the manager
    MaxEntries, \* max_entries
    LastFaceId, \* bound: no call begins once this id has been given out
    None        \* what dict.get returns for a missing key

ASSUME FaceTableAssumption ==
    /\ MaxEntries \in Nat \ {0} /\ LastFaceId \in Nat
    /\ IsFiniteSet(Callers)
    /\ None \notin Addresses \cup Nat

VARIABLES
    faceid_to_addrinfo,
    addrinfo_to_faceid,
    faceids,      \* the face ids of the table, oldest first
    next_face_id,
    pc,           \* the statement each caller executes next
    addr,         \* the address each caller has asked for
    reg,          \* a face id each caller has read and will use
    info,         \* the address info each caller is about to remove
    given,        \* history: the pairs <<address, id>> calls have returned
    evicted       \* history: the ids an eviction has begun to remove

tables == <<faceid_to_addrinfo, addrinfo_to_faceid, faceids>>
history == <<given, evicted>>
vars == <<tables, next_face_id, pc, addr, reg, info, history>>

FaceIds == 0 .. LastFaceId + Cardinality(Callers)

(* The bound: once LastFaceId has been given out, only calls that find     *)
(* their address bound may still begin.                                    *)
Room(a) ==
    \/ next_face_id < LastFaceId
    \/ addrinfo_to_faceid[a] # None /\ \A p \in Callers : pc[p] = "idle"

Goto(p, label) == pc' = [pc EXCEPT ![p] = label]

-----------------------------------------------------------------------------
(* get_or_create_faceid *)

Call(p, a) ==
    /\ pc[p] = "idle" /\ Room(a)
    /\ addr' = [addr EXCEPT ![p] = a]
    /\ Goto(p, "lookup")
    /\ UNCHANGED <<tables, next_face_id, reg, info, history>>

Lookup(p) ==
    /\ pc[p] = "lookup"
    /\ IF addrinfo_to_faceid[addr[p]] # None
       THEN /\ given' = given \cup {<<addr[p], addrinfo_to_faceid[addr[p]]>>}
            /\ Goto(p, "idle")
       ELSE Goto(p, "evict") /\ UNCHANGED given
    /\ UNCHANGED <<tables, next_face_id, addr, reg, info, evicted>>

(* remove_oldest *)

(* Mutant of RemoveOldest: the newest entry is removed. *)
RemoveNewest(p) ==
    /\ pc[p] = "evict"
    /\ IF Len(faceids) < MaxEntries
       THEN Goto(p, "load") /\ UNCHANGED reg
       ELSE Goto(p, "find") /\ reg' = [reg EXCEPT ![p] = Last(faceids)]
    /\ UNCHANGED <<tables, next_face_id, addr, info, history>>

RemoveOldest(p) ==
    /\ pc[p] = "evict"
    /\ IF Len(faceids) < MaxEntries
       THEN Goto(p, "load") /\ UNCHANGED reg
       ELSE Goto(p, "find") /\ reg' = [reg EXCEPT ![p] = faceids[1]]
    /\ UNCHANGED <<tables, next_face_id, addr, info, history>>

(* remove: nothing to do if another call has removed the id meanwhile. *)
FindOldest(p) ==
    /\ pc[p] = "find"
    /\ IF faceid_to_addrinfo[reg[p]] = None
       THEN Goto(p, "load") /\ UNCHANGED <<info, evicted>>
       ELSE /\ info' = [info EXCEPT ![p] = faceid_to_addrinfo[reg[p]]]
            /\ evicted' = evicted \cup {reg[p]}
            /\ Goto(p, "del_face")
    /\ UNCHANGED <<tables, next_face_id, addr, reg, given>>

(* Deleting a key or a list element that is gone raises an exception,      *)
(* which ends the call and, in a layer, the process that called.           *)
DelFace(p) ==
    /\ pc[p] = "del_face"
    /\ Goto(p, IF faceid_to_addrinfo[reg[p]] = None THEN "failed"
               ELSE "del_addr")
    /\ faceid_to_addrinfo' = [faceid_to_addrinfo EXCEPT ![reg[p]] = None]
    /\ UNCHANGED <<addrinfo_to_faceid, faceids, next_face_id, addr, reg, info,
                   history>>

DelAddr(p) ==
    /\ pc[p] = "del_addr"
    /\ Goto(p, IF addrinfo_to_faceid[info[p]] = None THEN "failed"
               ELSE "del_id")
    /\ addrinfo_to_faceid' = [addrinfo_to_faceid EXCEPT ![info[p]] = None]
    /\ UNCHANGED <<faceid_to_addrinfo, faceids, next_face_id, addr, reg, info,
                   history>>

DelId(p) ==
    /\ pc[p] = "del_id"
    /\ Goto(p, IF Contains(faceids, reg[p]) THEN "load" ELSE "failed")
    /\ faceids' = RemoveFirst(faceids, reg[p])
    /\ UNCHANGED <<faceid_to_addrinfo, addrinfo_to_faceid, next_face_id, addr,
                   reg, info, history>>

-----------------------------------------------------------------------------
(* self.next_face_id += 1 reads the counter and writes it. *)

LoadCounter(p) ==
    /\ pc[p] = "load"
    /\ reg' = [reg EXCEPT ![p] = next_face_id]
    /\ Goto(p, "store")
    /\ UNCHANGED <<tables, next_face_id, addr, info, history>>

StoreCounter(p) ==
    /\ pc[p] = "store"
    /\ next_face_id' = reg[p] + 1
    /\ Goto(p, "argument")
    /\ UNCHANGED <<tables, addr, reg, info, history>>

-----------------------------------------------------------------------------
(* add, and the return of the id, which reads the counter once more *)

AddArgument(p) ==
    /\ pc[p] = "argument"
    /\ reg' = [reg EXCEPT ![p] = next_face_id]
    /\ Goto(p, "test")
    /\ UNCHANGED <<tables, next_face_id, addr, info, history>>

TestAbsent(p) ==
    /\ pc[p] = "test"
    /\ Goto(p, IF /\ faceid_to_addrinfo[reg[p]] = None
                  /\ addrinfo_to_faceid[addr[p]] = None
               THEN "put_face" ELSE "return")
    /\ UNCHANGED <<tables, next_face_id, addr, reg, info, history>>

PutFace(p) ==
    /\ pc[p] = "put_face"
    /\ faceid_to_addrinfo' = [faceid_to_addrinfo EXCEPT ![reg[p]] = addr[p]]
    /\ Goto(p, "put_addr")
    /\ UNCHANGED <<addrinfo_to_faceid, faceids, next_face_id, addr, reg, info,
                   history>>

PutAddr(p) ==
    /\ pc[p] = "put_addr"
    /\ addrinfo_to_faceid' = [addrinfo_to_faceid EXCEPT ![addr[p]] = reg[p]]
    /\ Goto(p, "put_id")
    /\ UNCHANGED <<faceid_to_addrinfo, faceids, next_face_id, addr, reg, info,
                   history>>

PutId(p) ==
    /\ pc[p] = "put_id"
    /\ faceids' = Append(faceids, reg[p])
    /\ Goto(p, "return")
    /\ UNCHANGED <<faceid_to_addrinfo, addrinfo_to_faceid, next_face_id, addr,
                   reg, info, history>>

Return(p) ==
    /\ pc[p] = "return"
    /\ given' = given \cup {<<addr[p], next_face_id>>}
    /\ Goto(p, "idle")
    /\ UNCHANGED <<tables, next_face_id, addr, reg, info, evicted>>

-----------------------------------------------------------------------------
Init ==
    /\ faceid_to_addrinfo = [i \in FaceIds |-> None]
    /\ addrinfo_to_faceid = [a \in Addresses |-> None]
    /\ faceids = << >>
    /\ next_face_id = -1
    /\ pc = [p \in Callers |-> "idle"]
    /\ addr = [p \in Callers |-> None]
    /\ reg = [p \in Callers |-> -1]
    /\ info = [p \in Callers |-> None]
    /\ given = {} /\ evicted = {}

Step(p) ==
    \/ \E a \in Addresses : Call(p, a)
    \/ Lookup(p)
    \/ RemoveOldest(p) \/ FindOldest(p)
    \/ DelFace(p) \/ DelAddr(p) \/ DelId(p)
    \/ LoadCounter(p) \/ StoreCounter(p)
    \/ AddArgument(p) \/ TestAbsent(p)
    \/ PutFace(p) \/ PutAddr(p) \/ PutId(p)
    \/ Return(p)

Next == \E p \in Callers : Step(p)

Spec == Init /\ [][Next]_vars

-----------------------------------------------------------------------------
(* Properties *)

Labels == {"idle", "lookup", "evict", "find", "del_face", "del_addr", "del_id",
           "load", "store", "argument", "test", "put_face", "put_addr",
           "put_id", "return", "failed"}

(* The types of the table and of the callers' local state. *)
TypeOK ==
    /\ faceid_to_addrinfo \in [FaceIds -> Addresses \cup {None}]
    /\ addrinfo_to_faceid \in [Addresses -> FaceIds \cup {None}]
    /\ faceids \in Seq(FaceIds)
    /\ next_face_id \in FaceIds \cup {-1}
    /\ pc \in [Callers -> Labels]
    /\ addr \in [Callers -> Addresses \cup {None}]
    /\ reg \in [Callers -> FaceIds \cup {-1}]
    /\ info \in [Callers -> Addresses \cup {None}]
    /\ given \subseteq Addresses \X FaceIds
    /\ evicted \subseteq FaceIds

(* The link layer answers a packet by sending to the face the packet came  *)
(* from: an id given for one address is never given for another one.       *)
FaceMeansOneAddress ==
    \A g, h \in given : g[2] = h[2] => g[1] = h[1]

(* A face that was given for an address leads to that address, or to none  *)
(* once it has been evicted; only then the address has got another face.   *)
GivenFaceLeadsBack ==
    \A g \in given :
        /\ faceid_to_addrinfo[g[2]] \in {g[1], None}
        /\ g[2] \notin evicted => /\ faceid_to_addrinfo[g[2]] = g[1]
                                  /\ addrinfo_to_faceid[g[1]] = g[2]

(* Between two calls the two dictionaries are inverse to one another, and   *)
(* the list holds exactly the ids in use, in the order they were given.    *)
Consistent ==
    (\A p \in Callers : pc[p] = "idle") =>
        /\ \A i \in FaceIds, a \in Addresses :
              faceid_to_addrinfo[i] = a <=> addrinfo_to_faceid[a] = i
        /\ \A i \in FaceIds :
              faceid_to_addrinfo[i] # None <=> Contains(faceids, i)
        /\ \A j, k \in DOMAIN faceids : j < k => faceids[j] < faceids[k]

(* Whatever the order of calls, the table never outgrows max_entries. *)
WithinLimit == Len(faceids) <= MaxEntries

(* No eviction deletes what is gone already: no call raises an exception. *)
NoCallFails == \A p \in Callers : pc[p] # "failed"

(* The bindings that are complete, in the order of the list of ids: one    *)
(* that is being removed loses its address first.                          *)
Complete ==
    IF faceids # << >> /\ faceid_to_addrinfo[Head(faceids)] = None
    THEN Tail(faceids) ELSE faceids

(* The counter runs ahead of the table while an id is being added. *)
Adding == \E p \in Callers :
    pc[p] \in {"argument", "test", "put_face", "put_addr", "put_id"}

Shown == [i \in DOMAIN Complete |->
             <<Complete[i], faceid_to_addrinfo[Complete[i]]>>]
Counted == IF Adding THEN next_face_id - 1 ELSE next_face_id

Map == INSTANCE FaceMap WITH table <- Shown, last <- Counted

(* Calls that do not overlap bind and evict like the abstract face map. *)
IsFaceMap == Map!Spec
=============================================================================

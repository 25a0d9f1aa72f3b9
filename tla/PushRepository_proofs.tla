------------------------- MODULE PushRepository_proofs -------------------------
(***************************************************************************)
(* Proofs about a push repository and its management: what has been        *)
(* confirmed survives a shutdown between any two steps, and a rule leads   *)
(* where its client said.                                                  *)
(***************************************************************************)
EXTENDS PushRepository, SequenceTheorems, TLAPS

-----------------------------------------------------------------------------
(* Sequences over whatever is in them.                                     *)
IsSeq(s) == s \in Seq(Range(s))

LEMMA RangeMember ==
    ASSUME NEW s, NEW k \in DOMAIN s
    PROVE  s[k] \in Range(s)
BY DEF Range

LEMMA SeqWidens ==
    ASSUME NEW A, NEW B, A \subseteq B, NEW s \in Seq(A)
    PROVE  s \in Seq(B)
<1>1. /\ Len(s) \in Nat /\ DOMAIN s = 1 .. Len(s) /\ \A k \in 1 .. Len(s) : s[k] \in B
      /\ s = [k \in 1 .. Len(s) |-> s[k]]
  OBVIOUS
<1> QED  BY <1>1

(* What has the positions of a sequence is one.                            *)
LEMMA MakesSeq ==
    ASSUME NEW B, NEW s \in Seq(B)
    PROVE  IsSeq(s)
<1>1. /\ Len(s) \in Nat /\ DOMAIN s = 1 .. Len(s) /\ \A k \in 1 .. Len(s) : s[k] \in Range(s)
      /\ s = [k \in 1 .. Len(s) |-> s[k]]
  BY RangeMember
<1> QED  BY <1>1 DEF IsSeq

LEMMA EmptyIsSeq == IsSeq(<<>>)
<1>1. <<>> \in Seq({})
  OBVIOUS
<1> QED  BY <1>1, MakesSeq

LEMMA AppendIsSeq ==
    ASSUME NEW s, IsSeq(s), NEW e
    PROVE  /\ IsSeq(Append(s, e)) /\ Len(s) \in Nat /\ DOMAIN s = 1 .. Len(s)
           /\ Len(Append(s, e)) = Len(s) + 1 /\ DOMAIN Append(s, e) = 1 .. Len(s) + 1
           /\ \A k \in 1 .. Len(s) : Append(s, e)[k] = s[k]
           /\ Append(s, e)[Len(s) + 1] = e
<1> DEFINE B == Range(s) \cup {e}
<1>1. s \in Seq(B) /\ e \in B
  BY SeqWidens DEF IsSeq
<1> HIDE DEF B
<1>2. Append(s, e) \in Seq(B)
  BY <1>1
<1>3. IsSeq(Append(s, e))
  BY <1>2, MakesSeq
<1> QED  BY <1>1, <1>3

LEMMA ConsIsSeq ==
    ASSUME NEW s, IsSeq(s), NEW e
    PROVE  /\ IsSeq(<<e>> \o s)
           /\ \A x : x \in Range(<<e>> \o s) <=> x = e \/ x \in Range(s)
<1> DEFINE B == Range(s) \cup {e}
<1>1. s \in Seq(B) /\ <<e>> \in Seq(B)
  BY SeqWidens DEF IsSeq
<1> HIDE DEF B
<1>2. <<e>> \o s \in Seq(B)
  BY <1>1
<1>3. IsSeq(<<e>> \o s)
  BY <1>2, MakesSeq
<1>4. /\ Len(s) \in Nat /\ DOMAIN s = 1 .. Len(s) /\ DOMAIN (<<e>> \o s) = 1 .. Len(s) + 1
      /\ (<<e>> \o s)[1] = e /\ \A k \in 1 .. Len(s) : (<<e>> \o s)[k + 1] = s[k]
  BY <1>1
<1>5. ASSUME NEW x \in Range(<<e>> \o s)  PROVE x = e \/ x \in Range(s)
  <2>1. PICK k \in 1 .. Len(s) + 1 : x = (<<e>> \o s)[k]
    BY <1>4 DEF Range
  <2>2. CASE k = 1
    BY <1>4, <2>1, <2>2
  <2>3. CASE k # 1
    <3>1. k - 1 \in 1 .. Len(s) /\ x = s[k - 1]
      BY <1>4, <2>1, <2>3
    <3> QED  BY <1>4, <3>1, RangeMember
  <2> QED  BY <2>2, <2>3
<1>6. ASSUME NEW x, x = e \/ x \in Range(s)  PROVE x \in Range(<<e>> \o s)
  <2>1. CASE x = e
    <3>1. 1 \in DOMAIN (<<e>> \o s)
      BY <1>4
    <3> QED  BY <1>4, <2>1, <3>1, RangeMember
  <2>2. CASE x \in Range(s)
    <3>1. PICK k \in 1 .. Len(s) : x = s[k]
      BY <1>4, <2>2 DEF Range
    <3>2. k + 1 \in DOMAIN (<<e>> \o s) /\ x = (<<e>> \o s)[k + 1]
      BY <1>4, <3>1
    <3> QED  BY <3>2, RangeMember
  <2> QED  BY <1>6, <2>1, <2>2
<1> QED  BY <1>3, <1>5, <1>6

-----------------------------------------------------------------------------
(* The push repository *)

Arrived == [kind : {"publish", "fetch", "other"}, name : Names,
            payload : {"base64", "raw"}, id : 1 .. arrivals]

RTypes ==
    /\ arrivals \in Nat /\ from_lower \in Seq(Arrived)
    /\ \/ handler = Idle
       \/ handler \in [next : {"store", "confirm"}, packet : Arrived]
    /\ DOMAIN db \subseteq Names /\ \A n \in DOMAIN db : db[n] \in 1 .. arrivals
    /\ confirmed \in [Names -> 0 .. arrivals]

(* Packets are handled in the order they have come in.                     *)
InTurn == \A i, j \in DOMAIN from_lower : i < j => from_lower[i].id < from_lower[j].id

(* What is stored is older than what waits, and than what is handled.      *)
StoredBefore ==
    \A n \in DOMAIN db :
        /\ \A k \in DOMAIN from_lower : db[n] < from_lower[k].id
        /\ handler.next = "store" => db[n] < handler.packet.id

HandledBefore ==
    handler # Idle => \A k \in DOMAIN from_lower : handler.packet.id < from_lower[k].id

(* What is about to be confirmed is stored.                                *)
StoredFirst ==
    handler.next = "confirm" => /\ Stored(handler.packet.name)
                                /\ db[handler.packet.name] = handler.packet.id

DurableInv == RTypes /\ InTurn /\ StoredBefore /\ HandledBefore /\ StoredFirst /\ Durable

LEMMA ArriveKeeps ==
    ASSUME PushRepositoryAssumption, DurableInv, NEW p \in Packets, Arrive(p)
    PROVE  DurableInv'
<1> DEFINE q == [p EXCEPT !.id = arrivals']
<1>1. /\ arrivals' = arrivals + 1 /\ from_lower' = Append(from_lower, q)
      /\ UNCHANGED <<db, handler, confirmed>>
  BY DEF Arrive
<1>2. arrivals \in Nat /\ from_lower \in Seq(Arrived)
  BY DEF DurableInv, RTypes
<1>3. q \in Arrived' /\ q.id = arrivals + 1
  BY <1>1, <1>2 DEF PushRepositoryAssumption, Arrived
<1>4. Arrived \subseteq Arrived'
  BY <1>1, <1>2 DEF Arrived
<1> HIDE DEF q
<1>5. from_lower' \in Seq(Arrived')
  <2>1. from_lower \in Seq(Arrived')
    BY <1>2, <1>4, SeqWidens
  <2> QED  BY <1>1, <1>3, <2>1, AppendProperties
<1>6. /\ Len(from_lower) \in Nat /\ DOMAIN from_lower = 1 .. Len(from_lower)
      /\ DOMAIN from_lower' = 1 .. Len(from_lower) + 1
      /\ \A k \in 1 .. Len(from_lower) : from_lower'[k] = from_lower[k]
      /\ from_lower'[Len(from_lower) + 1] = q
  BY <1>1, <1>2, MakesSeq, AppendIsSeq
<1>7. \A a \in Arrived : a.id \in Nat /\ a.id <= arrivals
  BY <1>2 DEF Arrived
<1>8. \A k \in DOMAIN from_lower : from_lower[k] \in Arrived
  BY <1>2
<1>9. RTypes'
  BY <1>1, <1>2, <1>4, <1>5 DEF DurableInv, RTypes, Idle
<1>10. InTurn'
  BY <1>2, <1>3, <1>6, <1>7, <1>8 DEF DurableInv, InTurn
<1>11. StoredBefore'
  BY <1>1, <1>2, <1>3, <1>6 DEF DurableInv, RTypes, StoredBefore
<1>12. HandledBefore'
  BY <1>1, <1>2, <1>3, <1>6, <1>7 DEF DurableInv, RTypes, HandledBefore
<1>13. StoredFirst' /\ Durable'
  BY <1>1 DEF DurableInv, StoredFirst, Durable, Stored
<1> QED  BY <1>9, <1>10, <1>11, <1>12, <1>13 DEF DurableInv

(* What is left when the first packet is taken.                            *)
LEMMA TakeFirst ==
    ASSUME DurableInv, from_lower # <<>>
    PROVE  /\ Head(from_lower) \in Arrived /\ Tail(from_lower) \in Seq(Arrived)
           /\ 1 \in DOMAIN from_lower /\ Head(from_lower) = from_lower[1]
           /\ \A k \in DOMAIN Tail(from_lower) :
                  k + 1 \in DOMAIN from_lower /\ Tail(from_lower)[k] = from_lower[k + 1] /\ k \in Nat \ {0}
<1>1. from_lower \in Seq(Arrived)
  BY DEF DurableInv, RTypes
<1> HIDE DEF Arrived
<1>2. /\ Len(from_lower) \in Nat \ {0} /\ DOMAIN from_lower = 1 .. Len(from_lower)
      /\ Tail(from_lower) \in Seq(Arrived) /\ Len(Tail(from_lower)) = Len(from_lower) - 1
      /\ \A k \in 1 .. Len(from_lower) - 1 : Tail(from_lower)[k] = from_lower[k + 1]
  BY <1>1
<1> QED  BY <1>1, <1>2

LEMMA LayerKeeps ==
    ASSUME DurableInv, Layer
    PROVE  DurableInv'
<1> DEFINE p == Head(from_lower)
<1>1. UNCHANGED arrivals /\ Arrived' = Arrived
  BY DEF Layer, Fetch, Refuse, Publish, StorePublished, Confirm, Arrived
(* A packet is taken, and nothing else happens to what is kept. *)
<1>2. ASSUME handler = Idle, from_lower # <<>>, from_lower' = Tail(from_lower),
             UNCHANGED <<db, confirmed>>,
             handler' = Idle \/ handler' = [next |-> "store", packet |-> p]
      PROVE  DurableInv'
  <2>1. /\ p \in Arrived /\ Tail(from_lower) \in Seq(Arrived)
        /\ 1 \in DOMAIN from_lower /\ p = from_lower[1]
        /\ \A k \in DOMAIN from_lower' :
               k + 1 \in DOMAIN from_lower /\ from_lower'[k] = from_lower[k + 1] /\ k \in Nat \ {0}
    BY <1>2, TakeFirst
  <2> HIDE DEF p
  <2>2. RTypes'
    BY <1>1, <1>2, <2>1 DEF DurableInv, RTypes
  <2>3. InTurn'
    BY <2>1 DEF DurableInv, InTurn
  <2>4. StoredBefore'
    BY <1>2, <2>1 DEF DurableInv, StoredBefore, Idle
  <2>5. HandledBefore'
    BY <1>2, <2>1 DEF DurableInv, InTurn, HandledBefore
  <2>6. StoredFirst' /\ Durable'
    BY <1>2 DEF DurableInv, StoredFirst, Idle, Durable, Stored
  <2> QED  BY <2>2, <2>3, <2>4, <2>5, <2>6 DEF DurableInv
<1>3. CASE Fetch \/ Refuse \/ Publish
  BY <1>2, <1>3 DEF Fetch, Refuse, Publish
<1>4. CASE StorePublished
  <2> DEFINE h == handler.packet
  <2>1. /\ handler \in [next : {"store", "confirm"}, packet : Arrived]
        /\ h \in Arrived /\ h.name \in Names /\ h.id \in 1 .. arrivals
    BY <1>4 DEF StorePublished, DurableInv, RTypes, Idle, Arrived
  <2>2. /\ handler.next = "store" /\ handler' = [handler EXCEPT !.next = "confirm"]
        /\ UNCHANGED <<from_lower, confirmed>>
        /\ db' = [m \in DOMAIN db \cup {h.name} |-> IF m = h.name THEN h.id ELSE db[m]]
    BY <1>4 DEF StorePublished, Store
  <2>3. handler' = [next |-> "confirm", packet |-> h]
    BY <2>1, <2>2
  <2>4. /\ DOMAIN db' = DOMAIN db \cup {h.name} /\ db'[h.name] = h.id
        /\ \A m \in DOMAIN db : m # h.name => db'[m] = db[m]
    BY <2>2
  <2>5. \A k \in DOMAIN from_lower : h.id < from_lower[k].id
    BY <2>1, <2>2 DEF DurableInv, HandledBefore, Idle
  <2>6. RTypes'
    BY <1>1, <2>1, <2>2, <2>3, <2>4 DEF DurableInv, RTypes
  <2>7. InTurn'
    BY <2>2 DEF DurableInv, InTurn
  <2>8. StoredBefore'
    BY <2>2, <2>3, <2>4, <2>5 DEF DurableInv, StoredBefore
  <2>9. HandledBefore' /\ StoredFirst'
    BY <2>2, <2>3, <2>4, <2>5 DEF HandledBefore, StoredFirst, Stored
  <2>10. Durable'
    <3> SUFFICES ASSUME NEW n \in Names, confirmed[n] > 0
                 PROVE  n \in DOMAIN db' /\ db'[n] >= confirmed[n]
      BY <2>2 DEF Durable, Stored
    <3>1. n \in DOMAIN db /\ db[n] >= confirmed[n] /\ db[n] < h.id
      BY <2>2 DEF DurableInv, Durable, Stored, StoredBefore
    <3>2. db[n] \in Nat /\ confirmed[n] \in Nat /\ h.id \in Nat
      BY <2>1, <3>1 DEF DurableInv, RTypes
    <3> QED  BY <2>4, <3>1, <3>2
  <2> QED  BY <2>6, <2>7, <2>8, <2>9, <2>10 DEF DurableInv
<1>5. CASE Confirm
  <2> DEFINE h == handler.packet
  <2>1. /\ h \in Arrived /\ h.name \in Names /\ h.id \in 1 .. arrivals /\ arrivals \in Nat
        /\ db[h.name] = h.id /\ h.name \in DOMAIN db
    BY <1>5 DEF Confirm, DurableInv, RTypes, Idle, Arrived, StoredFirst, Stored
  <2>2. /\ UNCHANGED <<from_lower, db>> /\ handler' = Idle
        /\ confirmed' = [confirmed EXCEPT ![h.name] = h.id]
    BY <1>5 DEF Confirm
  <2> HIDE DEF h
  <2>3. RTypes'
    BY <1>1, <2>1, <2>2 DEF DurableInv, RTypes
  <2>4. InTurn' /\ StoredBefore' /\ HandledBefore' /\ StoredFirst'
    BY <2>2 DEF DurableInv, InTurn, StoredBefore, HandledBefore, StoredFirst, Idle
  <2>5. Durable'
    <3>1. confirmed \in [Names -> 0 .. arrivals]
      BY DEF DurableInv, RTypes
    <3> QED  BY <2>1, <2>2, <3>1 DEF DurableInv, Durable, Stored
  <2> QED  BY <2>3, <2>4, <2>5 DEF DurableInv
<1> QED  BY <1>3, <1>4, <1>5 DEF Layer

LEMMA RestartKeeps ==
    ASSUME DurableInv, NEW flush_database \in BOOLEAN, Restart(flush_database)
    PROVE  DurableInv'
<1>1. /\ db' = (IF flush_database THEN <<>> ELSE db) /\ UNCHANGED arrivals
      /\ confirmed' = (IF flush_database THEN [n \in Names |-> 0] ELSE confirmed)
      /\ from_lower' = <<>> /\ handler' = Idle /\ Arrived' = Arrived
  BY DEF Restart, Arrived
<1>2. arrivals \in Nat /\ DOMAIN from_lower' = {}
  BY <1>1 DEF DurableInv, RTypes
<1>3. RTypes'
  <2>1. from_lower' \in Seq(Arrived')
    BY <1>1
  <2>2. DOMAIN db' \subseteq Names /\ \A n \in DOMAIN db' : db'[n] \in 1 .. arrivals
    BY <1>1 DEF DurableInv, RTypes
  <2>3. confirmed' \in [Names -> 0 .. arrivals]
    BY <1>1, <1>2 DEF DurableInv, RTypes
  <2> QED  BY <1>1, <1>2, <2>1, <2>2, <2>3 DEF RTypes
<1>4. InTurn' /\ StoredBefore' /\ HandledBefore' /\ StoredFirst'
  BY <1>1, <1>2 DEF InTurn, StoredBefore, HandledBefore, StoredFirst, Idle
<1>5. Durable'
  BY <1>1 DEF DurableInv, Durable, Stored
<1> QED  BY <1>3, <1>4, <1>5 DEF DurableInv

(* What a publisher has been told is stored is there, or something that    *)
(* was published later, however often the program is stopped in the middle *)
(* of a publication and started again (handle_interest_from_lower stores   *)
(* before it confirms, and handles packets in the order they come).        *)
THEOREM DurableCorrect == Spec => []Durable
<1>1. PushRepositoryAssumption
  BY PushRepositoryAssumption
<1>2. Init => DurableInv
  BY DEF Init, DurableInv, RTypes, InTurn, StoredBefore, HandledBefore, StoredFirst, Durable, Stored, Idle
<1>3. DurableInv /\ [Next]_vars => DurableInv'
  <2> SUFFICES ASSUME DurableInv, [Next]_vars PROVE DurableInv'
    OBVIOUS
  <2>1. CASE UNCHANGED rvars
    BY <2>1 DEF rvars, DurableInv, RTypes, InTurn, StoredBefore, HandledBefore, StoredFirst, Durable,
                Stored, Idle, Arrived
  <2> QED  BY <1>1, <2>1, ArriveKeeps, LayerKeeps, RestartKeeps DEF Next, vars
<1>4. DurableInv => Durable
  BY DEF DurableInv
<1> QED  BY <1>2, <1>3, <1>4, PTL DEF Spec

-----------------------------------------------------------------------------
(* Management *)

MTypes ==
    /\ \E s \in Scenes : program = s.program /\ script = s.script
    /\ DOMAIN layers = Range(program.layers)
    /\ DOMAIN replies = Clients /\ \A c \in Clients : IsSeq(replies[c])
    /\ IsSeq(faces) /\ IsSeq(fib)

(* A face id a client of a forwarder was told means the address it named.  *)
FacesMean ==
    program.icn => \A c \in Clients : \A k \in DOMAIN replies[c] :
        replies[c][k].ok /\ script[c][k].command = "newface"
        => /\ replies[c][k].fid + 1 \in DOMAIN faces
           /\ faces[replies[c][k].fid + 1] = script[c][k].address

(* Only a forwarder confirms rules.                                        *)
RulesConfirmed ==
    ~program.icn => \A c \in Clients : \A k \in DOMAIN replies[c] :
        replies[c][k].ok => script[c][k].command # "newforwardingrule"

MInv == MTypes /\ FacesMean /\ RulesConfirmed /\ RulesLead

(* Faces are added, and never taken.                                       *)
FacesGrow == IsSeq(faces') /\ \A k \in DOMAIN faces : k \in DOMAIN faces' /\ faces'[k] = faces[k]

LEMMA FacesAppended ==
    ASSUME MInv, faces' = faces \/ \E a : faces' = Append(faces, a)
    PROVE  FacesGrow
<1>1. IsSeq(faces)
  BY DEF MInv, MTypes
<1>2. ASSUME NEW a, faces' = Append(faces, a)  PROVE FacesGrow
  BY <1>1, <1>2, AppendIsSeq DEF FacesGrow
<1> QED  BY <1>1, <1>2 DEF FacesGrow

(* A step that tells no client anything.                                   *)
LEMMA UntoldKeeps ==
    ASSUME MInv, UNCHANGED <<program, script, replies, fib>>, DOMAIN layers' = DOMAIN layers, FacesGrow
    PROVE  MInv'
<1>1. MTypes'
  BY DEF MInv, MTypes, FacesGrow
<1>2. FacesMean' /\ RulesConfirmed'
  BY DEF MInv, FacesMean, RulesConfirmed, FacesGrow
<1>3. RulesLead'
  BY DEF MInv, RulesLead, FacesGrow
<1> QED  BY <1>1, <1>2, <1>3 DEF MInv

(* A step that tells a client what it has done: a confirmed face means the *)
(* address, a confirmed rule is in the table, with the face told last.     *)
LEMMA ToldKeeps ==
    ASSUME MInv, NEW c \in Clients, NEW reply, NEW r, r = Asked(c),
           UNCHANGED <<program, script>>, DOMAIN layers' = DOMAIN layers, FacesGrow,
           IsSeq(fib'), Range(fib) \subseteq Range(fib'),
           replies' = [replies EXCEPT ![c] = Append(@, reply)],
           reply.ok /\ program.icn /\ r.command = "newface" =>
               reply.fid + 1 \in DOMAIN faces' /\ faces'[reply.fid + 1] = r.address,
           reply.ok /\ r.command = "newforwardingrule" =>
               /\ program.icn
               /\ r.told => \E e \in Range(fib') :
                                e.name = r.name /\ replies[c][Len(replies[c])].fid \in e.faceid
    PROVE  MInv'
<1> DEFINE n == Len(replies[c])
<1>1. DOMAIN replies = Clients /\ IsSeq(replies[c]) /\ r = script[c][n + 1]
  BY DEF MInv, MTypes, Asked
<1>2. /\ replies'[c] = Append(replies[c], reply) /\ DOMAIN replies' = Clients
      /\ \A d \in Clients : d # c => replies'[d] = replies[d]
  BY <1>1
<1>3. /\ n \in Nat /\ IsSeq(replies'[c]) /\ DOMAIN replies[c] = 1 .. n /\ DOMAIN replies'[c] = 1 .. n + 1
      /\ \A k \in 1 .. n : replies'[c][k] = replies[c][k]
      /\ replies'[c][n + 1] = reply
  BY <1>1, <1>2, AppendIsSeq
<1> HIDE DEF n
<1>4. MTypes'
  BY <1>2, <1>3 DEF MInv, MTypes, FacesGrow
<1>5. ASSUME NEW d \in Clients, NEW k \in DOMAIN replies'[d], <<d, k>> # <<c, n + 1>>
      PROVE  k \in DOMAIN replies[d] /\ replies'[d][k] = replies[d][k]
  BY <1>2, <1>3, <1>5
<1>6. FacesMean'
  <2> SUFFICES ASSUME program.icn, NEW d \in Clients, NEW k \in DOMAIN replies'[d],
                      replies'[d][k].ok, script[d][k].command = "newface"
               PROVE  /\ replies'[d][k].fid + 1 \in DOMAIN faces'
                      /\ faces'[replies'[d][k].fid + 1] = script[d][k].address
    BY DEF FacesMean
  <2>1. CASE <<d, k>> = <<c, n + 1>>
    BY <1>1, <1>3, <2>1
  <2>2. CASE <<d, k>> # <<c, n + 1>>
    BY <1>5, <2>2 DEF MInv, FacesMean, FacesGrow
  <2> QED  BY <2>1, <2>2
<1>7. RulesConfirmed'
  <2> SUFFICES ASSUME ~program.icn, NEW d \in Clients, NEW k \in DOMAIN replies'[d], replies'[d][k].ok
               PROVE  script[d][k].command # "newforwardingrule"
    BY DEF RulesConfirmed
  <2>1. CASE <<d, k>> = <<c, n + 1>>
    BY <1>1, <1>3, <2>1
  <2>2. CASE <<d, k>> # <<c, n + 1>>
    BY <1>5, <2>2 DEF MInv, RulesConfirmed
  <2> QED  BY <2>1, <2>2
<1>8. RulesLead'
  <2> SUFFICES ASSUME NEW d \in Clients, NEW k \in DOMAIN replies'[d], k > 1,
                      replies'[d][k].ok, replies'[d][k - 1].ok, script[d][k - 1].command = "newface",
                      script[d][k].command = "newforwardingrule", script[d][k].told
               PROVE  \E e \in Range(fib') :
                          /\ e.name = script[d][k].name
                          /\ \E f \in e.faceid :
                                 f + 1 \in DOMAIN faces' /\ faces'[f + 1] = script[d][k - 1].address
    BY DEF RulesLead
  <2>1. CASE <<d, k>> = <<c, n + 1>>
    <3>1. k - 1 = n /\ n \in DOMAIN replies[c] /\ replies'[c][n] = replies[c][n]
      BY <1>3, <2>1
    <3>2. reply.ok /\ r.command = "newforwardingrule" /\ r.told /\ r.name = script[d][k].name
      BY <1>1, <1>3, <2>1
    <3>3. program.icn
      BY <3>2
    <3>4. PICK e \in Range(fib') : e.name = r.name /\ replies[c][n].fid \in e.faceid
      BY <3>2 DEF n
    <3>5. /\ replies[c][n].fid + 1 \in DOMAIN faces
          /\ faces[replies[c][n].fid + 1] = script[c][n].address
      BY <2>1, <3>1, <3>3 DEF MInv, FacesMean
    <3> QED  BY <2>1, <3>1, <3>2, <3>4, <3>5 DEF FacesGrow
  <2>2. CASE <<d, k>> # <<c, n + 1>>
    <3>1. k \in DOMAIN replies[d] /\ replies'[d][k] = replies[d][k]
      BY <1>5, <2>2
    <3>2. k - 1 \in DOMAIN replies'[d] /\ <<d, k - 1>> # <<c, n + 1>>
      <4>1. CASE d = c
        BY <1>3, <2>2, <4>1
      <4>2. CASE d # c
        <5>1. IsSeq(replies[d])
          BY DEF MInv, MTypes
        <5> QED  BY <1>2, <3>1, <4>2, <5>1, AppendIsSeq
      <4> QED  BY <4>1, <4>2
    <3>3. k - 1 \in DOMAIN replies[d] /\ replies'[d][k - 1] = replies[d][k - 1]
      BY <1>5, <3>2
    <3>4. PICK e \in Range(fib) :
              /\ e.name = script[d][k].name
              /\ \E f \in e.faceid : f + 1 \in DOMAIN faces /\ faces[f + 1] = script[d][k - 1].address
      BY <3>1, <3>3 DEF MInv, RulesLead
    <3> QED  BY <3>4 DEF FacesGrow
  <2> QED  BY <2>1, <2>2
<1> QED  BY <1>4, <1>6, <1>7, <1>8 DEF MInv

(* get_or_create_faceid: the id it gives leads to the address.             *)
LEMMA FaceLeads ==
    ASSUME IsSeq(faces), NEW a
    PROVE  FaceOf(a) + 1 \in DOMAIN WithFace(a) /\ WithFace(a)[FaceOf(a) + 1] = a
<1>1. CASE a \in Range(faces)
  <2> DEFINE first == CHOOSE j \in DOMAIN faces : faces[j] = a
  <2>1. \E k \in DOMAIN faces : faces[k] = a
    BY <1>1 DEF Range
  <2>2. first \in DOMAIN faces /\ faces[first] = a
    BY <2>1
  <2>3. DOMAIN faces = 1 .. Len(faces) /\ Len(faces) \in Nat
    BY AppendIsSeq
  <2>4. FaceOf(a) = first - 1 /\ WithFace(a) = faces
    BY <1>1 DEF FaceOf, WithFace
  <2> HIDE DEF first
  <2>5. FaceOf(a) + 1 = first
    BY <2>2, <2>3, <2>4
  <2> QED  BY <2>2, <2>4, <2>5
<1>2. CASE a \notin Range(faces)
  <2>1. FaceOf(a) = Len(faces) /\ WithFace(a) = Append(faces, a)
    BY <1>2 DEF FaceOf, WithFace
  <2>2. /\ Len(faces) \in Nat /\ DOMAIN Append(faces, a) = 1 .. Len(faces) + 1
        /\ Append(faces, a)[Len(faces) + 1] = a
    BY AppendIsSeq
  <2> QED  BY <2>1, <2>2
<1> QED  BY <1>1, <1>2

(* add_fib_entry: there is an entry for the rule, and no other has gone.   *)
LEMMA RuleIsThere ==
    ASSUME IsSeq(fib), NEW n, NEW ids
    PROVE  /\ IsSeq(AddFib(fib, n, ids, TRUE)) /\ Range(fib) \subseteq Range(AddFib(fib, n, ids, TRUE))
           /\ \E e \in Range(AddFib(fib, n, ids, TRUE)) : e.name = n /\ e.faceid = ids
<1> DEFINE e == [name |-> n, faceid |-> ids, static |-> TRUE]
<1>1. e.name = n /\ e.faceid = ids
  OBVIOUS
<1>2. AddFib(fib, n, ids, TRUE) = IF \E k \in DOMAIN fib : RouteOf(fib[k]) = RouteOf(e)
                                  THEN fib ELSE <<e>> \o fib
  BY DEF AddFib
<1> HIDE DEF e
<1>3. CASE \E k \in DOMAIN fib : RouteOf(fib[k]) = RouteOf(e)
  <2>1. PICK k \in DOMAIN fib : RouteOf(fib[k]) = RouteOf(e)
    BY <1>3
  <2>2. fib[k].name = n /\ fib[k].faceid = ids
    BY <1>1, <2>1 DEF RouteOf
  <2> QED  BY <1>2, <1>3, <2>2, RangeMember
<1>4. CASE ~\E k \in DOMAIN fib : RouteOf(fib[k]) = RouteOf(e)
  BY <1>1, <1>2, <1>4, ConsIsSeq
<1> QED  BY <1>3, <1>4

LEMMA HandleKeeps ==
    ASSUME MInv, NEW s \in 1 .. Servers, Handle(s)
    PROVE  MInv'
<1>1. PICK c \in Clients : LET r == Asked(c) IN
          /\ mgmt[s] = c /\ client[c] \in {"sent", "left"} /\ r.command # "shutdown"
          /\ \/ /\ Fails(c, r) /\ Close(c, [ok |-> FALSE])
                /\ mgmt' = [mgmt EXCEPT ![s] = "ended"] /\ UNCHANGED tables
             \/ /\ ~Fails(c, r) /\ Execute(c, r) /\ Close(c, Answer(c, r))
                /\ mgmt' = [mgmt EXCEPT ![s] = "polling"]
          /\ UNCHANGED <<program, layers, script, backlog>>
  BY DEF Handle
<1> DEFINE r == Asked(c)
<1>2. IsSeq(faces) /\ IsSeq(fib) /\ UNCHANGED <<program, layers, script>>
  BY <1>1 DEF MInv, MTypes
<1>3. CASE Fails(c, r) /\ Close(c, [ok |-> FALSE]) /\ UNCHANGED tables
  <2>1. UNCHANGED <<fib, faces>> /\ replies' = [replies EXCEPT ![c] = Append(@, [ok |-> FALSE])]
    BY <1>3 DEF tables, Close
  <2>2. FacesGrow
    BY <2>1, FacesAppended
  <2> HIDE DEF r
  <2> DEFINE reply == [ok |-> FALSE]
  <2>3. ~reply.ok
    OBVIOUS
  <2> HIDE DEF reply
  <2> QED  BY <1>2, <2>1, <2>2, <2>3, ToldKeeps DEF r, reply
<1>4. CASE ~Fails(c, r) /\ Execute(c, r) /\ Close(c, Answer(c, r))
  <2> DEFINE reply == Answer(c, r)
  <2>1. replies' = [replies EXCEPT ![c] = Append(@, reply)]
    BY <1>4 DEF Close
  <2>2. faces' = IF r.command = "newface" /\ r.if_num < Interfaces THEN WithFace(r.address) ELSE faces
    BY <1>4 DEF Execute
  <2>3. fib' = IF r.command = "newforwardingrule" /\ program.icn
               THEN AddFib(fib, r.name, RuleFaces(c, r), TRUE) ELSE fib
    BY <1>4 DEF Execute
  <2> HIDE DEF r
  <2>4. FacesGrow
    BY <2>2, FacesAppended DEF WithFace
  <2>5. IsSeq(fib') /\ Range(fib) \subseteq Range(fib')
    BY <1>2, <2>3, RuleIsThere
  <2>6. ASSUME reply.ok, r.command = "newface"
        PROVE  reply.fid + 1 \in DOMAIN faces' /\ faces'[reply.fid + 1] = r.address
    <3>1. reply = ll_mgmt(r)
      BY <2>6 DEF Answer
    <3>2. r.if_num < Interfaces /\ reply.fid = FaceOf(r.address)
      BY <2>6, <3>1 DEF ll_mgmt
    <3>3. faces' = WithFace(r.address)
      BY <2>2, <2>6, <3>2
    <3> QED  BY <1>2, <3>2, <3>3, FaceLeads
  <2>7. ASSUME reply.ok, r.command = "newforwardingrule"
        PROVE  /\ program.icn
               /\ r.told => \E e \in Range(fib') :
                                e.name = r.name /\ replies[c][Len(replies[c])].fid \in e.faceid
    <3>1. reply = [ok |-> program.icn]
      BY <2>7 DEF Answer
    <3>2. program.icn
      BY <2>7, <3>1
    <3>3. PICK e \in Range(fib') : e.name = r.name /\ e.faceid = RuleFaces(c, r)
      BY <1>2, <2>3, <2>7, <3>2, RuleIsThere
    <3>4. r.told => replies[c][Len(replies[c])].fid \in RuleFaces(c, r)
      BY DEF RuleFaces
    <3> QED  BY <3>2, <3>3, <3>4
  <2> HIDE DEF reply
  <2> QED  BY <1>2, <2>1, <2>4, <2>5, <2>6, <2>7, ToldKeeps DEF r
<1> QED  BY <1>1, <1>3, <1>4

LEMMA HandleShutdownKeeps ==
    ASSUME MInv, NEW s \in 1 .. Servers, HandleShutdown(s)
    PROVE  MInv'
<1>1. PICK c \in Clients :
          /\ Asked(c).command = "shutdown" /\ Close(c, [ok |-> TRUE])
          /\ UNCHANGED <<program, layers, script, tables>>
  BY DEF HandleShutdown
<1> DEFINE r == Asked(c)  reply == [ok |-> TRUE]
<1>2. /\ UNCHANGED <<program, layers, script, fib, faces>>
      /\ replies' = [replies EXCEPT ![c] = Append(@, reply)]
  BY <1>1 DEF tables, Close
<1>3. FacesGrow /\ IsSeq(fib')
  BY <1>2, FacesAppended DEF MInv, MTypes
<1>4. r.command \notin {"newface", "newforwardingrule"}
  BY <1>1
<1> HIDE DEF r, reply
<1> QED  BY <1>2, <1>3, <1>4, ToldKeeps DEF r

LEMMA RestartKeepsRules ==
    ASSUME ManagementAssumption, MInv, NEW flush_database \in BOOLEAN, Restart(flush_database)
    PROVE  MInv'
<1>1. /\ "repolayer" \in DOMAIN layers /\ layers' = Started(program) /\ faces' = <<>>
      /\ UNCHANGED <<program, script, fib>>
      /\ replies' = [c \in Clients |-> IF client[c] = "out" THEN replies[c]
                                       ELSE Append(replies[c], [ok |-> FALSE])]
  BY DEF Restart
<1>2. ~program.icn
  BY <1>1 DEF ManagementAssumption, MInv, MTypes
<1>3. MTypes'
  <2>1. DOMAIN layers' = Range(program'.layers)
    BY <1>1 DEF Started
  <2>2. DOMAIN replies' = Clients
    BY <1>1
  <2>3. \A c \in Clients : IsSeq(replies'[c])
    BY <1>1, AppendIsSeq DEF MInv, MTypes
  <2>4. IsSeq(faces')
    BY <1>1, EmptyIsSeq
  <2> QED  BY <1>1, <2>1, <2>2, <2>3, <2>4 DEF MInv, MTypes
(* Who was waiting is refused, and all else was said before. *)
<1>4. ASSUME NEW c \in Clients, NEW k \in DOMAIN replies'[c], replies'[c][k].ok
      PROVE  k \in DOMAIN replies[c] /\ replies'[c][k] = replies[c][k]
  <2>1. CASE client[c] = "out"
    BY <1>1, <2>1
  <2>2. CASE client[c] # "out"
    <3>1. IsSeq(replies[c]) /\ replies'[c] = Append(replies[c], [ok |-> FALSE])
      BY <1>1, <2>2 DEF MInv, MTypes
    <3>2. k \in 1 .. Len(replies[c])
      <4>1. /\ k \in 1 .. Len(replies[c]) + 1 /\ Len(replies[c]) \in Nat
            /\ replies'[c][Len(replies[c]) + 1] = [ok |-> FALSE]
        BY <3>1, AppendIsSeq
      <4>2. ~replies'[c][Len(replies[c]) + 1].ok
        BY <4>1
      <4>3. k # Len(replies[c]) + 1
        BY <1>4, <4>2
      <4> QED  BY <4>1, <4>3
    <3> QED  BY <3>1, <3>2, AppendIsSeq
  <2> QED  BY <2>1, <2>2
<1>5. FacesMean' /\ RulesConfirmed'
  BY <1>1, <1>2, <1>4 DEF FacesMean, RulesConfirmed, MInv
<1>6. RulesLead'
  <2>1. ASSUME NEW c \in Clients, NEW k \in DOMAIN replies'[c], replies'[c][k].ok
        PROVE  script'[c][k].command # "newforwardingrule"
    BY <1>1, <1>2, <1>4, <2>1 DEF RulesConfirmed, MInv
  <2> QED  BY <2>1 DEF RulesLead
<1> QED  BY <1>3, <1>5, <1>6 DEF MInv

LEMMA ManagementStep ==
    ASSUME MInv, MNext
    PROVE  MInv'
<1>1. ASSUME UNCHANGED <<program, script, replies, fib, faces>>, DOMAIN layers' = DOMAIN layers
      PROVE  MInv'
  BY <1>1, UntoldKeeps, FacesAppended
<1>2. ASSUME NEW c \in Clients, Connect(c) \/ Send(c)  PROVE MInv'
  BY <1>1, <1>2 DEF Connect, Send, server, tables
<1>3. ASSUME NEW s \in 1 .. Servers, Accept(s) \/ StopLayer(s) \/ StopManagement(s) \/ StartAgain(s)
      PROVE  MInv'
  <2>1. UNCHANGED <<program, script, replies, fib, faces>>
    BY <1>3 DEF Accept, StopLayer, StopManagement, StartAgain, clients, tables
  <2>2. DOMAIN layers' = DOMAIN layers
    BY <1>3 DEF Accept, StopLayer, StopManagement, StartAgain
  <2> QED  BY <1>1, <2>1, <2>2
<1>4. ASSUME NEW a \in Addresses, NewPeer(a)  PROVE MInv'
  <2>1. UNCHANGED <<program, script, replies, fib, layers>> /\ faces' = Append(faces, a)
    BY <1>4 DEF NewPeer, clients, server
  <2> QED  BY <2>1, UntoldKeeps, FacesAppended
<1> QED  BY <1>2, <1>3, <1>4, HandleKeeps, HandleShutdownKeeps DEF MNext, Serve

(* A rule that a client has made with the face id it was told leads to the *)
(* address the client named, whatever other clients and the link layer     *)
(* have added in between, whoever leaves, and whatever fails               *)
(* (Mgmt.ll_mgmt and newforwardingrule are two connections).               *)
THEOREM RulesLeadCorrect == Spec => []RulesLead
<1>1. ManagementAssumption
  BY ManagementAssumption
<1>2. Init => MInv
  <2> SUFFICES ASSUME Init PROVE MInv
    OBVIOUS
  <2>1. IsSeq(<<>>)
    BY EmptyIsSeq
  <2>2. MTypes
    BY <2>1 DEF Init, MInit, MTypes, Started
  <2>3. \A c \in Clients : DOMAIN replies[c] = {}
    BY DEF Init, MInit
  <2>4. FacesMean /\ RulesConfirmed /\ RulesLead
    BY <2>3 DEF FacesMean, RulesConfirmed, RulesLead
  <2> QED  BY <2>2, <2>4 DEF MInv
<1>3. MInv /\ [Next]_vars => MInv'
  <2> SUFFICES ASSUME MInv, [Next]_vars PROVE MInv'
    OBVIOUS
  <2>1. CASE UNCHANGED mvars
    <3>1. UNCHANGED <<program, script, replies, fib, faces, layers>>
      BY <2>1 DEF mvars, server, clients, tables
    <3> QED  BY <3>1, UntoldKeeps, FacesAppended
  <2>2. ASSUME NEW p \in Packets, Arrive(p)  PROVE MInv'
    BY <2>1, <2>2 DEF Arrive
  <2>3. CASE Layer
    BY <2>1, <2>3 DEF Layer, Fetch, Refuse, Publish, StorePublished, Confirm
  <2> QED  BY <1>1, <2>1, <2>2, <2>3, ManagementStep, RestartKeepsRules DEF Next, vars
<1>4. MInv => RulesLead
  BY DEF MInv
<1> QED  BY <1>2, <1>3, <1>4, PTL DEF Spec
================================================================================

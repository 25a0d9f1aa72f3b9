------------------------------ MODULE LinkStack ------------------------------
(***************************************************************************)
(* The lower layers of a node on a simulation bus: the link layer with its *)
(* face table, the packet encoding layer, layers of the program that pass  *)
(* packets on, and on top the ICN layer, of which only the shape of its    *)
(* answers is kept.  Peers post packets; the bus carries them to the node  *)
(* and the node's own packets to the peers.                                *)
(***************************************************************************)
EXTENDS FaceTable, Encoders, LayerStack

CONSTANTS
    Node,     \* the address of the node on the bus
    Nowhere,  \* an address no interface of the bus has
    Scenes    \* the encoder of all nodes, and the packets each peer posts

ASSUME LinkStackAssumption ==
    /\ {"icn", "encoding", "link"} \subseteq Layers
    /\ Node \notin Addresses /\ Nowhere \notin Addresses \cup {Node}
    /\ \A s \in Scenes :
          /\ s.encoder \in {"ndn", "string"} /\ DOMAIN s.posts = Addresses
          /\ \A a \in Addresses : s.posts[a] \in Seq(ToSet(s.posts[a]))

VARIABLES
    encoder,   \* the encoder every node has been given
    to_bus,    \* queue_from_linklayer of each interface
    from_bus,  \* queue_from_bus of each interface
    bus,       \* whether the process of the bus runs
    packet,    \* the datagram the link layer is handling, or None
    arrived,   \* history: <<address, meaning>> of what the bus gave the node
    handed,    \* history: <<face, packet>> the ICN layer has received
    wanted     \* history: <<face, meaning>> of what the ICN layer has sent

network == <<to_bus, from_bus, bus>>
told == <<arrived, handed, wanted>>
linkVars == <<vars, stack, queues, encoder, network, packet, told>>

Interfaces == Addresses \cup {Node}

(* A datagram is <<receiver, wire format, meaning>>; the meaning is a      *)
(* history, kept of what the peers post.                                   *)
Unmeant == << >>

-----------------------------------------------------------------------------
(* The peers and the simulation bus *)

(* What a peer posts is on its interface before the bus looks at it.       *)
Posted(enc, posts) ==
    [i \in DOMAIN posts |->
        <<posts[i][1], Encoded(enc, posts[i][2]), Meaning(posts[i][2])>>]

Carry(from, to, wire, meaning) ==
    /\ from_bus' = [from_bus EXCEPT ![to] = Append(@, <<from, wire>>)]
    /\ arrived' = IF to = Node THEN Append(arrived, <<from, meaning>>) ELSE arrived
    /\ UNCHANGED bus

(* packet_loss: the first packet that is lost ends the process of the bus. *)
LosePacket == bus' = "ended" /\ UNCHANGED <<from_bus, arrived>>

Dispatch(from) ==
    /\ bus = "running" /\ to_bus[from] # << >>
    /\ to_bus' = [to_bus EXCEPT ![from] = Tail(@)]
    /\ LET to == Head(to_bus[from])[1]
           wire == Head(to_bus[from])[2]
           meaning == Head(to_bus[from])[3]
       IN  IF to \in Interfaces THEN Carry(from, to, wire, meaning) \/ LosePacket
           ELSE UNCHANGED <<from_bus, bus, arrived>>
    /\ UNCHANGED <<vars, stack, queues, encoder, packet, handed, wanted>>

-----------------------------------------------------------------------------
(* The link layer: nothing else is handled until a call has returned.      *)

Waiting(p) == started /\ pc[p] = "idle" /\ packet = None

(* data_from_lower: the call of the face table, then the put.              *)
LinkReceive(p) ==
    /\ Waiting(p) /\ from_bus[Node] # << >>
    /\ Call(p, Head(from_bus[Node])[1])
    /\ packet' = Head(from_bus[Node])[2]
    /\ from_bus' = [from_bus EXCEPT ![Node] = Tail(@)]
    /\ UNCHANGED <<stack, queues, encoder, to_bus, bus, told>>

TableStep(p) ==
    \/ RemoveOldest(p) \/ FindOldest(p) \/ DelFace(p) \/ DelAddr(p) \/ DelId(p)
    \/ LoadCounter(p) \/ StoreCounter(p) \/ AddArgument(p) \/ TestAbsent(p)
    \/ PutFace(p) \/ PutAddr(p) \/ PutId(p)

LinkLooksUp(p) ==
    /\ \/ Lookup(p) /\ pc'[p] = "evict"
       \/ TableStep(p)
    /\ UNCHANGED <<stack, queues, encoder, network, packet, told>>

LinkHandsUp(p) ==
    /\ \/ /\ Lookup(p) /\ pc'[p] = "idle"
          /\ queues' = Put("link", "to_higher", <<addrinfo_to_faceid[addr[p]], packet>>)
       \/ /\ Return(p)
          /\ queues' = Put("link", "to_higher", <<next_face_id, packet>>)
    /\ packet' = None
    /\ UNCHANGED <<stack, encoder, network, told>>

(* Mutant of AddressInfo: the answer goes to whoever was heard last. *)
AddressInfoLast(p, face) == addr[p]

AddressInfo(p, face) == faceid_to_addrinfo[face]

(* data_from_higher: a face that is not in the table any more leads nowhere. *)
LinkSend(p) ==
    /\ Waiting(p) /\ HasData("link", "from_higher")
    /\ LET face == Data("link", "from_higher")[1]
           wire == Data("link", "from_higher")[2]
           address == AddressInfo(p, face)
       IN  to_bus' = IF address = None THEN to_bus
                     ELSE [to_bus EXCEPT ![Node] = Append(@, <<address, wire, Unmeant>>)]
    /\ queues' = Take("link", "from_higher")
    /\ UNCHANGED <<vars, stack, encoder, from_bus, bus, packet, told>>

LinkLayer == \E p \in Callers :
    LinkReceive(p) \/ LinkLooksUp(p) \/ LinkHandsUp(p) \/ LinkSend(p)

-----------------------------------------------------------------------------
(* BasicPacketEncodingLayer *)

EncodingLayer ==
    /\ \/ /\ HasData("encoding", "from_lower")
          /\ LET data == Data("encoding", "from_lower") IN
             queues' = TakeAndPut("encoding", "from_lower", "to_higher",
                                  <<data[1], Decoded(encoder, data[2])>>)
       \/ /\ HasData("encoding", "from_higher")
          /\ LET data == Data("encoding", "from_higher") IN
             queues' = TakeAndPut("encoding", "from_higher", "to_lower",
                                  <<data[1], Encoded(encoder, data[2])>>)
    /\ UNCHANGED <<vars, stack, encoder, network, packet, told>>

(* The autoconfig and routing layers, with packets that are not theirs.    *)
(* A packet without a name is the last the autoconfig layer takes.         *)
Readable(l) == l = "autoconfig" => Data(l, "from_lower")[2].type # "unknown"

Passing(l) ==
    /\ (PassUp(l) /\ Readable(l)) \/ PassDown(l)
    /\ UNCHANGED <<vars, encoder, network, packet, told>>

(* The ICN layer answers an interest with a content or a Nack, or sends    *)
(* what it has received to a face; a packet it does not know it drops.     *)
Answers(face, p) ==
    LET faces == {h[1] : h \in ToSet(handed)} IN
    CASE p.type = "interest" ->
            {<<face, Nack(p.name, 150, p)>>, <<face, Content(p.name, <<58>>)>>}
               \cup {<<f, p>> : f \in faces \ {face}}
      [] p.type \in {"content", "nack"} -> {<<f, p>> : f \in faces \ {face}}
      [] OTHER -> {}

ICNLayer ==
    /\ HasData("icn", "from_lower")
    /\ LET data == Data("icn", "from_lower") IN
       /\ handed' = Append(handed, data)
       /\ \/ /\ Answers(data[1], data[2]) = {}
             /\ queues' = Take("icn", "from_lower")
             /\ UNCHANGED wanted
          \/ \E a \in Answers(data[1], data[2]) :
                /\ queues' = TakeAndPut("icn", "from_lower", "to_lower", a)
                /\ wanted' = Append(wanted, <<a[1], Meaning(a[2])>>)
    /\ UNCHANGED <<vars, stack, encoder, network, packet, arrived>>

-----------------------------------------------------------------------------
(* ICNForwarder, ICNDataRepository and Fetch insert below the top layer or *)
(* above the encoding layer, then start.                                   *)
Passers == Layers \ {"icn", "encoding", "link"}

Build ==
    /\ \E l \in Passers \ ToSet(layers) :
          InsertBelow(l, "icn") \/ InsertOnTopOf(l, "encoding")
    /\ UNCHANGED <<vars, encoder, network, packet, told>>

StartAll == Start /\ UNCHANGED <<vars, encoder, network, packet, told>>

LinkInit ==
    /\ Init
    /\ StackInit(<<"icn", "encoding", "link">>)
    /\ \E s \in Scenes :
          /\ encoder = s.encoder
          /\ to_bus = [i \in Interfaces |->
                          IF i = Node THEN << >> ELSE Posted(s.encoder, s.posts[i])]
    /\ from_bus = [i \in Interfaces |-> << >>]
    /\ bus = "running"
    /\ packet = None
    /\ arrived = << >> /\ handed = << >> /\ wanted = << >>

LinkNext ==
    \/ Build \/ StartAll
    \/ \E i \in Interfaces : Dispatch(i)
    \/ LinkLayer \/ EncodingLayer \/ ICNLayer
    \/ \E l \in Passers : Passing(l)

LinkSpec == LinkInit /\ [][LinkNext]_linkVars

-----------------------------------------------------------------------------
(* Properties *)

(* The packets that come through the encoder of their scene: those posted  *)
(* for the node, and those the ICN layer may send when it has got them.    *)
ForNode(s) == UNION {{post[2] : post \in {d \in ToSet(s.posts[a]) : d[1] = Node}} : a \in Addresses}
Legible(enc, p) == Meaning(Decoded(enc, Encoded(enc, p))) = Meaning(p)

Sendable(p) ==
    CASE p.type = "interest" -> {p, Nack(p.name, 150, p), Content(p.name, <<58>>)}
      [] p.type \in {"content", "nack"} -> {p}
      [] OTHER -> {}

PostsLegible == \A s \in Scenes : \A p \in ForNode(s) : Legible(s.encoder, p)
AnswersLegible ==
    \A s \in Scenes : \A p \in ForNode(s) :
        \A r \in Sendable(Decoded(s.encoder, Encoded(s.encoder, p))) : Legible(s.encoder, r)

(* The packets that NdnTlvEncoder keeps.  decode looks for the interest of *)
(* a Nack behind thirteen bytes: that is where it is if a reason is given  *)
(* and every length takes one byte, the largest being that of the interest *)
(* and of eleven bytes in front of it.  Every interest may be answered     *)
(* with a Nack.  The lengths of other packets have up to four bytes.       *)
Byte == 0 .. 255

FitsTlv(p) ==
    /\ p.type \in {"interest", "content", "nack"} /\ p.name \in Seq(Seq(Byte))
    /\ p.type = "interest" => p = Interest(p.name) /\ Len(InterestTlv(p.name)) <= 241
    /\ p.type = "content" =>
          /\ p = Content(p.name, p.payload) /\ p.payload \in Seq(Byte)
          /\ Len(DataTlv(p.name, p.payload)) <= 2147483647
    /\ p.type = "nack" =>
          /\ p = Nack(p.name, p.reason, p.interest) /\ p.reason \in NackReason \ {NoReason}
          /\ p.interest \in {Interest(p.name), Received(Interest(p.name), InterestTlv(p.name))}
          /\ Len(InterestTlv(p.name)) <= 241

PostsFit ==
    \A s \in Scenes : \A p \in ForNode(s) :
        IF s.encoder = "ndn" THEN FitsTlv(p)
        ELSE \A r \in {p} \cup Sendable(Decoded(s.encoder, Encoded(s.encoder, p))) :
                Legible(s.encoder, r)

(* What the bus gives the node reaches the ICN layer once, in the order it *)
(* came, with the meaning its sender gave it and on a face that was given  *)
(* for its sender, whatever layers are inserted and whatever the lengths.  *)
HandedUpRight ==
    \A i \in DOMAIN handed :
        /\ i \in DOMAIN arrived
        /\ <<arrived[i][1], handed[i][1]>> \in given
        /\ Meaning(handed[i][2]) = arrived[i][2]

(* Every datagram a peer gets from the node decodes to something the ICN   *)
(* layer has sent to a face of this very peer, evictions in between or     *)
(* not, and each is delivered at most once.                                *)
Carried(datagram) == Meaning(Decoded(encoder, datagram[2]))
FromNode(a) == {i \in DOMAIN from_bus[a] : from_bus[a][i][1] = Node}

PeersServedRight ==
    \A a \in Addresses :
        \A m \in {Carried(from_bus[a][i]) : i \in FromNode(a)} :
            Cardinality({i \in FromNode(a) : Carried(from_bus[a][i]) = m})
               <= Cardinality({i \in DOMAIN wanted : /\ wanted[i][2] = m
                                                     /\ <<a, wanted[i][1]>> \in given})

(* Whenever the processes of the node have nothing to do, nothing is left  *)
(* on the way: all that came is with the ICN layer, and no item lies in a  *)
(* queue that no layer reads, wherever layers have been inserted.          *)
Idle(l) == ~HasData(l, "from_lower") /\ ~HasData(l, "from_higher")

Settled ==
    /\ started /\ \A l \in Layers : Idle(l)
    /\ from_bus[Node] = << >> /\ \A p \in Callers : Waiting(p)

NothingLeft ==
    Settled =>
        /\ \A q \in DOMAIN queues : queues[q] = << >>
        /\ Len(handed) = Len(arrived)
=============================================================================

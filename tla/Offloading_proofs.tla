--------------------------- MODULE Offloading_proofs ---------------------------
(***************************************************************************)
(* Proofs about Offloading and CaOffloading, for every amount of data,     *)
(* every distance the interests travel and whatever the other nodes have.  *)
(***************************************************************************)
EXTENDS CaOffloading, TLAPS

(* A request has an entry in _cl_table too, with the neighbours that have  *)
(* refused.                                                                *)
Entered == request_entry # None => "nack" \in DOMAIN cl_entry

(* While anything is asked of the vehicle for a request that is not        *)
(* answered, both neighbours have refused.                                 *)
AskedLast ==
    (\E i \in pit : i.to = "source") /\ request_entry # None => cl_entry.nack = Sides

(* Nothing has been sent before the only request.                          *)
NotYet == asks \in {0, 1} /\ (asks = 1 => request_entry = None /\ pit = {})

(* The inductive invariant, for a single request. *)
IInv == scene \in Scenes /\ Entered /\ AskedLast /\ NotYet

(* A step that sends the vehicle nothing, unless something was sent to it  *)
(* before, and leaves the neighbours that have refused in the entry.       *)
LEMMA SourceUntouched ==
    ASSUME IInv, UNCHANGED <<scene, asks>>, asks = 0,
           (\E i \in pit' : i.to = "source") => \E i \in pit : i.to = "source",
           request_entry' # None => request_entry # None,
           request_entry # None => /\ "nack" \in DOMAIN cl_entry'
                                   /\ cl_entry.nack = Sides => cl_entry'.nack = Sides
    PROVE  IInv'
  BY DEF IInv, Entered, AskedLast, NotYet

(* Before the request nothing is pending, so no answer is taken.           *)
LEMMA PendingAsked == ASSUME IInv, NEW i \in pit PROVE asks = 0
  BY DEF IInv, NotYet

LEMMA AskKeeps == ASSUME IInv, Ask PROVE IInv'
<1> DEFINE asked == {s \in scene.routes : Interest(s, Data) \notin pit}
<1>1. /\ asks = 1 /\ request_entry = None /\ pit = {} /\ asks' = 0
      /\ UNCHANGED scene /\ scene.routes \subseteq Sides
  BY OffloadingAssumption DEF Ask, IInv, NotYet
<1>2. cl_entry' = [nack |-> Sides \ asked, interest |-> Data,
                   interest_requested |-> FALSE, recipient |-> None]
  BY <1>1 DEF Ask
<1>3. ASSUME \E i \in pit' : i.to = "source"
      PROVE  asked = {}
  <2>1. CASE cl_sent'
    <3>1. pit' = {Interest(s, Data) : s \in asked}
      BY <2>1, <1>1 DEF Ask, Send
    <3>2. \A s \in asked : Interest(s, Data).to = s /\ s # "source"
      BY <1>1 DEF Interest, Sides
    <3> QED  BY <3>1, <3>2, <1>3
  <2>2. CASE ~cl_sent'
    BY <2>2, <1>1 DEF Ask
  <2> QED  BY <2>1, <2>2
<1> HIDE DEF asked
<1> QED  BY <1>1, <1>2, <1>3 DEF IInv, Entered, AskedLast, NotYet

LEMMA MetadataKeeps ==
    ASSUME IInv, NEW p \in answers, UNCHANGED <<scene, asks>>, p.interest \in pit,
           Considered(p), MetadataArrives(p)
    PROVE  IInv'
<1>1. asks = 0 /\ request_entry # None /\ "nack" \in DOMAIN cl_entry
  BY PendingAsked DEF Considered, Requests, IInv, Entered
<1>2. "nack" \in DOMAIN cl_entry' /\ cl_entry'.nack = cl_entry.nack
  BY <1>1 DEF MetadataArrives
<1>3. \A i \in pit' : i \in pit \/ i.to = p.interest.to
  <2>1. \A n : Origin(p, n).to = p.interest.to
    BY DEF Origin, Interest
  <2> DEFINE k == p.interest.name.num
             blocked == p.interest.to \in Sides /\ cl_entry.nack = Sides
             left == {c \in ListedIn(k) : ~BagIn(c, request_entry.chunks)}
             wanted == IF blocked /\ left # {} THEN {Min(left)} ELSE left
  <2>2. Send({p.interest}, IF blocked THEN {}
             ELSE {Origin(p, Chunk(c)) : c \in wanted}
                  \cup {Origin(p, Metadata(j)) : j \in NextOf(k)})
    BY DEF MetadataArrives
  <2> HIDE DEF k, blocked, wanted
  <2> QED  BY <2>1, <2>2 DEF Send
<1> QED  BY <1>1, <1>2, <1>3, SourceUntouched

LEMMA ChunkKeeps ==
    ASSUME IInv, NEW p \in answers, UNCHANGED <<scene, asks>>, p.interest \in pit,
           Considered(p), ChunkArrives(p) \/ WholeArrives(p)
    PROVE  IInv'
<1>1. asks = 0 /\ request_entry # None /\ "nack" \in DOMAIN cl_entry
  BY PendingAsked DEF Considered, Requests, IInv, Entered
<1>2. "nack" \in DOMAIN cl_entry' /\ cl_entry'.nack = cl_entry.nack
  BY <1>1 DEF ChunkArrives, WholeArrives, SetRecipient
<1>3. pit' \subseteq pit
  BY DEF ChunkArrives, WholeArrives, Send
<1> QED  BY <1>1, <1>2, <1>3, SourceUntouched

LEMMA ContentKeeps ==
    ASSUME IInv, NEW p \in answers, ContentArrives(p)
    PROVE  IInv'
<1>1. UNCHANGED <<scene, asks>> /\ p.interest \in pit
  BY DEF ContentArrives, Arriving
<1>2. CASE Considered(p)
  BY <1>1, <1>2, MetadataKeeps, ChunkKeeps DEF ContentArrives
<1>3. CASE ~Considered(p)
  <2>1. pit' \subseteq pit /\ UNCHANGED <<request_entry, cl_entry>>
    BY <1>3 DEF ContentArrives, Send
  <2> QED  BY <1>1, <2>1, PendingAsked, SourceUntouched DEF IInv, Entered
<1> QED  BY <1>2, <1>3

(* The vehicle is asked when the last neighbour has refused.               *)
LEMMA RefusalKeeps ==
    ASSUME IInv, NEW p \in answers, NackArrives(p)
    PROVE  IInv'
<1>1. /\ UNCHANGED <<scene, asks, request_entry>> /\ asks = 0
  BY PendingAsked DEF NackArrives, Arriving
<1>2. CASE UNCHANGED cl_entry /\ pit' \subseteq pit
  BY <1>1, <1>2, SourceUntouched DEF IInv, Entered
<1>3. CASE NeighbourRefuses(p) /\ Requests(p.interest.name)
  <2> DEFINE nack == cl_entry.nack \cup {p.interest.to}
             last == nack = Sides /\ ~cl_entry.interest_requested
  <2>1. "nack" \in DOMAIN cl_entry /\ p.interest.to \in Sides
    BY <1>3 DEF NeighbourRefuses, Requests, IInv, Entered
  <2>2. "nack" \in DOMAIN cl_entry' /\ cl_entry'.nack = nack
    BY <1>3, <2>1 DEF NeighbourRefuses
  <2>3. CASE last
    BY <1>1, <2>2, <2>3 DEF IInv, Entered, AskedLast, NotYet
  <2>4. CASE ~last
    <3>1. pit' \subseteq pit
      BY <1>3, <2>4 DEF NeighbourRefuses, Send
    <3>2. cl_entry.nack = Sides => nack = Sides
      BY <2>1
    <3> QED  BY <1>1, <2>2, <3>1, <3>2, SourceUntouched
  <2> QED  BY <2>3, <2>4
<1>4. CASE NeighbourRefuses(p) /\ ~Requests(p.interest.name)
  BY <1>4, <1>2 DEF NeighbourRefuses, Send
<1>5. CASE SourceRefuses(p)
  BY <1>5, <1>2 DEF SourceRefuses, Send
<1> QED  BY <1>3, <1>4, <1>5 DEF NackArrives

LEMMA StepKeeps == ASSUME IInv, [Next]_vars PROVE IInv'
<1>1. ASSUME UNCHANGED <<scene, request_entry, cl_entry, pit, asks>>  PROVE IInv'
  BY <1>1 DEF IInv, Entered, AskedLast, NotYet
<1>2. CASE \E i \in interests : NeighbourInterest(i) \/ SourceInterest(i)
  BY <1>2, <1>1 DEF NeighbourInterest, NeighbourHandles, SourceInterest
<1>3. CASE \E p \in answers : NeighbourAnswer(p) \/ Unexpected(p)
  BY <1>3, <1>1 DEF NeighbourAnswer, Unexpected
<1>4. CASE \E p \in answers : ContentArrives(p) \/ NackArrives(p)
  BY <1>4, ContentKeeps, RefusalKeeps
<1>5. CASE UNCHANGED vars
  BY <1>5, <1>1 DEF vars
<1> QED  BY <1>2, <1>3, <1>4, <1>5, AskKeeps DEF Next, Network

(* The vehicle is the last resort of a single request: as long as it is    *)
(* not answered, nothing is asked of the vehicle before both neighbours    *)
(* have refused (data_from_higher, data_from_lower), whatever the other    *)
(* nodes have and in whatever order they answer.                           *)
THEOREM LastResortCorrect ==
    ASSUME \A s \in Scenes : s.asks = 1
    PROVE  Spec => []LastResort
<1>1. Init => IInv
  BY DEF Init, IInv, Entered, AskedLast, NotYet
<1>2. IInv /\ [Next]_vars => IInv'
  BY StepKeeps
<1>3. IInv => LastResort
  BY DEF IInv, AskedLast, LastResort
<1> QED  BY <1>1, <1>2, <1>3, PTL DEF Spec

-----------------------------------------------------------------------------
(* The layer with CA messages: the entry in _ca_table, and that no chunk   *)
(* is asked of the vehicle, and none can be, before both neighbours have   *)
(* answered.                                                               *)
CaFields == {"answered", "received_all", "completely_available"}
ChunkAsked == \E i \in pit : i.to = "source" /\ i.name.kind = "c"
CaEntered ==
    request_entry # None =>
        /\ CaFields \subseteq DOMAIN ca_entry
        /\ ChunkAsked \/ ca_entry.received_all => ca_entry.answered = Sides

CaInv == scene \in Scenes /\ CaEntered /\ NotYet

(* What is pending before a step, and what a step adds.                    *)
LEMMA CaPendingAsked == ASSUME CaInv, NEW i \in pit PROVE asks = 0
  BY DEF CaInv, NotYet

LEMMA SendAdds ==
    ASSUME NEW done, NEW new, Send(done, new), ChunkAsked',
           \A i \in new : i.to # "source" \/ i.name.kind # "c"
    PROVE  ChunkAsked
  BY DEF Send, ChunkAsked

(* A step after which no chunk is asked of the vehicle that was not asked  *)
(* before, and that leaves what neighbours have answered.                  *)
LEMMA CaUntouched ==
    ASSUME CaInv, UNCHANGED <<scene, asks>>, asks = 0, ChunkAsked' => ChunkAsked,
           request_entry' # None => request_entry # None /\ UNCHANGED ca_entry
    PROVE  CaInv'
<1>1. request_entry' # None =>
          /\ CaFields \subseteq DOMAIN ca_entry'
          /\ ChunkAsked' \/ ca_entry'.received_all => ca_entry'.answered = Sides
  BY DEF CaInv, CaEntered
<1> QED  BY <1>1 DEF CaInv, CaEntered, NotYet, CaFields, Sides

(* A step after which both neighbours have answered.                       *)
LEMMA CaAnswered ==
    ASSUME CaInv, UNCHANGED <<scene, asks>>, asks = 0,
           request_entry' # None => CaFields \subseteq DOMAIN ca_entry' /\ ca_entry'.answered = Sides
    PROVE  CaInv'
  BY DEF CaInv, CaEntered, NotYet, CaFields, Sides

LEMMA CaAskKeeps == ASSUME CaInv, CaAsk PROVE CaInv'
<1> DEFINE unasked(name) == {s \in scene.routes : Interest(s, name) \notin pit}
           new == {Interest(s, Available) : s \in unasked(Available)}
                  \cup {Interest(s, Data) : s \in unasked(Data)}
                  \cup {Interest("source", Data)}
<1>1. asks = 1 /\ request_entry = None /\ pit = {} /\ asks' = 0 /\ UNCHANGED scene
  BY DEF CaAsk, CaInv, NotYet
<1>2. ca_entry' = [NewCaEntry EXCEPT !.answered = Sides \ unasked(Available)]
  BY <1>1 DEF CaAsk
<1>3. CaFields \subseteq DOMAIN ca_entry' /\ ~ca_entry'.received_all
  BY <1>2 DEF NewCaEntry, CaFields
<1>4. Send({}, new)
  BY <1>1 DEF CaAsk
<1>5. \A i \in new : i.to # "source" \/ i.name.kind # "c"
  <2>1. \A to, name : Interest(to, name).name = name
    BY DEF Interest
  <2>2. Available.kind # "c" /\ Data.kind # "c"
    BY DEF Available, Data, Metadata
  <2> HIDE DEF unasked
  <2> QED  BY <2>1, <2>2
<1> HIDE DEF new
<1>6. ~ChunkAsked'
  BY <1>1, <1>4, <1>5, SendAdds DEF ChunkAsked
<1> QED  BY <1>1, <1>3, <1>6 DEF CaInv, CaEntered, NotYet, CaFields, Sides

LEMMA OfferTakenKeeps ==
    ASSUME CaInv, UNCHANGED <<scene, asks>>, asks = 0, NEW done, NEW ca, OfferTaken(done, ca),
           request_entry # None => CaFields \subseteq DOMAIN ca /\ ca.answered = Sides
    PROVE  CaInv'
<1>1. request_entry' # None => request_entry # None
  BY DEF OfferTaken
<1>2. \/ ca_entry' = ca
      \/ ca_entry' = [ca EXCEPT !.received_all = TRUE, !.completely_available = TRUE]
      \/ ca_entry' = [ca EXCEPT !.received_all = TRUE, !.chunks = ca.ca.chunks]
  BY DEF OfferTaken
<1>3. request_entry' # None => CaFields \subseteq DOMAIN ca_entry' /\ ca_entry'.answered = Sides
  BY <1>1, <1>2 DEF CaFields
<1> QED  BY <1>3, CaAnswered

LEMMA OfferKeeps ==
    ASSUME CaInv, NEW p \in answers, UNCHANGED <<scene, asks>>, p.interest \in pit,
           OfferArrives(p)
    PROVE  CaInv'
<1> DEFINE ca == [ca_entry EXCEPT !.recipient = p.interest.to, !.ca = Longest(@, p.offer),
                                  !.answered = @ \cup {p.interest.to}]
<1>1. asks = 0
  BY CaPendingAsked
<1>2. request_entry # None =>
          /\ CaFields \subseteq DOMAIN ca /\ ca.answered = ca_entry.answered \cup {p.interest.to}
          /\ ca.received_all = ca_entry.received_all
  BY DEF CaInv, CaEntered, CaFields
<1>3. p.interest.to \in Sides
  BY DEF OfferArrives
<1> HIDE DEF ca
<1>4. CASE ca.answered = Sides /\ OfferTaken({p.interest}, ca)
  BY <1>1, <1>2, <1>4, OfferTakenKeeps
<1>5. CASE ca.answered # Sides /\ ca_entry' = ca /\ Send({p.interest}, {}) /\ UNCHANGED request_entry
  <2>1. ChunkAsked' => ChunkAsked
    BY <1>5, SendAdds
  <2>2. request_entry # None => ~ChunkAsked /\ ~ca_entry.received_all
    BY <1>2, <1>3, <1>5 DEF CaInv, CaEntered
  <2> QED  BY <1>1, <1>2, <1>5, <2>1, <2>2 DEF CaInv, CaEntered, NotYet, CaFields, Sides
<1> QED  BY <1>4, <1>5 DEF OfferArrives, ca

LEMMA CaMetadataKeeps ==
    ASSUME CaInv, NEW p \in answers, UNCHANGED <<scene, asks>>, p.interest \in pit,
           request_entry # None, CaMetadataArrives(p)
    PROVE  CaInv'
<1> DEFINE k == p.interest.name.num
           entry == [request_entry EXCEPT !.chunked = TRUE,
                         !.requested_md = (@ \ {k}) \cup NextOf(k),
                         !.requested_chunks = @ \cup (ListedIn(k) \ request_entry.chunks),
                         !.md_complete = NextOf(k) = {}]
           next == {Interest(IF p.interest.to \in Sides THEN recipient_cl' ELSE "source", Metadata(j))
                    : j \in NextOf(k) \ (request_entry.requested_md \ {k})}
           ready == entry.md_complete /\ ca_entry.received_all /\ ~pass_through
<1>1. asks = 0 /\ UNCHANGED ca_entry
  BY CaPendingAsked DEF CaMetadataArrives
<1>2. \A i \in next : i.name.kind # "c"
  BY DEF Interest, Metadata
<1>3. CASE request_entry.md_complete /\ Send({p.interest}, {})
  BY <1>1, <1>3, SendAdds, CaUntouched
<1>4. CASE Send({p.interest}, next \cup IF ready THEN ChunkInterests(entry, ca_entry) ELSE {})
  <2>1. CASE ready
    BY <1>1, <2>1, CaAnswered DEF CaInv, CaEntered
  <2>2. CASE ~ready
    <3> HIDE DEF next, ready
    <3>1. Send({p.interest}, next)
      BY <1>4, <2>2
    <3> QED  BY <1>1, <1>2, <3>1, SendAdds, CaUntouched
  <2> QED  BY <2>1, <2>2
<1> QED  BY <1>3, <1>4 DEF CaMetadataArrives

LEMMA CaDataKeeps ==
    ASSUME CaInv, NEW p \in answers, UNCHANGED <<scene, asks>>, p.interest \in pit,
           DataArrives(p)
    PROVE  CaInv'
<1>1. asks = 0
  BY CaPendingAsked
<1>2. CASE Awaits(p.interest.name) /\ CaMetadataArrives(p)
  BY <1>2, CaMetadataKeeps DEF Awaits
<1>3. CASE Awaits(p.interest.name) /\ (CaChunkArrives(p) \/ CaWholeArrives(p))
  <2>1. request_entry # None /\ Send({p.interest}, {})
    BY <1>3 DEF Awaits, CaChunkArrives, CaWholeArrives
  <2>2. request_entry' # None => UNCHANGED ca_entry
    BY <1>3 DEF CaChunkArrives, CaWholeArrives
  <2> QED  BY <1>1, <2>1, <2>2, SendAdds, CaUntouched
<1>4. CASE ~Awaits(p.interest.name)
  BY <1>1, <1>4, SendAdds, CaUntouched DEF DataArrives
<1> QED  BY <1>2, <1>3, <1>4 DEF DataArrives

(* The vehicle is asked for chunks, too, when the last answer is a refusal. *)
LEMMA CaNackKeeps ==
    ASSUME CaInv, NEW p \in answers, CaNackArrives(p)
    PROVE  CaInv'
<1> DEFINE ca == [ca_entry EXCEPT !.answered = @ \cup {p.interest.to}]
           ready == request_entry # None /\ request_entry.requested_md = {} /\ ~pass_through
<1>1. UNCHANGED <<scene, asks>> /\ asks = 0
  BY CaPendingAsked DEF CaNackArrives, Arriving
<1>2. request_entry # None =>
          /\ CaFields \subseteq DOMAIN ca /\ ca.answered = ca_entry.answered \cup {p.interest.to}
          /\ ca.received_all = ca_entry.received_all
  BY DEF CaInv, CaEntered, CaFields
<1>3. CASE DataRefused(p)
  BY <1>1, <1>3, SendAdds, CaUntouched DEF DataRefused
<1>4. CASE OfferRefused(p)
  <2>1. p.interest.to \in Sides
    BY <1>4 DEF OfferRefused
  <2>2. CASE ca.answered # Sides /\ ca_entry' = ca /\ Send({p.interest}, {}) /\ UNCHANGED request_entry
    <3>1. ChunkAsked' => ChunkAsked
      BY <2>2, SendAdds
    <3> HIDE DEF ca
    <3>2. request_entry # None => ~ChunkAsked /\ ~ca_entry.received_all
      BY <1>2, <2>1, <2>2 DEF CaInv, CaEntered
    <3> QED  BY <1>1, <1>2, <2>2, <3>1, <3>2 DEF CaInv, CaEntered, NotYet, CaFields, Sides
  <2>3. CASE ca.answered = Sides /\ OfferTaken({}, ca)
    <3> HIDE DEF ca
    <3> QED  BY <1>1, <1>2, <2>3, OfferTakenKeeps
  <2>4. CASE ca.answered = Sides /\ ca_entry' = [ca EXCEPT !.received_all = TRUE] /\ UNCHANGED request_entry
    <3> HIDE DEF ca
    <3>1. request_entry # None => CaFields \subseteq DOMAIN ca_entry' /\ ca_entry'.answered = Sides
      BY <1>2, <2>4 DEF CaFields
    <3> QED  BY <1>1, <2>4, <3>1, CaAnswered
  <2> QED  BY <1>4, <2>2, <2>3, <2>4 DEF OfferRefused
<1> QED  BY <1>3, <1>4 DEF CaNackArrives

-----------------------------------------------------------------------------
EitherInv ==
    layer \in {"simple", "ca"} /\ (layer = "simple" => IInv) /\ (layer = "ca" => CaInv)

LEMMA EitherKeeps == ASSUME EitherInv, [CaNext]_caVars PROVE EitherInv'
<1>1. UNCHANGED layer
  BY DEF CaNext, CaAsk, CaNetwork, PassOn, NeighbourCaInterest, CaContentArrives, CaNackArrives, caVars
<1>2. ASSUME UNCHANGED <<scene, request_entry, ca_entry, pit, asks>>, CaInv  PROVE CaInv'
  BY <1>2 DEF CaInv, CaEntered, NotYet, ChunkAsked, CaFields, Sides
<1>3. CASE layer = "simple"
  <2>1. [Next]_vars
    BY <1>3 DEF CaNext, PassOn, caVars
  <2> QED  BY <1>1, <1>3, <2>1, StepKeeps DEF EitherInv
<1>4. CASE layer = "ca"
  <2>1. CaInv
    BY <1>4 DEF EitherInv
  <2>2. CASE CaAsk
    BY <1>1, <1>4, <2>1, <2>2, CaAskKeeps DEF EitherInv
  <2>3. CASE \E i \in interests :
                NeighbourCaInterest(i) \/ (SourceInterest(i) /\ UNCHANGED <<layer, caLayer>>)
    <3>1. UNCHANGED <<scene, request_entry, ca_entry, pit, asks>>
      BY <2>3 DEF NeighbourCaInterest, NeighbourHandles, SourceInterest, caLayer
    <3> QED  BY <1>1, <1>2, <1>4, <2>1, <3>1 DEF EitherInv
  <2>4. ASSUME NEW p \in answers,
               (NeighbourAnswer(p) \/ Unexpected(p)) /\ UNCHANGED <<layer, caLayer>>
        PROVE  EitherInv'
    <3>1. UNCHANGED <<scene, request_entry, ca_entry, pit, asks>>
      BY <2>4 DEF NeighbourAnswer, Unexpected, caLayer
    <3> QED  BY <1>1, <1>2, <1>4, <2>1, <3>1 DEF EitherInv
  <2>5. ASSUME NEW p \in answers, CaContentArrives(p)  PROVE EitherInv'
    <3>1. UNCHANGED <<scene, asks>> /\ p.interest \in pit
      BY <2>5 DEF CaContentArrives, Arriving
    <3> QED  BY <1>1, <1>4, <2>1, <2>5, <3>1, OfferKeeps, CaDataKeeps DEF CaContentArrives, EitherInv
  <2>6. ASSUME NEW p \in answers, CaNackArrives(p)  PROVE EitherInv'
    BY <1>1, <1>4, <2>1, <2>6, CaNackKeeps DEF EitherInv
  <2>7. CASE PassOn \/ UNCHANGED caVars
    <3>1. UNCHANGED <<scene, request_entry, ca_entry, pit, asks>>
      BY <2>7 DEF PassOn, caVars, caLayer, vars
    <3> QED  BY <1>1, <1>2, <1>4, <2>1, <3>1 DEF EitherInv
  <2> QED  BY <1>4, <2>2, <2>3, <2>4, <2>5, <2>6, <2>7 DEF CaNext, CaNetwork
<1> QED  BY <1>3, <1>4 DEF EitherInv

(* The same for a forwarder with either chunk layer: before both           *)
(* neighbours have answered a single request, the layer with CA messages   *)
(* (data_from_higher, handle_ca, create_chunk_interests) asks the vehicle  *)
(* for no chunk, whatever arrives in whatever order.                       *)
THEOREM VehicleLastCorrect ==
    ASSUME \A s \in Scenes : s.asks = 1
    PROVE  CaSpec => []VehicleLast
<1>1. CaInit => EitherInv
  BY DEF CaInit, Init, EitherInv, IInv, Entered, AskedLast, NotYet, CaInv, CaEntered
<1>2. EitherInv /\ [CaNext]_caVars => EitherInv'
  BY EitherKeeps
<1>3. EitherInv => VehicleLast
  BY DEF EitherInv, IInv, AskedLast, CaInv, CaEntered, ChunkAsked, VehicleLast
<1> QED  BY <1>1, <1>2, <1>3, PTL DEF CaSpec

-----------------------------------------------------------------------------
(* Nothing is missing                                                      *)

(* A third request can find that neither neighbour has answered the last   *)
(* one, which is over; it takes both for neighbours that have refused      *)
(* (data_from_higher).  Of a metadata packet that then comes from one of   *)
(* them, one chunk is requested, and taken for all (MCThrice).             *)
AskedTwice == \A s \in Scenes : s.asks \in 0 .. 2

MayCome(md, c) == \E k \in md : k * PerMetadata <= c

(* Each chunk has been received, or is requested, or is listed in metadata *)
(* that is requested or in what follows on that.                           *)
Accounted(requested, chunks, md) ==
    \A c \in 0 .. scene.size - 1 : c \in requested \/ c \in chunks \/ MayCome(md, c)

(* The entry of a request, before and after its first metadata.            *)
SimpleEntry ==
    request_entry # None =>
        /\ DOMAIN request_entry = {"requested_chunks", "chunks", "requested_md"}
        /\ IsABag(request_entry.requested_chunks) /\ IsABag(request_entry.chunks)
        /\ request_entry.requested_md \subseteq Nat
        /\ \/ BagToSet(request_entry.requested_chunks) = {} /\ request_entry.requested_md = {}
           \/ Accounted(BagToSet(request_entry.requested_chunks), BagToSet(request_entry.chunks),
                        request_entry.requested_md)

ClEntry ==
    request_entry # None => {"nack", "interest_requested", "recipient", "interest"} \subseteq DOMAIN cl_entry

(* Metadata of a neighbour is followed: if both have refused, neighbours   *)
(* have nothing left to answer, or are not considered any more.            *)
Followed ==
    request_entry # None /\ cl_entry.nack = Sides /\ ~cl_entry.interest_requested =>
        \A i \in pit : i.to \notin Sides

(* As long as no neighbour has answered the first request, nobody else has *)
(* been asked, and it is not over.                                         *)
AskedOf == {Interest(s, Data) : s \in scene.routes}
FirstWaits ==
    asks + 1 = scene.asks /\ scene.routes # {} /\ AskedOf \subseteq pit =>
        request_entry # None /\ pit \subseteq AskedOf

Asks ==
    /\ scene \in Scenes /\ asks \in 0 .. scene.asks
    /\ asks = scene.asks => request_entry = None /\ pit = {}
    /\ \A i \in pit : i.to \in scene.routes \cup {"source"}

SimpleInv ==
    /\ Asks /\ ClEntry /\ SimpleEntry /\ Followed /\ FirstWaits
    /\ "type" \in DOMAIN told /\ NothingMissing

-----------------------------------------------------------------------------
(* Bags *)

LEMMA SetsAreBags ==
    ASSUME NEW A
    PROVE  IsABag(SetToBag(A)) /\ BagToSet(SetToBag(A)) = A /\ \A x : BagIn(x, SetToBag(A)) <=> x \in A
<1>1. DOMAIN SetToBag(A) = A
  BY DEF SetToBag
<1>2. SetToBag(A) = [e \in A |-> 1]
  BY DEF SetToBag
<1>3. IsABag(SetToBag(A))
  BY <1>2 DEF IsABag
<1> QED  BY <1>1, <1>3 DEF BagToSet, BagIn

LEMMA NothingInEmptyBag == IsABag(EmptyBag) /\ BagToSet(EmptyBag) = {}
<1>1. EmptyBag = SetToBag({})
  BY DEF EmptyBag
<1> QED  BY <1>1, SetsAreBags

LEMMA BagsAdded ==
    ASSUME NEW A, NEW B, IsABag(A), IsABag(B)
    PROVE  IsABag(A (+) B) /\ BagToSet(A (+) B) = BagToSet(A) \cup BagToSet(B)
<1>1. DOMAIN (A (+) B) = DOMAIN A \cup DOMAIN B
  BY DEF (+)
<1>2. A \in [DOMAIN A -> {n \in Nat : n > 0}] /\ B \in [DOMAIN B -> {n \in Nat : n > 0}]
  BY DEF IsABag
<1>3. A (+) B = [e \in DOMAIN A \cup DOMAIN B |->
                    (IF e \in DOMAIN A THEN A[e] ELSE 0) + (IF e \in DOMAIN B THEN B[e] ELSE 0)]
  BY DEF (+)
<1>4. \A e \in DOMAIN A \cup DOMAIN B :
         (IF e \in DOMAIN A THEN A[e] ELSE 0) + (IF e \in DOMAIN B THEN B[e] ELSE 0)
            \in {n \in Nat : n > 0}
  BY <1>2
<1>5. IsABag(A (+) B)
  BY <1>1, <1>3, <1>4 DEF IsABag
<1> QED  BY <1>1, <1>5 DEF BagToSet

(* Of a bag from which one is taken, all others are left.                  *)
LEMMA OneTaken ==
    ASSUME NEW A, NEW x, IsABag(A)
    PROVE  /\ IsABag(A (-) SetToBag({x}))
           /\ BagToSet(A) \ {x} \subseteq BagToSet(A (-) SetToBag({x}))
<1> DEFINE B == [e \in DOMAIN A |-> IF e \in DOMAIN SetToBag({x})
                                    THEN A[e] - SetToBag({x})[e] ELSE A[e]]
           left == {d \in DOMAIN B : B[d] > 0}
<1>1. A (-) SetToBag({x}) = [e \in left |-> B[e]]
  BY DEF (-)
<1>2. DOMAIN SetToBag({x}) = {x} /\ SetToBag({x})[x] = 1
  BY DEF SetToBag
<1>3. \A e \in DOMAIN A : A[e] \in Nat /\ A[e] > 0
  BY DEF IsABag
<1>4. DOMAIN B = DOMAIN A /\ \A e \in DOMAIN A : B[e] = IF e = x THEN A[e] - 1 ELSE A[e]
  BY <1>2
<1> HIDE DEF B
<1>5. left \subseteq DOMAIN A /\ DOMAIN A \ {x} \subseteq left
  BY <1>3, <1>4
<1>6. \A e \in left : B[e] \in {n \in Nat : n > 0}
  BY <1>3, <1>4
<1> HIDE DEF left
<1>7. IsABag([e \in left |-> B[e]]) /\ DOMAIN [e \in left |-> B[e]] = left
  BY <1>6 DEF IsABag
<1> QED  BY <1>1, <1>5, <1>7 DEF BagToSet

-----------------------------------------------------------------------------
(* The layer without CA messages                                           *)

LEMMA ScenesAre ==
    ASSUME Asks
    PROVE  scene.routes \subseteq Sides /\ scene.size \in Nat /\ "source" \notin Sides
  BY OffloadingAssumption DEF Asks, Sides

(* A packet is answered, and what is asked then is asked of the same node  *)
(* or of the vehicle, and not for the first metadata.                      *)
LEMMA AnswerTaken ==
    ASSUME SimpleInv, UNCHANGED <<scene, asks>>, NEW i \in pit, NEW new, Send({i}, new),
           \A n \in new : n.to \in {i.to, "source"} /\ n \notin AskedOf
    PROVE  Asks' /\ FirstWaits'
<1>1. pit' = (pit \ {i}) \cup new
  BY DEF Send
<1>2. Asks'
  BY <1>1 DEF Asks, SimpleInv
<1>3. AskedOf' = AskedOf
  BY DEF AskedOf
<1> HIDE DEF AskedOf
<1>4. AskedOf \subseteq pit' => AskedOf \subseteq pit \ {i}
  BY <1>1
<1>5. FirstWaits'
  BY <1>3, <1>4 DEF FirstWaits, SimpleInv
<1> QED  BY <1>2, <1>5

LEMMA NextListed ==
    ASSUME scene.size \in Nat, NEW k \in Nat, NEW c \in 0 .. scene.size - 1, k * PerMetadata <= c
    PROVE  c \in ListedIn(k) \/ MayCome(NextOf(k), c)
<1>1. k * PerMetadata \in Int /\ (k + 1) * PerMetadata \in Int
  BY OffloadingAssumption
<1>2. CASE c < (k + 1) * PerMetadata
  BY <1>1, <1>2 DEF ListedIn
<1>3. CASE (k + 1) * PerMetadata <= c
  <2>1. (k + 1) * PerMetadata < scene.size
    BY <1>1, <1>3
  <2>2. k + 1 \in NextOf(k)
    BY <2>1 DEF NextOf
  <2> QED  BY <1>3, <2>2 DEF MayCome
<1> QED  BY <1>1, <1>2, <1>3

(* Metadata that has been received accounts for the chunks that it lists   *)
(* and those to come.                                                      *)
LEMMA MetadataAccounts ==
    ASSUME scene.size \in Nat, NEW requested, NEW chunks, NEW md, NEW k \in Nat,
           Accounted(requested, chunks, md) \/ k = 0
    PROVE  Accounted(requested \cup (ListedIn(k) \ chunks), chunks, (md \ {k}) \cup NextOf(k))
<1> SUFFICES ASSUME NEW c \in 0 .. scene.size - 1, c \notin requested, c \notin chunks,
                    c \notin ListedIn(k)
             PROVE  MayCome((md \ {k}) \cup NextOf(k), c)
  BY DEF Accounted
<1>1. CASE k * PerMetadata <= c
  BY <1>1, NextListed DEF MayCome
<1>2. CASE ~(k * PerMetadata <= c)
  <2>1. k # 0
    BY <1>2, OffloadingAssumption
  <2>2. PICK j \in md : j * PerMetadata <= c
    BY <2>1 DEF Accounted, MayCome
  <2> QED  BY <1>2, <2>2 DEF MayCome
<1> QED  BY <1>1, <1>2

(* What a request knows of metadata it has asked for.                      *)
LEMMA RequestedMetadata ==
    ASSUME SimpleInv, NEW name, Requests(name), name.kind = "m"
    PROVE  /\ request_entry # None /\ name.num \in Nat
           /\ \/ name.num = 0
              \/ Accounted(BagToSet(request_entry.requested_chunks), BagToSet(request_entry.chunks),
                           request_entry.requested_md)
<1>1. CASE name = Data
  BY <1>1 DEF Requests, Data, Metadata
<1>2. CASE name.num \in request_entry.requested_md
  <2>1. request_entry # None
    BY DEF Requests
  <2> QED  BY <1>2, <2>1 DEF SimpleInv, SimpleEntry
<1> QED  BY <1>1, <1>2 DEF Requests

LEMMA MetadataFollowed ==
    ASSUME SimpleInv, NEW p \in answers, UNCHANGED <<scene, asks>>, p.interest \in pit,
           Considered(p), MetadataArrives(p)
    PROVE  SimpleInv'
<1> PICK k : k = p.interest.name.num
  OBVIOUS
<1> DEFINE requested == BagToSet(request_entry.requested_chunks)
           chunks == BagToSet(request_entry.chunks)
           left == {c \in ListedIn(k) : ~BagIn(c, request_entry.chunks)}
           md == (request_entry.requested_md \ {k}) \cup NextOf(k)
           new == {Origin(p, Chunk(c)) : c \in left} \cup {Origin(p, Metadata(j)) : j \in NextOf(k)}
<1>1. /\ p.interest.name.kind = "m" /\ request_entry # None /\ k \in Nat
      /\ k = 0 \/ Accounted(requested, chunks, request_entry.requested_md)
  <2>1. p.interest.name.kind = "m" /\ Requests(p.interest.name)
    BY DEF MetadataArrives, Considered
  <2> QED  BY <2>1, RequestedMetadata
<1>2. ~(p.interest.to \in Sides /\ cl_entry.nack = Sides)
  BY <1>1 DEF SimpleInv, Followed, Considered
<1>3. request_entry' = [request_entry EXCEPT !.requested_md = md,
                            !.requested_chunks = @ (+) SetToBag(left)]
  BY <1>2 DEF MetadataArrives
<1>4. Send({p.interest}, new)
  BY <1>2 DEF MetadataArrives
<1>5. UNCHANGED told
  BY DEF MetadataArrives
<1>6. \A n \in new : n.to = p.interest.to /\ n \notin AskedOf
  <2>1. \A name : Origin(p, name).to = p.interest.to /\ Origin(p, name).name = name
    BY DEF Origin, Interest
  <2>2. \A i \in AskedOf : i.name.kind = "m" /\ i.name.num = 0
    BY DEF AskedOf, Interest, Data, Metadata
  <2>3. \A j \in NextOf(k) : Metadata(j).num # 0
    BY <1>1 DEF NextOf, Metadata
  <2>4. \A c : Chunk(c).kind = "c"
    BY DEF Chunk
  <2> HIDE DEF left
  <2> QED  BY <2>1, <2>2, <2>3, <2>4
<1> HIDE DEF new
<1>7. Asks' /\ FirstWaits'
  BY <1>4, <1>6, AnswerTaken
<1>8. SimpleEntry'
  <2>1. /\ DOMAIN request_entry = {"requested_chunks", "chunks", "requested_md"}
        /\ IsABag(request_entry.requested_chunks) /\ IsABag(request_entry.chunks)
        /\ request_entry.requested_md \subseteq Nat
    BY <1>1 DEF SimpleInv, SimpleEntry
  <2>2. /\ DOMAIN request_entry' = DOMAIN request_entry
        /\ request_entry'.requested_md = md /\ request_entry'.chunks = request_entry.chunks
        /\ request_entry'.requested_chunks = request_entry.requested_chunks (+) SetToBag(left)
    <3> HIDE DEF md, left
    <3> QED  BY <1>3, <2>1
  <2>3. left = ListedIn(k) \ chunks
    BY DEF BagIn
  <2>4. /\ IsABag(request_entry'.requested_chunks)
        /\ BagToSet(request_entry'.requested_chunks) = requested \cup (ListedIn(k) \ chunks)
    BY <2>1, <2>2, <2>3, SetsAreBags, BagsAdded
  <2>5. md \subseteq Nat
    BY <1>1, <2>1 DEF NextOf
  <2>6. Accounted(requested \cup (ListedIn(k) \ chunks), chunks, md)
    BY <1>1, ScenesAre, MetadataAccounts DEF SimpleInv
  <2> HIDE DEF md, requested, chunks
  <2> PICK r, h, m : /\ r = request_entry'.requested_chunks /\ h = request_entry'.chunks
                     /\ m = request_entry'.requested_md
    OBVIOUS
  <2>7. Accounted(BagToSet(r), BagToSet(h), m)
    BY <2>2, <2>4, <2>6 DEF chunks
  <2>8. Accounted(BagToSet(r), BagToSet(h), m)'
    BY <2>7 DEF Accounted, MayCome
  <2> QED  BY <2>1, <2>2, <2>4, <2>5, <2>8 DEF SimpleEntry
<1>9. ClEntry' /\ Followed'
  <2>1. {"nack", "interest_requested", "recipient", "interest"} \subseteq DOMAIN cl_entry
    BY <1>1 DEF SimpleInv, ClEntry
  <2>2. /\ DOMAIN cl_entry' = DOMAIN cl_entry /\ cl_entry'.nack = cl_entry.nack
        /\ cl_entry'.interest_requested = cl_entry.interest_requested
    BY <2>1 DEF MetadataArrives
  <2>3. \A i \in pit' : i \in pit \/ i.to = p.interest.to
    BY <1>4, <1>6 DEF Send
  <2> QED  BY <1>1, <2>1, <2>2, <2>3 DEF SimpleInv, ClEntry, Followed
<1> QED  BY <1>5, <1>7, <1>8, <1>9 DEF SimpleInv, NothingMissing

(* A request that is over leaves nothing to account for.                   *)
LEMMA Over ==
    ASSUME SimpleInv, UNCHANGED <<scene, asks>>, NEW i \in pit, Send({i}, {}),
           request_entry' = None, NEW chunks, told' = Told(chunks),
           \A c \in 0 .. scene.size - 1 : BagIn(c, chunks)
    PROVE  SimpleInv'
<1>1. Asks' /\ FirstWaits'
  BY AnswerTaken
<1>2. "type" \in DOMAIN told' /\ told'.chunks = chunks
  BY DEF Told
<1>3. NothingMissing'
  BY <1>2 DEF NothingMissing
<1> QED  BY <1>1, <1>2, <1>3 DEF SimpleInv, ClEntry, SimpleEntry, Followed

(* A step that leaves the request as it is.                                *)
LEMMA RequestStays ==
    ASSUME SimpleInv, UNCHANGED <<scene, request_entry>>, ClEntry', Followed', Asks', FirstWaits',
           UNCHANGED told \/ told' = [told EXCEPT !.type = "nack"]
    PROVE  SimpleInv'
<1>1. SimpleEntry'
  BY DEF SimpleInv, SimpleEntry, Accounted, MayCome
<1>2. "type" \in DOMAIN told' /\ NothingMissing'
  BY DEF SimpleInv, NothingMissing
<1> QED  BY <1>1, <1>2 DEF SimpleInv

LEMMA ChunkFollowed ==
    ASSUME SimpleInv, NEW p \in answers, UNCHANGED <<scene, asks>>, p.interest \in pit,
           Considered(p), ChunkArrives(p)
    PROVE  SimpleInv'
<1> PICK x : x = p.interest.name.num
  OBVIOUS
<1> PICK requested, chunks : /\ requested = request_entry.requested_chunks
                             /\ chunks = request_entry.chunks
  OBVIOUS
<1> PICK left, had : left = requested (-) SetToBag({x}) /\ had = chunks (+) SetToBag({x})
  OBVIOUS
<1> PICK md : md = request_entry.requested_md
  OBVIOUS
<1>1. Send({p.interest}, {})
  BY DEF ChunkArrives
<1>2. request_entry # None /\ x \in BagToSet(requested)
  <2>1. Requests(p.interest.name) /\ p.interest.name.kind = "c" /\ Data.kind # "c"
    BY DEF Considered, ChunkArrives, Data, Metadata
  <2> QED  BY <2>1 DEF Requests, BagIn
<1>3. /\ DOMAIN request_entry = {"requested_chunks", "chunks", "requested_md"}
      /\ IsABag(requested) /\ IsABag(chunks) /\ md \subseteq Nat
      /\ Accounted(BagToSet(requested), BagToSet(chunks), md)
  BY <1>2 DEF SimpleInv, SimpleEntry
<1>4. IsABag(left) /\ BagToSet(requested) \ {x} \subseteq BagToSet(left)
  BY <1>3, OneTaken
<1>5. IsABag(had) /\ BagToSet(had) = BagToSet(chunks) \cup {x}
  BY <1>3, BagsAdded, SetsAreBags
<1>6. Accounted(BagToSet(left), BagToSet(had), md)
  BY <1>3, <1>4, <1>5 DEF Accounted
<1>7. CASE left = EmptyBag /\ md = {} /\ request_entry' = None /\ told' = Told(had)
  <2>1. \A c \in 0 .. scene.size - 1 : BagIn(c, had)
    BY <1>6, <1>7, NothingInEmptyBag DEF Accounted, MayCome, BagIn
  <2> QED  BY <1>1, <1>7, <2>1, Over
<1>8. CASE /\ UNCHANGED told
           /\ request_entry' = [request_entry EXCEPT !.requested_chunks = left, !.chunks = had]
  <2>1. /\ DOMAIN request_entry' = DOMAIN request_entry /\ request_entry'.requested_md = md
        /\ request_entry'.requested_chunks = left /\ request_entry'.chunks = had
    BY <1>3, <1>8
  <2>2. Accounted(BagToSet(left), BagToSet(had), md)'
    BY <1>6 DEF Accounted, MayCome
  <2>3. SimpleEntry'
    BY <1>3, <1>4, <1>5, <2>1, <2>2 DEF SimpleEntry
  <2>4. {"nack", "interest_requested", "recipient", "interest"} \subseteq DOMAIN cl_entry
    BY <1>2 DEF SimpleInv, ClEntry
  <2>5. /\ DOMAIN cl_entry' = DOMAIN cl_entry /\ cl_entry'.nack = cl_entry.nack
        /\ cl_entry'.interest_requested = cl_entry.interest_requested
    BY <2>4 DEF ChunkArrives, SetRecipient
  <2>6. ClEntry' /\ Followed'
    BY <1>1, <1>2, <2>4, <2>5 DEF SimpleInv, ClEntry, Followed, Send
  <2>7. Asks' /\ FirstWaits'
    BY <1>1, AnswerTaken
  <2> QED  BY <1>8, <2>3, <2>6, <2>7 DEF SimpleInv, NothingMissing
<1> QED  BY <1>7, <1>8 DEF ChunkArrives

LEMMA ContentFollowed ==
    ASSUME SimpleInv, NEW p \in answers, ContentArrives(p)
    PROVE  SimpleInv'
<1>1. UNCHANGED <<scene, asks>> /\ p.interest \in pit
  BY DEF ContentArrives, Arriving
<1>2. CASE Considered(p) /\ WholeArrives(p)
  <2>1. Send({p.interest}, {}) /\ request_entry' = None /\ told' = Told(EmptyBag) /\ scene.size = 0
    BY <1>2 DEF WholeArrives
  <2> QED  BY <1>1, <2>1, Over
<1>3. CASE ~Considered(p)
  <2>1. Send({p.interest}, {}) /\ UNCHANGED <<request_entry, cl_entry, told>>
    BY <1>3 DEF ContentArrives
  <2>2. Asks' /\ FirstWaits'
    BY <1>1, <2>1, AnswerTaken
  <2>3. ClEntry' /\ Followed'
    BY <2>1 DEF SimpleInv, ClEntry, Followed, Send
  <2> QED  BY <1>1, <2>1, <2>2, <2>3, RequestStays
<1> QED  BY <1>1, <1>2, <1>3, MetadataFollowed, ChunkFollowed DEF ContentArrives

LEMMA RefusalFollowed ==
    ASSUME SimpleInv, NEW p \in answers, NackArrives(p)
    PROVE  SimpleInv'
<1>1. UNCHANGED <<scene, asks, request_entry>> /\ p.interest \in pit
  BY DEF NackArrives, Arriving
<1>2. ASSUME Send({p.interest}, {}), UNCHANGED cl_entry,
             UNCHANGED told \/ told' = [told EXCEPT !.type = "nack"]
      PROVE  SimpleInv'
  <2>1. Asks' /\ FirstWaits'
    BY <1>1, <1>2, AnswerTaken
  <2>2. ClEntry' /\ Followed'
    BY <1>1, <1>2 DEF SimpleInv, ClEntry, Followed, Send
  <2> QED  BY <1>1, <1>2, <2>1, <2>2, RequestStays
<1>3. CASE NeighbourRefuses(p) /\ Requests(p.interest.name)
  <2> DEFINE nack == cl_entry.nack \cup {p.interest.to}
             last == nack = Sides /\ ~cl_entry.interest_requested
             new == IF last THEN {Interest("source", n) : n \in Missing} ELSE {}
  <2>1. /\ cl_entry' = [cl_entry EXCEPT !.nack = nack, !.interest_requested = @ \/ last]
        /\ Send({p.interest}, new) /\ UNCHANGED told
    BY <1>3 DEF NeighbourRefuses
  <2>2. request_entry # None
        /\ {"nack", "interest_requested", "recipient", "interest"} \subseteq DOMAIN cl_entry
    BY <1>3 DEF Requests, SimpleInv, ClEntry
  <2>3. \A n \in new : n.to = "source" /\ n \notin AskedOf
    <3>1. \A s, name : Interest(s, name).to = s
      BY DEF Interest
    <3>2. \A i \in AskedOf : i.to # "source"
      BY <3>1, ScenesAre DEF AskedOf, SimpleInv
    <3> HIDE DEF last
    <3> QED  BY <3>1, <3>2
  <2>4. Asks' /\ FirstWaits'
    <3> HIDE DEF new
    <3> QED  BY <1>1, <2>1, <2>3, AnswerTaken
  <2>5. /\ DOMAIN cl_entry' = DOMAIN cl_entry /\ cl_entry'.nack = nack
        /\ cl_entry'.interest_requested = (cl_entry.interest_requested \/ last)
    BY <2>1, <2>2
  <2>6. ClEntry' /\ Followed'
    BY <1>1, <2>2, <2>5 DEF ClEntry, Followed
  <2> QED  BY <1>1, <2>1, <2>4, <2>6, RequestStays
<1>4. CASE NeighbourRefuses(p) /\ ~Requests(p.interest.name)
  BY <1>2, <1>4 DEF NeighbourRefuses
<1>5. CASE SourceRefuses(p)
  BY <1>2, <1>5 DEF SourceRefuses
<1> QED  BY <1>3, <1>4, <1>5 DEF NackArrives

LEMMA AskFollowed == ASSUME AskedTwice, SimpleInv, Ask PROVE SimpleInv'
<1> DEFINE asked == {s \in scene.routes : Interest(s, Data) \notin pit}
<1>1. /\ asks > 0 /\ asks' = asks - 1 /\ UNCHANGED <<scene, told>>
      /\ asks \in 0 .. scene.asks /\ scene.asks \in 0 .. 2
  BY DEF Ask, SimpleInv, Asks, AskedTwice
<1>2. \A s, name : Interest(s, name).to = s
  BY DEF Interest
<1>3. asked \subseteq scene.routes /\ scene.routes \subseteq Sides /\ "source" \notin Sides
  BY ScenesAre DEF SimpleInv
<1>4. asked = {} => AskedOf \subseteq pit
  BY DEF AskedOf
<1>5. pit = {} => asked = scene.routes
  OBVIOUS
<1>6. \A i \in pit : i.to \in scene.routes \cup {"source"}
  BY DEF SimpleInv, Asks
<1>7. /\ asks = scene.asks => request_entry = None /\ pit = {}
      /\ asks # scene.asks => asks + 1 = scene.asks
  BY <1>1 DEF SimpleInv, Asks
<1>8. ASSUME \A i \in pit' : i \in pit \/ i.to \in scene.routes \cup {"source"}
      PROVE  Asks'
  BY <1>1, <1>6, <1>8 DEF SimpleInv, Asks
<1>9. CASE request_entry # None
  <2>1. Send({}, {Interest("source", Data)}) /\ UNCHANGED <<request_entry, cl_entry>>
    BY <1>9 DEF Ask
  <2>2. \A i \in pit' : i \in pit \/ i.to = "source"
    BY <1>2, <2>1 DEF Send
  <2>3. Asks' /\ FirstWaits'
    BY <1>1, <1>7, <1>8, <1>9, <2>2 DEF FirstWaits
  <2>4. ClEntry' /\ Followed'
    BY <1>3, <2>1, <2>2 DEF SimpleInv, ClEntry, Followed
  <2> QED  BY <1>1, <2>1, <2>3, <2>4, RequestStays
<1>10. CASE request_entry = None
  <2> DEFINE new == IF cl_sent' THEN {Interest(s, Data) : s \in asked} ELSE {Interest("source", Data)}
  <2>1. /\ request_entry' = NewEntry /\ Send({}, new) /\ cl_sent' = (cl_sent \/ asked # {})
        /\ cl_entry' = [nack |-> Sides \ asked, interest |-> Data,
                        interest_requested |-> FALSE, recipient |-> None]
    BY <1>10 DEF Ask
  <2>2. pit' = pit \cup new
    BY <2>1 DEF Send
  <2> HIDE DEF asked
  <2>3. \A i \in new : i.to \in asked \cup {"source"}
    BY <1>2
  <2>4. asks = scene.asks /\ scene.routes # {} => pit' = AskedOf
    BY <1>5, <1>7, <2>1, <2>2 DEF AskedOf
  <2> HIDE DEF new
  <2>5. Asks'
    BY <1>3, <1>8, <2>2, <2>3
  <2>6. FirstWaits'
    <3>1. AskedOf' = AskedOf
      BY <1>1 DEF AskedOf
    <3> HIDE DEF AskedOf
    <3> QED  BY <1>1, <1>7, <2>1, <2>4, <3>1, NoneAssumption DEF FirstWaits
  <2>7. ClEntry' /\ Followed'
    <3>1. cl_entry'.nack = Sides => asked = {}
      BY <1>3, <2>1
    <3>2. asked = {} => \A i \in pit : i.to \notin Sides
      BY <1>3, <1>4, <1>5, <1>6, <1>7, <1>10 DEF SimpleInv, FirstWaits
    <3> QED  BY <1>3, <2>1, <2>2, <2>3, <3>1, <3>2 DEF ClEntry, Followed
  <2>8. SimpleEntry'
    BY <2>1, NothingInEmptyBag DEF SimpleEntry, NewEntry
  <2> QED  BY <1>1, <2>5, <2>6, <2>7, <2>8 DEF SimpleInv, NothingMissing
<1> QED  BY <1>9, <1>10

LEMMA SimpleKeeps == ASSUME AskedTwice, SimpleInv, [Next]_vars PROVE SimpleInv'
<1>1. ASSUME UNCHANGED <<scene, request_entry, cl_entry, pit, asks, told>>  PROVE SimpleInv'
  <2>1. ClEntry' /\ Followed' /\ Asks' /\ FirstWaits'
    BY <1>1 DEF SimpleInv, ClEntry, Followed, Asks, FirstWaits, AskedOf
  <2> QED  BY <1>1, <2>1, RequestStays
<1>2. CASE \E i \in interests : NeighbourInterest(i) \/ SourceInterest(i)
  BY <1>1, <1>2 DEF NeighbourInterest, NeighbourHandles, SourceInterest
<1>3. CASE \E p \in answers : NeighbourAnswer(p) \/ Unexpected(p)
  BY <1>1, <1>3 DEF NeighbourAnswer, Unexpected
<1>4. CASE \E p \in answers : ContentArrives(p) \/ NackArrives(p)
  BY <1>4, ContentFollowed, RefusalFollowed
<1>5. CASE UNCHANGED vars
  BY <1>1, <1>5 DEF vars
<1> QED  BY <1>2, <1>3, <1>4, <1>5, AskFollowed DEF Next, Network

-----------------------------------------------------------------------------
(* The layer with CA messages: metadata is asked for, and complete, only   *)
(* once some has come; from then on each chunk is accounted for.           *)
CaRequestFields == {"requested_chunks", "chunks", "requested_md", "chunked", "md_complete"}
CaEntry ==
    request_entry # None =>
        /\ DOMAIN request_entry = CaRequestFields /\ request_entry.requested_md \subseteq Nat
        /\ request_entry.chunked =>
              Accounted(request_entry.requested_chunks, request_entry.chunks, request_entry.requested_md)
        /\ ~request_entry.chunked => request_entry.requested_md = {} /\ ~request_entry.md_complete

CaWholeInv == scene \in Scenes /\ CaEntry /\ "type" \in DOMAIN told /\ NothingMissing

(* A step that leaves the request as it is, or over without its content.   *)
LEMMA CaRequestStays ==
    ASSUME CaWholeInv, UNCHANGED scene, UNCHANGED request_entry \/ request_entry' = None,
           \/ UNCHANGED told
           \/ "type" \in DOMAIN told' /\ told'.type # "content"
    PROVE  CaWholeInv'
<1>1. CaEntry'
  BY DEF CaWholeInv, CaEntry, Accounted, MayCome
<1> QED  BY <1>1 DEF CaWholeInv, NothingMissing

(* A step after which the request accounts for its chunks.                 *)
LEMMA CaRequestGrows ==
    ASSUME CaWholeInv, UNCHANGED <<scene, told>>, NEW requested, NEW chunks, NEW md \in SUBSET Nat,
           DOMAIN request_entry' = CaRequestFields, request_entry'.requested_chunks = requested,
           request_entry'.chunks = chunks, request_entry'.requested_md = md,
           request_entry'.chunked \/ (md = {} /\ ~request_entry'.md_complete),
           request_entry'.chunked => Accounted(requested, chunks, md)
    PROVE  CaWholeInv'
<1>1. request_entry'.chunked => Accounted(requested, chunks, md)'
  BY DEF Accounted, MayCome
<1>2. CaEntry'
  BY <1>1 DEF CaEntry, CaRequestFields
<1> QED  BY <1>2 DEF CaWholeInv, NothingMissing

LEMMA CaAskWhole == ASSUME CaWholeInv, CaAsk PROVE CaWholeInv'
<1>1. UNCHANGED <<scene, told>>
  BY DEF CaAsk
<1>2. CASE UNCHANGED request_entry
  BY <1>1, <1>2, CaRequestStays
<1>3. CASE request_entry' = NewCaRequest
  <2>1. CaEntry'
    BY <1>3 DEF CaEntry, NewCaRequest, CaRequestFields
  <2> QED  BY <1>1, <2>1 DEF CaWholeInv, NothingMissing
<1> QED  BY <1>2, <1>3 DEF CaAsk

(* Taking an offer adds to the chunks that are requested.                  *)
LEMMA OfferWhole ==
    ASSUME CaWholeInv, UNCHANGED <<scene, told>>, NEW done, NEW ca, OfferTaken(done, ca)
    PROVE  CaWholeInv'
<1>1. CASE UNCHANGED request_entry
  BY <1>1, CaRequestStays
<1>2. CASE /\ request_entry # None
           /\ \E wanted : /\ request_entry.requested_chunks \subseteq wanted
                          /\ request_entry' = [request_entry EXCEPT !.requested_chunks = wanted]
  <2>1. PICK wanted : /\ request_entry.requested_chunks \subseteq wanted
                      /\ request_entry' = [request_entry EXCEPT !.requested_chunks = wanted]
    BY <1>2
  <2> PICK chunks, md : chunks = request_entry.chunks /\ md = request_entry.requested_md
    OBVIOUS
  <2>2. DOMAIN request_entry = CaRequestFields /\ md \subseteq Nat
    BY <1>2 DEF CaWholeInv, CaEntry
  <2>3. /\ DOMAIN request_entry' = CaRequestFields /\ request_entry'.requested_chunks = wanted
        /\ request_entry'.chunks = chunks /\ request_entry'.requested_md = md
        /\ request_entry'.chunked = request_entry.chunked
        /\ request_entry'.md_complete = request_entry.md_complete
    BY <2>1, <2>2 DEF CaRequestFields
  <2>4. /\ request_entry.chunked => Accounted(wanted, chunks, md)
        /\ request_entry.chunked \/ (md = {} /\ ~request_entry.md_complete)
    BY <1>2, <2>1 DEF CaWholeInv, CaEntry, Accounted
  <2> QED  BY <2>2, <2>3, <2>4, CaRequestGrows
<1>3. request_entry # None /\ ~UNCHANGED request_entry =>
          \E wanted : /\ request_entry.requested_chunks \subseteq wanted
                      /\ request_entry' = [request_entry EXCEPT !.requested_chunks = wanted]
  <2> DEFINE part == [ca EXCEPT !.received_all = TRUE, !.chunks = ca.ca.chunks]
             wanted == request_entry.requested_chunks \cup (part.chunks \ request_entry.chunks)
  <2>1. request_entry # None /\ ~UNCHANGED request_entry =>
            request_entry' = [request_entry EXCEPT !.requested_chunks = wanted]
    BY DEF OfferTaken
  <2> HIDE DEF part
  <2>2. request_entry.requested_chunks \subseteq wanted
    OBVIOUS
  <2> QED  BY <2>1, <2>2
<1>4. request_entry = None => UNCHANGED request_entry
  BY DEF OfferTaken
<1> QED  BY <1>1, <1>2, <1>3, <1>4

LEMMA CaMetadataWhole ==
    ASSUME CaWholeInv, NEW p \in answers, UNCHANGED scene, Awaits(p.interest.name),
           CaMetadataArrives(p)
    PROVE  CaWholeInv'
<1> PICK k : k = p.interest.name.num
  OBVIOUS
<1> PICK requested, chunks, md :
        /\ requested = request_entry.requested_chunks /\ chunks = request_entry.chunks
        /\ md = request_entry.requested_md
  OBVIOUS
<1>1. UNCHANGED told /\ request_entry # None
  BY DEF CaMetadataArrives, Awaits
<1>2. /\ DOMAIN request_entry = CaRequestFields /\ md \subseteq Nat
      /\ request_entry.chunked => Accounted(requested, chunks, md)
      /\ ~request_entry.chunked => md = {} /\ ~request_entry.md_complete
  BY <1>1 DEF CaWholeInv, CaEntry
<1>3. k = 0 \/ k \in md
  <2>1. p.interest.name.kind = "m"
    BY DEF CaMetadataArrives
  <2>2. p.interest.name = Data => k = 0
    BY DEF Data, Metadata
  <2> QED  BY <2>1, <2>2 DEF Awaits
<1>4. CASE request_entry.md_complete /\ request_entry' = [request_entry EXCEPT !.chunked = TRUE]
  <2>1. /\ DOMAIN request_entry' = CaRequestFields /\ request_entry'.requested_chunks = requested
        /\ request_entry'.chunks = chunks /\ request_entry'.requested_md = md
        /\ request_entry'.chunked
    BY <1>2, <1>4 DEF CaRequestFields
  <2> QED  BY <1>1, <1>2, <1>4, <2>1, CaRequestGrows
<1>5. CASE request_entry' = [request_entry EXCEPT !.chunked = TRUE,
                      !.requested_md = (@ \ {k}) \cup NextOf(k),
                      !.requested_chunks = @ \cup (ListedIn(k) \ request_entry.chunks),
                      !.md_complete = NextOf(k) = {}]
  <2>1. /\ DOMAIN request_entry' = CaRequestFields
        /\ request_entry'.requested_chunks = requested \cup (ListedIn(k) \ chunks)
        /\ request_entry'.chunks = chunks
        /\ request_entry'.requested_md = (md \ {k}) \cup NextOf(k)
        /\ request_entry'.chunked
    BY <1>2, <1>5 DEF CaRequestFields
  <2>2. (md \ {k}) \cup NextOf(k) \subseteq Nat /\ k \in Nat
    BY <1>2, <1>3 DEF NextOf
  <2>3. scene.size \in Nat
    BY OffloadingAssumption DEF CaWholeInv
  <2>4. Accounted(requested \cup (ListedIn(k) \ chunks), chunks, (md \ {k}) \cup NextOf(k))
    BY <1>2, <1>3, <2>2, <2>3, MetadataAccounts
  <2> QED  BY <1>1, <2>1, <2>2, <2>4, CaRequestGrows
<1> QED  BY <1>4, <1>5 DEF CaMetadataArrives

LEMMA CaChunkWhole ==
    ASSUME CaWholeInv, NEW p \in answers, UNCHANGED scene, Awaits(p.interest.name),
           CaChunkArrives(p)
    PROVE  CaWholeInv'
<1> PICK x : x = p.interest.name.num
  OBVIOUS
<1> PICK requested, chunks, md :
        /\ requested = request_entry.requested_chunks /\ chunks = request_entry.chunks
        /\ md = request_entry.requested_md
  OBVIOUS
<1> DEFINE entry == [request_entry EXCEPT !.requested_chunks = @ \ {x}, !.chunks = @ \cup {x}]
<1>1. request_entry # None
  BY DEF Awaits
<1>2. CASE ~request_entry.chunked
  <2>1. request_entry' = None /\ told' = [type |-> "chunk", chunks |-> SetToBag({x})]
    BY <1>2 DEF CaChunkArrives
  <2> QED  BY <2>1, CaRequestStays
<1>3. CASE request_entry.chunked
  <2>1. /\ DOMAIN request_entry = CaRequestFields /\ md \subseteq Nat
        /\ Accounted(requested, chunks, md)
    BY <1>1, <1>3 DEF CaWholeInv, CaEntry
  <2>2. Accounted(requested \ {x}, chunks \cup {x}, md)
    BY <2>1 DEF Accounted
  <2>3. /\ DOMAIN entry = CaRequestFields /\ entry.requested_chunks = requested \ {x}
        /\ entry.chunks = chunks \cup {x} /\ entry.requested_md = md /\ entry.chunked
    BY <1>3, <2>1 DEF CaRequestFields
  <2>4. \/ /\ entry.requested_chunks = {} /\ entry.requested_md = {}
           /\ request_entry' = None /\ told' = Told(SetToBag(entry.chunks))
        \/ request_entry' = entry /\ UNCHANGED told
    BY <1>3 DEF CaChunkArrives
  <2> HIDE DEF entry
  <2>5. CASE request_entry' = entry /\ UNCHANGED told
    BY <2>1, <2>2, <2>3, <2>5, CaRequestGrows
  <2>6. CASE /\ entry.requested_chunks = {} /\ entry.requested_md = {}
             /\ request_entry' = None /\ told' = Told(SetToBag(entry.chunks))
    <3>1. \A c \in 0 .. scene.size - 1 : c \in chunks \cup {x}
      BY <2>2, <2>3, <2>6 DEF Accounted, MayCome
    <3>2. told'.chunks = SetToBag(chunks \cup {x}) /\ "type" \in DOMAIN told'
      BY <2>3, <2>6 DEF Told
    <3>3. NothingMissing'
      BY <3>1, <3>2, SetsAreBags DEF NothingMissing
    <3> QED  BY <2>6, <3>2, <3>3 DEF CaWholeInv, CaEntry
  <2> QED  BY <2>4, <2>5, <2>6
<1> QED  BY <1>2, <1>3

LEMMA CaContentWhole ==
    ASSUME CaWholeInv, NEW p \in answers, CaContentArrives(p)
    PROVE  CaWholeInv'
<1>1. UNCHANGED scene
  BY DEF CaContentArrives, Arriving
<1>2. CASE OfferArrives(p)
  <2>1. UNCHANGED told
    BY <1>2 DEF OfferArrives
  <2>2. UNCHANGED request_entry \/ \E ca : OfferTaken({p.interest}, ca)
    BY <1>2 DEF OfferArrives
  <2> QED  BY <1>1, <2>1, <2>2, OfferWhole, CaRequestStays
<1>3. CASE Awaits(p.interest.name) /\ CaWholeArrives(p)
  <2>1. /\ scene.size = 0 /\ request_entry' = None /\ "type" \in DOMAIN told'
    BY <1>3 DEF CaWholeArrives, Told
  <2> QED  BY <1>1, <2>1 DEF CaWholeInv, CaEntry, NothingMissing
<1>4. CASE ~Awaits(p.interest.name) /\ DataArrives(p)
  BY <1>1, <1>4, CaRequestStays DEF DataArrives
<1>5. CASE Awaits(p.interest.name) /\ (CaMetadataArrives(p) \/ CaChunkArrives(p))
  BY <1>1, <1>5, CaMetadataWhole, CaChunkWhole
<1> QED  BY <1>2, <1>3, <1>4, <1>5 DEF CaContentArrives, DataArrives

LEMMA CaNackWhole ==
    ASSUME CaWholeInv, NEW p \in answers, CaNackArrives(p)
    PROVE  CaWholeInv'
<1>1. UNCHANGED scene
  BY DEF CaNackArrives, Arriving
<1>2. CASE DataRefused(p)
  <2>1. UNCHANGED request_entry /\ (UNCHANGED told \/ told' = [told EXCEPT !.type = "nack"])
    BY <1>2 DEF DataRefused
  <2> QED  BY <1>1, <2>1, CaRequestStays DEF CaWholeInv
<1>3. CASE OfferRefused(p)
  <2>1. UNCHANGED told
    BY <1>3 DEF OfferRefused
  <2>2. UNCHANGED request_entry \/ \E ca : OfferTaken({}, ca)
    BY <1>3 DEF OfferRefused
  <2> QED  BY <1>1, <2>1, <2>2, OfferWhole, CaRequestStays
<1> QED  BY <1>2, <1>3 DEF CaNackArrives

LEMMA CaWholeKeeps ==
    ASSUME CaWholeInv, CaAsk \/ CaNetwork \/ UNCHANGED <<scene, request_entry, told>>
    PROVE  CaWholeInv'
<1>1. CASE UNCHANGED <<scene, request_entry, told>>
  BY <1>1, CaRequestStays
<1>2. CASE \E i \in interests :
              NeighbourCaInterest(i) \/ (SourceInterest(i) /\ UNCHANGED <<layer, caLayer>>)
  BY <1>1, <1>2 DEF NeighbourCaInterest, NeighbourHandles, SourceInterest
<1>3. CASE \E p \in answers : CaContentArrives(p) \/ CaNackArrives(p)
  BY <1>3, CaContentWhole, CaNackWhole
<1>4. CASE \E p \in answers : (NeighbourAnswer(p) \/ Unexpected(p)) /\ UNCHANGED <<layer, caLayer>>
  BY <1>1, <1>4 DEF NeighbourAnswer, Unexpected
<1> QED  BY <1>1, <1>2, <1>3, <1>4, CaAskWhole DEF CaNetwork

-----------------------------------------------------------------------------
EitherWhole ==
    layer \in {"simple", "ca"} /\ (layer = "simple" => SimpleInv) /\ (layer = "ca" => CaWholeInv)

LEMMA EitherWholeKeeps == ASSUME AskedTwice, EitherWhole, [CaNext]_caVars PROVE EitherWhole'
<1>1. UNCHANGED layer
  BY DEF CaNext, CaAsk, CaNetwork, PassOn, NeighbourCaInterest, CaContentArrives, CaNackArrives, caVars
<1>2. CASE layer = "simple"
  <2>1. [Next]_vars
    BY <1>2 DEF CaNext, PassOn, caVars
  <2> QED  BY <1>1, <1>2, <2>1, SimpleKeeps DEF EitherWhole
<1>3. CASE layer = "ca"
  <2>1. CaAsk \/ CaNetwork \/ UNCHANGED <<scene, request_entry, told>>
    BY <1>3 DEF CaNext, PassOn, caVars, vars
  <2> QED  BY <1>1, <1>3, <2>1, CaWholeKeeps DEF EitherWhole
<1> QED  BY <1>2, <1>3 DEF EitherWhole

(* The layer with CA messages hands content up complete, however often it  *)
(* is asked, whoever has which parts, refuses them, or is late: since its  *)
(* first metadata the request accounts for each chunk.                     *)
THEOREM CaNothingMissing == CaSpec => [](layer = "ca" => NothingMissing)
<1> DEFINE Inv == layer \in {"simple", "ca"} /\ (layer = "ca" => CaWholeInv)
<1>1. CaInit => Inv
  BY DEF CaInit, Init, CaWholeInv, CaEntry, NothingMissing
<1>2. Inv /\ [CaNext]_caVars => Inv'
  <2> SUFFICES ASSUME Inv, [CaNext]_caVars PROVE Inv'
    OBVIOUS
  <2>1. UNCHANGED layer
    BY DEF CaNext, CaAsk, CaNetwork, PassOn, NeighbourCaInterest, CaContentArrives, CaNackArrives, caVars
  <2>2. layer = "ca" => CaAsk \/ CaNetwork \/ UNCHANGED <<scene, request_entry, told>>
    BY DEF CaNext, PassOn, caVars, vars
  <2> QED  BY <2>1, <2>2, CaWholeKeeps
<1>3. Inv => (layer = "ca" => NothingMissing)
  BY DEF CaWholeInv
<1> QED  BY <1>1, <1>2, <1>3, PTL DEF CaSpec

(* With either chunk layer, and in that without CA messages for up to two  *)
(* requests: content is handed up complete (handle_received_chunk_data).   *)
THEOREM NothingMissingCorrect == ASSUME AskedTwice PROVE CaSpec => []NothingMissing
<1>1. CaInit => EitherWhole
  <2> SUFFICES ASSUME CaInit PROVE EitherWhole
    OBVIOUS
  <2>1. scene \in Scenes /\ asks = scene.asks /\ asks \in Nat
    BY OffloadingAssumption DEF CaInit, Init
  <2>2. Asks /\ FirstWaits
    BY <2>1 DEF CaInit, Init, Asks, FirstWaits
  <2>3. "type" \in DOMAIN told /\ NothingMissing
    BY DEF CaInit, Init, NothingMissing
  <2> QED  BY <2>1, <2>2, <2>3
       DEF CaInit, Init, EitherWhole, SimpleInv, CaWholeInv, ClEntry, SimpleEntry, Followed, CaEntry
<1>2. AskedTwice /\ EitherWhole /\ [CaNext]_caVars => EitherWhole'
  BY EitherWholeKeeps
<1>3. EitherWhole => NothingMissing
  BY DEF EitherWhole, SimpleInv, CaWholeInv
<1> QED  BY <1>1, <1>2, <1>3, PTL DEF CaSpec

===============================================================================

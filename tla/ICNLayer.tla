------------------------------- MODULE ICNLayer -------------------------------
(***************************************************************************)
(* BasicICNLayer: one forwarder between a lower layer that delivers        *)
(* [face id, packet] and, where there is one, a higher layer (NFN or an    *)
(* application).  Every action is one whole handler.  The packets come     *)
(* from an open network: any face may send any packet at any time, so      *)
(* late, duplicated and unsolicited packets are all included.              *)
(***************************************************************************)
EXTENDS ICNTables

CONSTANTS
    HasApp,         \* a higher layer is attached (to_higher is not None)
    InterestToApp,  \* _interest_to_app: interests go up before the FIB is asked
    ThunkNames,     \* the names that contain the THUNK marker
    Rules,          \* the forwarding rules the management interface may add
    MgmtData,       \* the payloads the management interface may add
    InitialFibs,    \* the FIBs a forwarder may start with
    PitRetransmits, \* _pit_retransmits
    MaxRetransmits  \* bound: an entry has timed out by this many ageing rounds

ASSUME LayerAssumption ==
    /\ HasApp \in BOOLEAN /\ InterestToApp \in BOOLEAN
    /\ ThunkNames \subseteq Names
    /\ Rules \subseteq [name : Prefixes, faceid : SUBSET Faces]
    /\ MgmtData \subseteq Data
    /\ InitialFibs \subseteq Seq(FibEntry)
    /\ PitRetransmits \in Nat /\ MaxRetransmits \in Nat
    /\ PitRetransmits < MaxRetransmits
    /\ ~HasApp => AppIds = {}

ASSUME NoneAssumption == None \notin PitEntry \cup Route \cup CsItem

VARIABLES
    pit,     \* the pending interest table: an entry or None for each name
    cs,      \* the content store: the objects cached under each name
    fib,     \* the forwarding information base
    sent,    \* what the last handler put on its output queues
    waiting, \* history: the network consumers that asked and got no answer
    apps     \* history: the names the higher layer asked for and waits for

vars == <<pit, cs, fib, sent, waiting, apps>>

-----------------------------------------------------------------------------
(* Packets and output queues *)

Interest(n) == [type |-> "interest", name |-> n]
Content(n, d) == [type |-> "content", name |-> n, data |-> d]
Nack(n, r) == [type |-> "nack", name |-> n, reason |-> r]

Reason == {"no_route", "pit_timeout", "upstream"}

Packet == [type : {"interest"}, name : Names]
          \cup [type : {"content"}, name : Names, data : Data]
          \cup [type : {"nack"}, name : Names, reason : Reason]

To(ids, p) == {<<id, p>> : id \in ids}
Queues == [lower  : SUBSET (Faces \X Packet),
           higher : SUBSET (Ids \X Packet)]
Quiet == [lower |-> {}, higher |-> {}]
Lower(msgs) == [lower |-> msgs, higher |-> {}]
Higher(msgs) == [lower |-> {}, higher |-> msgs]

Replies(msgs) == {m \in msgs : m[2].type # "interest"}

(* The consumers and the applications the packets just sent answer. *)
Answered(out) == {<<m[2].name, m[1]>> : m \in Replies(out.lower)}
AppsAnswered(out) == {m[2].name : m \in Replies(out.higher)}

-----------------------------------------------------------------------------
(* handle_interest_from_lower *)

InterestHit(f, n) ==
    /\ cs[n] # << >>
    /\ sent' = Lower(To({f}, Content(n, Found(cs[n]).data)))
    /\ cs' = [cs EXCEPT ![n] = Touched(@)]
    /\ waiting' = waiting \ {<<n, f>>}
    /\ UNCHANGED <<pit, fib, apps>>

InterestAggregated(f, n) ==
    /\ cs[n] = << >> /\ pit[n] # None
    /\ pit' = [pit EXCEPT ![n] = AddRequester(Refreshed(@), f, FALSE)]
    /\ sent' = Quiet
    /\ waiting' = waiting \cup {<<n, f>>}
    /\ UNCHANGED <<cs, fib, apps>>

InterestGoesUp(f, n) ==
    /\ cs[n] = << >> /\ pit[n] = None
    /\ InterestToApp /\ HasApp
    /\ pit' = [pit EXCEPT ![n] = NewEntry(f, FALSE)]
    /\ sent' = Higher(To({f}, Interest(n)))
    /\ waiting' = waiting \cup {<<n, f>>}
    /\ UNCHANGED <<cs, fib, apps>>

InterestForwarded(f, n) ==
    /\ cs[n] = << >> /\ pit[n] = None
    /\ ~(InterestToApp /\ HasApp)
    /\ LET route == FindFib(fib, n, {}, {f}) IN
       /\ route # None
       /\ pit' = [pit EXCEPT ![n] = CountForwards(NewEntry(f, FALSE), route)]
       /\ sent' = Lower(To(route.faceid, Interest(n)))
    /\ waiting' = waiting \cup {<<n, f>>}
    /\ UNCHANGED <<cs, fib, apps>>

InterestRefused(f, n) ==
    /\ cs[n] = << >> /\ pit[n] = None
    /\ ~(InterestToApp /\ HasApp)
    /\ FindFib(fib, n, {}, {f}) = None
    /\ sent' = Lower(To({f}, Nack(n, "no_route")))
    /\ waiting' = waiting \ {<<n, f>>}
    /\ UNCHANGED <<pit, cs, fib, apps>>

InterestFromLower(f, n) ==
    \/ InterestHit(f, n)
    \/ InterestAggregated(f, n)
    \/ InterestGoesUp(f, n)
    \/ InterestForwarded(f, n)
    \/ InterestRefused(f, n)

-----------------------------------------------------------------------------
(* handle_interest_from_higher *)

AppHit(a, n) ==
    /\ cs[n] # << >>
    /\ sent' = Higher(To({a}, Content(n, Found(cs[n]).data)))
    /\ apps' = apps \ {n}
    /\ UNCHANGED <<pit, cs, fib, waiting>>

(* The route is looked up with the faces of the entry as it was before the *)
(* app was added to it: without an entry no face is filtered out.          *)
AppRoute(n) ==
    FindFib(fib, n, {}, IF pit[n] = None THEN {} ELSE FaceIds(pit[n]))

AppForwarded(a, n) ==
    /\ cs[n] = << >> /\ AppRoute(n) # None
    /\ LET e == [AddRequester(pit[n], a, TRUE) EXCEPT !.forwards = 0] IN
       /\ pit' = [pit EXCEPT ![n] = CountForwards(e, AppRoute(n))]
       /\ sent' = Lower(To(Unnacked(e, AppRoute(n)), Interest(n)))
    /\ apps' = apps \cup {n}
    /\ UNCHANGED <<cs, fib, waiting>>

(* Mutant of AppRefused: an app that joins an entry is not recorded in it. *)
AppRefusedUnrecorded(a, n) ==
    /\ cs[n] = << >> /\ AppRoute(n) = None
    /\ pit' = [pit EXCEPT ![n] = IF @ = None THEN NewEntry(a, TRUE) ELSE @]
    /\ LET nack == Nack(n, "no_route") IN
       IF pit[n] = None
       THEN sent' = Higher(To({a}, nack))
       ELSE sent' = [lower  |-> To(NetworkFaces(pit[n]), nack),
                     higher |-> IF LocalApps(pit[n]) = {} THEN {}
                                ELSE To({a}, nack)]
    /\ waiting' = waiting \ Answered(sent')
    /\ apps' = (apps \cup {n}) \ AppsAnswered(sent')
    /\ UNCHANGED <<cs, fib>>

(* Without a route the interest is refused, and its PIT entry stays.  If   *)
(* an entry was there before, the Nack goes to the requesters it had.      *)
AppRefused(a, n) ==
    /\ cs[n] = << >> /\ AppRoute(n) = None
    /\ pit' = [pit EXCEPT ![n] = AddRequester(@, a, TRUE)]
    /\ LET nack == Nack(n, "no_route") IN
       IF pit[n] = None
       THEN sent' = Higher(To({a}, nack))
       ELSE sent' = [lower  |-> To(NetworkFaces(pit[n]), nack),
                     higher |-> IF LocalApps(pit[n]) = {} THEN {}
                                ELSE To({a}, nack)]
    /\ waiting' = waiting \ Answered(sent')
    /\ apps' = (apps \cup {n}) \ AppsAnswered(sent')
    /\ UNCHANGED <<cs, fib>>

InterestFromHigher(a, n) ==
    /\ HasApp
    /\ AppHit(a, n) \/ AppForwarded(a, n) \/ AppRefused(a, n)

-----------------------------------------------------------------------------
(* handle_content, for content from the network (src is a face) and from   *)
(* the higher layer (src is its packet id).                                *)

(* Mutant of ContentArrives: the PIT entry is not removed. *)
ContentArrivesKept(src, n, d) ==
    /\ pit[n] # None
    /\ sent' = [lower  |-> To(NetworkFaces(pit[n]), Content(n, d)),
                higher |-> IF LocalApps(pit[n]) = {} THEN {}
                           ELSE To({src}, Content(n, d))]
    /\ cs' = [cs EXCEPT ![n] = AddContent(@, d, FALSE)]
    /\ waiting' = waiting \ Answered(sent')
    /\ apps' = apps \ AppsAnswered(sent')
    /\ UNCHANGED <<pit, fib>>

ContentArrives(src, n, d) ==
    /\ pit[n] # None
    /\ sent' = [lower  |-> To(NetworkFaces(pit[n]), Content(n, d)),
                higher |-> IF LocalApps(pit[n]) = {} THEN {}
                           ELSE To({src}, Content(n, d))]
    /\ pit' = [pit EXCEPT ![n] = None]
    /\ cs' = [cs EXCEPT ![n] = AddContent(@, d, FALSE)]
    /\ waiting' = waiting \ Answered(sent')
    /\ apps' = apps \ AppsAnswered(sent')
    /\ UNCHANGED fib

-----------------------------------------------------------------------------
(* handle_nack *)

(* Mutant of NackCounted: the counter is not tested first. *)
NackCountedUnguarded(src, n) ==
    /\ pit[n] # None
    /\ pit' = [pit EXCEPT ![n].nacked = @ \cup {src}, ![n].forwards = @ - 1]
    /\ sent' = Quiet
    /\ UNCHANGED <<cs, fib, waiting, apps>>

(* The Nack is noted; other faces still have to answer. *)
NackCounted(src, n) ==
    /\ pit[n] # None /\ pit[n].forwards > 1
    /\ pit' = [pit EXCEPT ![n].nacked = @ \cup {src}, ![n].forwards = @ - 1]
    /\ sent' = Quiet
    /\ UNCHANGED <<cs, fib, waiting, apps>>

(* Mutant of Exhausted: the current route is not marked as used. *)
ExhaustedUnmarked(src, n) ==
    [pit[n] EXCEPT !.nacked = @ \cup {src}, !.forwards = 0]

(* The entry when the last outstanding Nack has come in: the current route *)
(* is marked as used, and the next one is looked up.                       *)
Exhausted(src, n) ==
    LET current == FindFib(fib, n, pit[n].used, FaceIds(pit[n]))
    IN  [pit[n] EXCEPT !.nacked = @ \cup {src}, !.forwards = 0,
                       !.used = IF current = None THEN @ ELSE @ \cup {current}]

NextRoute(e, n) == FindFib(fib, n, e.used, FaceIds(e))

LastNack(src, n) ==
    /\ pit[n] # None /\ pit[n].forwards <= 1
    /\ LET route == NextRoute(Exhausted(src, n), n)
       IN  route # None => route.faceid = {src}

NackTriesNextRoute(src, n) ==
    /\ pit[n] # None /\ pit[n].forwards <= 1
    /\ ~LastNack(src, n)
    /\ LET e == Exhausted(src, n)
           route == NextRoute(e, n)
       IN  /\ pit' = [pit EXCEPT ![n] = CountForwards(e, route)]
           /\ sent' = Lower(To(Unnacked(e, route), Interest(n)))
    /\ UNCHANGED <<cs, fib, waiting, apps>>

NackOnThunk(src, n, reason) ==
    /\ LastNack(src, n)
    /\ pit' = [pit EXCEPT ![n] = Exhausted(src, n)]
    /\ sent' = Higher(To({src}, Nack(n, reason)))
    /\ apps' = apps \ {n}
    /\ UNCHANGED <<cs, fib, waiting>>

(* Local applications are told first: their requests leave the entry, and  *)
(* the network consumers stay in it.                                       *)
NackToApps(src, n, reason) ==
    /\ LastNack(src, n) /\ LocalApps(pit[n]) # {}
    /\ pit' = [pit EXCEPT ![n] = [Exhausted(src, n) EXCEPT
                                     !.faces = @ \ LocalApps(pit[n])]]
    /\ sent' = Higher(To({src}, Nack(n, reason)))
    /\ apps' = apps \ {n}
    /\ UNCHANGED <<cs, fib, waiting>>

(* Mutant of NackToConsumers: the entry is put back as it is for apps.     *)
NackToConsumersKept(src, n, reason) ==
    /\ LastNack(src, n) /\ LocalApps(pit[n]) = {}
    /\ pit' = [pit EXCEPT ![n] = Exhausted(src, n)]
    /\ sent' = Lower(To(NetworkFaces(pit[n]), Nack(n, reason)))
    /\ waiting' = waiting \ Answered(sent')
    /\ UNCHANGED <<cs, fib, apps>>

NackToConsumers(src, n, reason) ==
    /\ LastNack(src, n) /\ LocalApps(pit[n]) = {}
    /\ pit' = [pit EXCEPT ![n] = None]
    /\ sent' = Lower(To(NetworkFaces(pit[n]), Nack(n, reason)))
    /\ waiting' = waiting \ Answered(sent')
    /\ UNCHANGED <<cs, fib, apps>>

NackArrives(src, n, reason, fromLocal) ==
    \/ NackCounted(src, n)
    \/ NackTriesNextRoute(src, n)
    \/ LET thunk == InterestToApp /\ ~fromLocal /\ n \in ThunkNames IN
       \/ thunk /\ NackOnThunk(src, n, reason)
       \/ ~thunk /\ NackToApps(src, n, reason)
       \/ ~thunk /\ NackToConsumers(src, n, reason)

-----------------------------------------------------------------------------
(* ageing: late is the set of pending names whose entry is older than the  *)
(* PIT timeout, expired[n] how many objects are older than the CS timeout. *)

Pending == {n \in Names : pit[n] # None}

(* Mutant of Retransmissions: the faces of the consumers are not left out. *)
RetransmissionsToAll(n) ==
    LET route == FindFib(fib, n, pit[n].used, {})
    IN  IF route = None THEN {} ELSE To(Unnacked(pit[n], route), Interest(n))

Retransmissions(n) ==
    LET route == FindFib(fib, n, pit[n].used, FaceIds(pit[n]))
    IN  IF route = None THEN {} ELSE To(Unnacked(pit[n], route), Interest(n))

Ageing(late, expired) ==
    LET dead == {n \in late : pit[n].retransmits > PitRetransmits}
        kept == Pending \ dead
    IN
    /\ late \subseteq Pending
    /\ \A n \in Pending : pit[n].retransmits = MaxRetransmits => n \in late
    /\ pit' = [n \in Names |->
                  IF n \in kept THEN Older(pit[n]) ELSE None]
    /\ sent' = [lower  |-> UNION {Retransmissions(n) : n \in kept},
                higher |-> UNION {{<<r[1], Nack(n, "pit_timeout")>> :
                                      r \in LocalApps(pit[n])} : n \in dead}]
    /\ cs' = [n \in Names |-> Swept(cs[n], expired[n])]
    /\ waiting' = {w \in waiting : w[1] \notin dead}
    /\ apps' = apps \ AppsAnswered(sent')
    /\ UNCHANGED fib

-----------------------------------------------------------------------------
(* Mgmt.icnl_mgmt: newforwardingrule and newcontent, from its own process  *)

NewForwardingRule(rule) ==
    /\ fib' = AddFib(fib, rule.name, rule.faceid, TRUE)
    /\ sent' = Quiet
    /\ UNCHANGED <<pit, cs, waiting, apps>>

NewContent(n, d) ==
    /\ cs' = [cs EXCEPT ![n] = AddContent(@, d, TRUE)]
    /\ sent' = Quiet
    /\ UNCHANGED <<pit, fib, waiting, apps>>

-----------------------------------------------------------------------------
Init ==
    /\ pit = [n \in Names |-> None]
    /\ cs = [n \in Names |-> << >>]
    /\ fib \in InitialFibs
    /\ sent = Quiet
    /\ waiting = {}
    /\ apps = {}

Network(n) ==
    \E f \in Faces :
        \/ InterestFromLower(f, n)
        \/ \E d \in Data : ContentArrives(f, n, d)
        \/ NackArrives(f, n, "upstream", FALSE)

Application(n) ==
    \E a \in AppIds :
        \/ InterestFromHigher(a, n)
        \/ \E d \in Data : ContentArrives(a, n, d)
        \/ NackArrives(a, n, "upstream", TRUE)

Expiries == {k \in [Names -> 0 .. Cardinality(Data)] :
                \A n \in Names : k[n] <= Len(cs[n])}

Management ==
    \/ \E rule \in Rules : NewForwardingRule(rule)
    \/ \E n \in Names, d \in MgmtData : NewContent(n, d)

Next ==
    \/ \E n \in Names : Network(n) \/ Application(n)
    \/ \E late \in SUBSET Names, k \in Expiries : Ageing(late, k)
    \/ Management

Spec == Init /\ [][Next]_vars

-----------------------------------------------------------------------------
(* Properties *)

TypeOK ==
    /\ pit \in [Names -> PitEntry \cup {None}]
    /\ cs \in [Names -> Seq(CsItem)]
    /\ fib \in Seq(FibEntry)
    /\ sent \in Queues
    /\ waiting \subseteq Names \X Faces
    /\ apps \subseteq Names

(* No handler drops a consumer of the network unanswered: as long as it    *)
(* waits, the PIT holds it.                                                *)
NobodyForgotten ==
    \A w \in waiting : pit[w[1]] # None /\ w[2] \in NetworkFaces(pit[w[1]])

(* No handler answers a consumer and keeps it in the PIT for another       *)
(* answer, unless management has cached the name behind the handlers' back.*)
NobodyAnsweredTwice ==
    \A n \in Pending : cs[n] = << >> =>
        \A f \in NetworkFaces(pit[n]) : <<n, f>> \in waiting

(* The higher layer is told in the end about every name it asked for: as   *)
(* long as it waits, the PIT entry holds a local request, which content, a *)
(* Nack or the timeout of the entry answers.                               *)
NoAppForgotten ==
    \A n \in apps : pit[n] # None /\ LocalApps(pit[n]) # {}

(* The counter of outstanding answers never exceeds the faces that have    *)
(* not refused the interest.                                               *)
CounterWithinFaces ==
    \A n \in Pending : pit[n].forwards <= Cardinality(Faces \ pit[n].nacked)

(* No interest is sent to a face that waits for the same name.             *)
NoHairpin ==
    \A m \in sent.lower : m[2].type = "interest" =>
        /\ pit[m[2].name] # None
        /\ m[1] \notin NetworkFaces(pit[m[2].name])

(* A name that is pending is not cached, unless management put it there,   *)
(* and management only puts static objects there.                          *)
CachedNotPending ==
    \A n \in Pending : \A i \in DOMAIN cs[n] : cs[n][i].static

(* A static content object is never removed from the content store.        *)
StaticStays ==
    [][\A n \in Names : \A i \in DOMAIN cs[n] : cs[n][i].static =>
          \E j \in DOMAIN cs'[n] : cs'[n][j] = cs[n][i]]_vars

-----------------------------------------------------------------------------
(* What ageing brings about in the end.  The ageing timer re-arms itself   *)
(* in a finally clause, so an ageing round always comes; nothing else is   *)
(* assumed of the network: no packet need ever arrive.                     *)

AgeingRound == \E late \in SUBSET Names, k \in Expiries : Ageing(late, k)

LSpec == Spec /\ WF_vars(AgeingRound)

(* Interests for a pending name refresh its entry, so an entry may live    *)
(* as long as somebody keeps asking.                                       *)
Asked(n) ==
    \/ \E f \in Faces : InterestFromLower(f, n)
    \/ \E a \in AppIds : InterestFromHigher(a, n)

NobodyAsks(n) == <>[][~Asked(n)]_vars

(* No PIT entry stays once nobody asks for its name any more, whatever     *)
(* Nacks come in, whether or not the entry is re-added for the network     *)
(* consumers, and even if it has lost all its requesters.                  *)
EntriesResolved ==
    \A n \in Names : NobodyAsks(n) => (pit[n] # None ~> pit[n] = None)

(* The higher layer is told about every name it has asked for.             *)
AppsTold == \A n \in Names : NobodyAsks(n) => (n \in apps ~> n \notin apps)
=============================================================================

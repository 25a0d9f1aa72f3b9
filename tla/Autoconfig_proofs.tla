--------------------------- MODULE Autoconfig_proofs ---------------------------
(***************************************************************************)
(* Proofs about Autoconfig: about the client, whose layer and timers write *)
(* what it holds at the same time; and about the registrations and routes  *)
(* of the forwarder, if the network loses nothing that repositories send   *)
(* or are sent.                                                            *)
(***************************************************************************)
EXTENDS Autoconfig, SequenceTheorems, TLAPS

(* While a timer is between refusing and clearing, all that waits was      *)
(* asked for in the meantime: the rest has been refused.                   *)
RefusedAll == clearing > 0 => waiting \subseteq overtaken

(* What the layer is about to assign has all that still waits, although a  *)
(* timer may have refused or cleared what it was made from.                *)
RestWaited == rest # None => waiting \subseteq DOMAIN rest \cup overtaken

(* The inductive invariant of the client.                                  *)
IInv == NoneDropped /\ RefusedAll /\ RestWaited

LEMMA InitKeeps == Init => IInv
  BY DEF Init, IInv, NoneDropped, RefusedAll, RestWaited

(* A solicitation holds what was held and what is new; it keeps what is    *)
(* waited for, or refuses all that was held.                               *)
LEMMA SolicitationDoes ==
    ASSUME NEW retry, NEW running, NEW new, Solicitation(retry, running, new)
    PROVE  /\ DOMAIN held' = DOMAIN held \cup new
           /\ \/ waiting' = waiting \cup new /\ UNCHANGED clearing
              \/ waiting' = waiting \ DOMAIN held
  BY DEF Solicitation, Counted

(* An interest that arrives while a timer is clearing is one that may be   *)
(* lost; at any other time it is held until it is answered.                *)
LEMMA AskKeeps ==
    ASSUME IInv, NEW n, Ask(n)
    PROVE  IInv'
<1>1. rest' = None
  BY DEF Ask
<1>2. DOMAIN held' = DOMAIN held \cup {n}
  BY SolicitationDoes DEF Ask
<1>3. waiting' \subseteq waiting \cup {n}
  BY SolicitationDoes DEF Ask
<1>4. waiting \ {n} \subseteq waiting
  OBVIOUS
<1>5. overtaken \ {n} \subseteq overtaken'
  BY DEF Ask
<1>6. NoneDropped'
  BY <1>2, <1>3, <1>5 DEF IInv, NoneDropped
<1>7. RefusedAll'
  <2>1. CASE waiting' = waiting \cup {n} /\ UNCHANGED clearing
    <3>1. CASE clearing > 0
      <4>1. overtaken' = overtaken \cup {n} /\ waiting \subseteq overtaken
        BY <3>1 DEF Ask, IInv, RefusedAll
      <4> QED  BY <2>1, <4>1 DEF RefusedAll
    <3>2. CASE ~(clearing > 0)
      BY <2>1, <3>2 DEF RefusedAll
    <3> QED  BY <3>1, <3>2
  <2>2. CASE waiting' = waiting \ DOMAIN held
    <3>1. n \notin waiting
      BY DEF Ask
    <3> QED  BY <1>5, <2>2, <3>1 DEF IInv, NoneDropped, RefusedAll
  <2> QED  BY <2>1, <2>2, SolicitationDoes DEF Ask
<1> QED  BY <1>1, <1>6, <1>7 DEF IInv, RestWaited

LEMMA TimerKeeps ==
    ASSUME IInv, NEW k, SolicitationTimer(k)
    PROVE  IInv'
<1>1. UNCHANGED <<rest, overtaken>> /\ DOMAIN held' = DOMAIN held
  <2>1. DOMAIN held' = DOMAIN held \cup {}
    BY SolicitationDoes DEF SolicitationTimer
  <2> QED  BY <2>1 DEF SolicitationTimer
<1>2. CASE waiting' = waiting /\ UNCHANGED clearing
  BY <1>1, <1>2 DEF IInv, NoneDropped, RefusedAll, RestWaited
<1>3. CASE waiting' = waiting \ DOMAIN held
  BY <1>1, <1>3 DEF IInv, NoneDropped, RefusedAll, RestWaited
<1>4. (waiting' = waiting \cup {} /\ UNCHANGED clearing) \/ waiting' = waiting \ DOMAIN held
  BY SolicitationDoes DEF SolicitationTimer
<1> QED  BY <1>2, <1>3, <1>4

LEMMA StepKeeps ==
    ASSUME IInv, [Next]_vars
    PROVE  IInv'
<1> USE DEF NoneDropped, RefusedAll, RestWaited
<1>1. CASE UNCHANGED client
  BY <1>1 DEF client, IInv
<1>2. CASE ClearHeld
  <2>1. UNCHANGED <<rest, waiting, overtaken>> /\ waiting \subseteq overtaken
    BY <1>2 DEF ClearHeld, IInv
  <2> QED  BY <2>1 DEF IInv
<1>3. ASSUME NEW p \in packets, ClientHandleForwarders(p)  PROVE IInv'
  <2> DEFINE served == {n \in DOMAIN held : Wants[n] \in p.routes}
  <2>1. waiting' = waiting \ served /\ UNCHANGED <<held, clearing, overtaken>>
    BY <1>3 DEF ClientHandleForwarders
  <2>2. DOMAIN rest' = DOMAIN held \ served
    BY <1>3 DEF ClientHandleForwarders, Restrict
  <2> HIDE DEF served
  <2> QED  BY <2>1, <2>2 DEF IInv
<1>4. CASE KeepRest
  <2>1. /\ rest # None /\ rest' = None /\ DOMAIN held' = DOMAIN rest
        /\ UNCHANGED <<clearing, waiting, overtaken>>
    BY <1>4 DEF KeepRest
  <2> QED  BY <2>1 DEF IInv
<1>5. CASE \E p \in packets : Receive(p)
  <2> PICK p \in packets : Receive(p)
    BY <1>5
  <2>1. CASE ClientHandleForwarders(p)
    BY <2>1, <1>3
  <2>2. CASE HandleAutoconfig(p) \/ HandleServiceRegistration(p) \/ HandleForwarders(p)
             \/ HandleRegistrationReply(p) \/ Discard(p) \/ Lose(p)
    BY <2>2, <1>1 DEF HandleAutoconfig, HandleServiceRegistration, HandleForwarders,
       HandleRegistrationReply, Discard, Lose
  <2> QED  BY <2>1, <2>2 DEF Receive
<1>6. CASE \E r \in Repos : Start(r) \/ Stop(r) \/ \E t \in timers[r] : RenewalDue(r, t)
  BY <1>6, <1>1 DEF Start, Stop, RenewalDue
<1>7. CASE Tick
  BY <1>7, <1>1 DEF Tick
<1>8. CASE UNCHANGED vars
  BY <1>8, <1>1 DEF vars
<1> QED  BY <1>2, <1>4, <1>5, <1>6, <1>7, <1>8, AskKeeps, TimerKeeps DEF Next, ClientTimers

(* An autoconfig client drops no interest without an answer but those that *)
(* arrive while a timer is between refusing and clearing _held_interests:  *)
(* for every number of solicitations and timers, in whatever order timers  *)
(* and layer read and write it, whatever is advertised or lost.            *)
THEOREM NoneDroppedCorrect == Spec => []NoneDropped
<1>1. IInv /\ [Next]_vars => IInv'
  BY StepKeeps
<1>2. IInv => NoneDropped
  BY DEF IInv
<1> QED  BY InitKeeps, <1>1, <1>2, PTL DEF Spec

-----------------------------------------------------------------------------
(* The forwarder and the repositories, when no packet between them is lost. *)

RepliesArrive == \A p : Lossy(p) => p.peer \notin Repos

(* Every repository is started once.                                       *)
StartedOnce == \A r \in Repos : MaxStarts[r] <= 1

(* The types of what the forwarder and the repositories keep and send.     *)
Types ==
    /\ services \subseteq [name : Names, addr : Repos, left : 1 .. Timeout]
    /\ fib \in Seq([name : Names, face : Repos])
    /\ on \in [Repos -> BOOLEAN]
    /\ timers \in [Repos -> SUBSET Timers]
    /\ prefix \in [Repos -> Names \cup {None}]
    /\ \A p \in packets :
           /\ p.type \in {"solicit", "forwarders", "register", "ack", "nack"}
           /\ p.type = "register" =>
                 p.peer \in Repos /\ p.name \in Names /\ p = Register(p.peer, p.name)
           /\ p.type \in {"ack", "nack"} =>
                 p.peer \in Repos /\ p.name \in Names /\ p = Reply(p.peer, p.type, p.name)

(* A name is registered once, and whoever is told so has the whole time of *)
(* the registration before it.                                             *)
Unique == \A s, t \in services : s.name = t.name => s = t

Fresh == \A r \in Repos, n \in Names :
    Reply(r, "ack", n) \in packets => [name |-> n, addr |-> r, left |-> Timeout] \in services

(* The registration of n is r's, and r or a packet will renew it in time.  *)
Kept(r, n) ==
    \E s \in services :
        /\ s.name = n /\ s.addr = r
        /\ \/ Register(r, n) \in packets \/ Reply(r, "ack", n) \in packets
           \/ \E t \in timers[r] : t.name = n /\ t.left < s.left

PrefixKept == \A r \in Repos : prefix[r] # None => Kept(r, prefix[r])

OffIdle == \A r \in Repos : ~on[r] => timers[r] = {} /\ prefix[r] = None

RegInv == Types /\ Unique /\ Fresh /\ PrefixKept /\ OffIdle

(* A repository that has sent anything will not start again.               *)
Used ==
    /\ starts \in [Repos -> 0 .. 1]
    /\ \A r \in Repos : on[r] => starts[r] = 0
    /\ \A r \in Repos, n \in Names : Register(r, n) \in packets => starts[r] = 0

(* An entry is its repository's for good: a running repository keeps the   *)
(* registration; one that has stopped does not register again, but for a   *)
(* renewal on its way, which arrives while the registration lasts.         *)
EntryKept(e) ==
    \/ on[e.face] /\ Kept(e.face, e.name)
    \/ /\ ~on[e.face] /\ starts[e.face] = 0
       /\ Register(e.face, e.name) \in packets =>
              \E s \in services : s.name = e.name /\ s.addr = e.face

EntriesKept == \A k \in DOMAIN fib : EntryKept(fib[k])

RouteInv == RegInv /\ Used /\ EntriesKept /\ RouteToOwner

-----------------------------------------------------------------------------
(* What a packet is, is told by its type.                                  *)
LEMMA PacketTypes ==
    /\ \A from : Solicit(from).type = "solicit" /\ Solicit(from).peer = from
    /\ \A to : Forwarders(to).type = "forwarders" /\ Forwarders(to).peer = to
    /\ \A from, name : /\ Register(from, name).type = "register"
                       /\ Register(from, name).peer = from /\ Register(from, name).name = name
    /\ \A to, type, name : /\ Reply(to, type, name).type = type
                           /\ Reply(to, type, name).peer = to /\ Reply(to, type, name).name = name
BY DEF Solicit, Forwarders, Register, Reply

(* A step that takes neither a registration nor a timer nor a packet on    *)
(* the way to either from a repository keeps what will renew its prefix.   *)
LEMMA KeptStays ==
    ASSUME NEW r, NEW n, Kept(r, n), services \subseteq services', timers[r] \subseteq timers'[r],
           Register(r, n) \in packets => Register(r, n) \in packets',
           Reply(r, "ack", n) \in packets => Reply(r, "ack", n) \in packets'
    PROVE  Kept(r, n)'
BY DEF Kept

(* What is kept by a repository that goes on running stays kept.           *)
RegistrationsStay ==
    \A x \in Repos : \A y : on[x] /\ on'[x] /\ Kept(x, y) => Kept(x, y)'

LEMMA PrefixStays ==
    ASSUME RegInv, RegistrationsStay, OffIdle', on' \in [Repos -> BOOLEAN],
           \A x \in Repos : \A y : y = prefix'[x] /\ y # None =>
               y = prefix[x] \/ Kept(x, y)'
    PROVE  PrefixKept'
<1> SUFFICES ASSUME NEW x \in Repos, NEW y, y = prefix'[x], y # None PROVE Kept(x, y)'
  BY DEF PrefixKept
<1>1. on'[x]
  BY DEF OffIdle
<1>2. CASE y = prefix[x]
  <2>1. on[x] /\ Kept(x, y)
    BY <1>2 DEF RegInv, PrefixKept, OffIdle, Types
  <2> QED  BY <1>1, <2>1 DEF RegistrationsStay
<1> QED  BY <1>2

LEMMA ServiceNames ==
    ASSUME AutoconfigAssumption, NEW r \in Repos, NEW x \in LocalPrefixes \cup RoutedPrefixes
    PROVE  <<x, Service[r]>> \in Names
BY DEF Names, Range, AutoconfigAssumption

(* A step of the client, or one that only adds and removes packets that    *)
(* are no part of a registration.                                          *)
LEMMA OtherPackets ==
    ASSUME RegInv, UNCHANGED <<services, fib, on, timers, prefix>>,
           \A q \in packets : q.type \in {"register", "ack"} =>
               q \in packets' \/ (q.type = "ack" /\ ~on[q.peer]),
           \A q \in packets' : q \in packets \/ q.type \in {"solicit", "forwarders"}
                \/ \E r \in Repos, n \in Names : q = Register(r, n)
    PROVE  RegInv' /\ RegistrationsStay
<1>1. Types'
  BY PacketTypes DEF RegInv, Types
<1>2. Unique'
  BY DEF RegInv, Unique
<1>3. Fresh'
  <2> SUFFICES ASSUME NEW r \in Repos, NEW n \in Names, Reply(r, "ack", n) \in packets'
               PROVE  [name |-> n, addr |-> r, left |-> Timeout] \in services'
    BY DEF Fresh
  <2>1. Reply(r, "ack", n) \in packets
    BY PacketTypes
  <2> QED  BY <2>1 DEF RegInv, Fresh
<1>4. OffIdle'
  BY DEF RegInv, OffIdle
<1>5. RegistrationsStay
  <2> SUFFICES ASSUME NEW x \in Repos, NEW y, on[x], Kept(x, y) PROVE Kept(x, y)'
    BY DEF RegistrationsStay
  <2>1. Register(x, y) \in packets => Register(x, y) \in packets'
    BY PacketTypes
  <2>2. Reply(x, "ack", y) \in packets => Reply(x, "ack", y) \in packets'
    BY PacketTypes
  <2> QED  BY <2>1, <2>2, KeptStays
<1>6. PrefixKept'
  BY <1>4, <1>5, PrefixStays DEF RegInv, Types
<1> QED  BY <1>1, <1>2, <1>3, <1>4, <1>5, <1>6 DEF RegInv

(* The forwarder renews, refuses or makes a registration: each of the      *)
(* three, and what it says about it, keeps the invariant.                  *)
LEMMA RegistrationKeeps ==
    ASSUME AutoconfigAssumption, RegInv, NEW p \in packets, HandleServiceRegistration(p)
    PROVE  RegInv' /\ RegistrationsStay
<1> DEFINE r == p.peer  n == p.name
           new == [name |-> n, addr |-> r, left |-> Timeout]
<1>1. r \in Repos /\ n \in Names /\ p = Register(r, n) /\ Timeout \in 1 .. Timeout
  BY DEF HandleServiceRegistration, RegInv, Types, AutoconfigAssumption
<1>2. UNCHANGED <<on, timers, prefix>> /\ packets' = (packets \ {p}) \cup Answered(p)
  BY DEF HandleServiceRegistration, repositories
<1>3. /\ \A q \in packets : q # p => q \in packets'
      /\ \A q \in packets' : q \in packets \/ q \in {Reply(r, "nack", n), Reply(r, "ack", n)}
  BY <1>2 DEF Answered
<1> HIDE DEF new
(* Nothing is registered: n is not the sender's, and it is not told so.    *)
<1>4. ASSUME UNCHANGED <<services, fib>>, \A s \in Named(n) : s.addr # r,
             \A q \in packets' : q \in packets \/ q = Reply(r, "nack", n)
      PROVE  RegInv' /\ RegistrationsStay
  <2>1. Types'
    BY <1>1, <1>2, <1>4, PacketTypes DEF RegInv, Types
  <2>2. Unique' /\ OffIdle'
    BY <1>2, <1>4 DEF RegInv, Unique, OffIdle
  <2>3. Fresh'
    <3>1. \A x, y : Reply(x, "ack", y) # Reply(r, "nack", n)
      BY PacketTypes
    <3> QED  BY <1>4, <3>1 DEF RegInv, Fresh
  <2>4. RegistrationsStay
    <3> SUFFICES ASSUME NEW x \in Repos, NEW y, Kept(x, y) PROVE Kept(x, y)'
      BY DEF RegistrationsStay
    <3>1. <<x, y>> # <<r, n>>
      BY <1>4 DEF Kept, Named
    <3>2. Register(x, y) # p /\ Reply(x, "ack", y) # p
      BY <1>1, <3>1, PacketTypes
    <3> QED  BY <1>2, <1>3, <1>4, <3>2, KeptStays
  <2>5. PrefixKept'
    BY <1>2, <2>2, <2>4, PrefixStays DEF RegInv, Types
  <2> QED  BY <2>1, <2>2, <2>3, <2>4, <2>5 DEF RegInv
(* The registration is new, or has all of its time again.                  *)
<1>5. ASSUME services' = (services \ Named(n)) \cup {new},
             \A s \in Named(n) : s.addr = r, fib' \in Seq([name : Names, face : Repos]),
             Reply(r, "ack", n) \in packets', UNCHANGED up
      PROVE  RegInv' /\ RegistrationsStay
  <2>1. \A s \in services : s.name # n => s \in services'
    BY <1>5 DEF Named
  <2>2. new \in services' /\ new.name = n /\ new.addr = r /\ new.left = Timeout
    BY <1>5 DEF new
  <2>3. Types'
    <3>1. new \in [name : Names, addr : Repos, left : 1 .. Timeout]
      BY <1>1 DEF new
    <3>2. services' \subseteq [name : Names, addr : Repos, left : 1 .. Timeout]
      BY <1>5, <3>1 DEF RegInv, Types
    <3>3. /\ on' \in [Repos -> BOOLEAN] /\ timers' \in [Repos -> SUBSET Timers]
          /\ prefix' \in [Repos -> Names \cup {None}]
      BY <1>2 DEF RegInv, Types
    <3>4. \A q \in packets' :
              /\ q.type \in {"solicit", "forwarders", "register", "ack", "nack"}
              /\ q.type = "register" =>
                    q.peer \in Repos /\ q.name \in Names /\ q = Register(q.peer, q.name)
              /\ q.type \in {"ack", "nack"} =>
                    q.peer \in Repos /\ q.name \in Names /\ q = Reply(q.peer, q.type, q.name)
      BY <1>1, <1>3, PacketTypes DEF RegInv, Types
    <3> QED  BY <1>5, <3>2, <3>3, <3>4 DEF Types
  <2>4. Unique'
    <3>1. \A s \in services' : s.name = n => s = new
      BY <1>5 DEF Named
    <3>2. \A s \in services' : s.name # n => s \in services
      BY <1>5, <2>2
    <3> QED  BY <3>1, <3>2 DEF RegInv, Unique
  <2>5. Fresh'
    <3> SUFFICES ASSUME NEW x \in Repos, NEW y \in Names, Reply(x, "ack", y) \in packets'
                 PROVE  [name |-> y, addr |-> x, left |-> Timeout] \in services'
      BY DEF Fresh
    <3>1. CASE x = r /\ y = n
      BY <2>2, <3>1 DEF new
    <3>2. CASE <<x, y>> # <<r, n>>
      <4>1. Reply(x, "ack", y) \in packets
        BY <1>3, <3>2, PacketTypes
      <4> DEFINE s == [name |-> y, addr |-> x, left |-> Timeout]
      <4>2. s \in services /\ s.name = y /\ s.addr = x
        BY <4>1 DEF RegInv, Fresh
      <4> HIDE DEF s
      <4>3. y # n
        BY <1>5, <3>2, <4>2 DEF Named
      <4> QED  BY <2>1, <4>2, <4>3 DEF s
    <3> QED  BY <3>1, <3>2
  <2>6. RegistrationsStay
    <3> SUFFICES ASSUME NEW x \in Repos, NEW y, Kept(x, y) PROVE Kept(x, y)'
      BY DEF RegistrationsStay
    <3>1. CASE x = r /\ y = n
      BY <1>5, <2>2, <3>1 DEF Kept
    <3>2. CASE <<x, y>> # <<r, n>>
      <4>1. Register(x, y) # p /\ Reply(x, "ack", y) # p
        BY <1>1, <3>2, PacketTypes
      <4>2. PICK s \in services : s.name = y /\ s.addr = x /\ (\/ Register(x, y) \in packets
                \/ Reply(x, "ack", y) \in packets \/ \E t \in timers[x] : t.name = y /\ t.left < s.left)
        BY DEF Kept
      <4>3. s \in services'
        BY <1>5, <2>1, <3>2, <4>2 DEF Named
      <4> QED  BY <1>2, <1>3, <4>1, <4>2, <4>3 DEF Kept
    <3> QED  BY <3>1, <3>2
  <2>7. OffIdle'
    BY <1>2 DEF RegInv, OffIdle
  <2>8. PrefixKept'
    BY <1>2, <2>6, <2>7, PrefixStays DEF RegInv, Types
  <2> QED  BY <2>3, <2>4, <2>5, <2>6, <2>7, <2>8 DEF RegInv
<1>6. CASE Refused(p) /\ UNCHANGED forwarder
  <2>1. \A s \in Named(n) : s.addr # r
    BY <1>6 DEF Refused, Named, RegInv, Unique
  <2>2. \A q \in packets' : q \in packets \/ q = Reply(r, "nack", n)
    BY <1>2, <1>6 DEF Answered
  <2> QED  BY <1>4, <1>6, <2>1, <2>2 DEF forwarder
<1>7. CASE ~Refused(p) /\ Named(n) # {} /\ Renew(p)
  <2>1. \A s \in Named(n) : s.name = n /\ s.addr = r
    BY <1>7 DEF Refused, Named
  <2>2. \A s \in Named(n) : [s EXCEPT !.left = Timeout] = new
    BY <2>1 DEF Named, RegInv, Types, new
  <2>3. {[s EXCEPT !.left = Timeout] : s \in Named(n)} = {new}
    BY <1>7, <2>2
  <2>4. services' = (services \ Named(n)) \cup {new} /\ UNCHANGED <<fib, up>>
    BY <1>7, <2>3 DEF Renew
  <2>5. up /\ Reply(r, "ack", n) \in packets'
    BY <1>2, <1>7, <2>4 DEF HandleServiceRegistration, Answered
  <2>6. fib \in Seq([name : Names, face : Repos])
    BY DEF RegInv, Types
  <2> QED  BY <1>5, <2>1, <2>4, <2>5, <2>6
<1>8. CASE Named(n) = {} /\ NewService(p)
  <2>1. ~Refused(p)
    BY <1>8 DEF Refused
  <2>2. CASE ~up'
    BY <1>2, <1>4, <1>8, <2>1, <2>2 DEF NewService, Answered
  <2>3. CASE up'
    <3>1. up /\ Reply(r, "ack", n) \in packets'
      BY <1>2, <2>1, <2>3 DEF HandleServiceRegistration, Answered
    <3>2. services' = (services \ Named(n)) \cup {new}
      BY <1>8, <2>3 DEF NewService, new
    <3>3. fib' \in Seq([name : Names, face : Repos])
      <4>1. fib' = fib \/ fib' = <<[name |-> n, face |-> r]>> \o fib
        BY <1>8, <2>3 DEF NewService, AddFib
      <4>2. fib \in Seq([name : Names, face : Repos])
        BY DEF RegInv, Types
      <4>3. <<[name |-> n, face |-> r]>> \in Seq([name : Names, face : Repos])
        BY <1>1
      <4>4. <<[name |-> n, face |-> r]>> \o fib \in Seq([name : Names, face : Repos])
        BY <4>2, <4>3, ConcatProperties, Zenon
      <4> QED  BY <4>1, <4>2, <4>4
    <3>4. up' = up
      BY <1>8, <2>3, <3>1 DEF NewService
    <3> QED  BY <1>5, <1>8, <3>1, <3>2, <3>3, <3>4
  <2> QED  BY <2>2, <2>3
<1> QED  BY <1>6, <1>7, <1>8 DEF HandleServiceRegistration

(* A repository that is told of its registration has half of the time of   *)
(* the registration until it renews it.                                    *)
LEMMA ReplyKeeps ==
    ASSUME AutoconfigAssumption, RegInv, NEW p \in packets, HandleRegistrationReply(p)
    PROVE  RegInv' /\ RegistrationsStay
<1> DEFINE r == p.peer  n == p.name
           timer == [name |-> n, left |-> RenewalTime]
<1>1. /\ r \in Repos /\ n \in Names /\ p = Reply(r, p.type, n) /\ on[r]
      /\ packets' = packets \ {p} /\ UNCHANGED <<services, fib, on>>
  BY DEF HandleRegistrationReply, RegInv, Types, forwarder
<1>2. CASE p.type = "nack"
  <2>1. UNCHANGED <<timers, prefix>>
    BY <1>2 DEF HandleRegistrationReply
  <2>2. \A q \in packets : q.type \in {"register", "ack"} =>
            q \in packets' \/ (q.type = "ack" /\ ~on[q.peer])
    BY <1>1, <1>2
  <2>3. \A q \in packets' : q \in packets \/ q.type \in {"solicit", "forwarders"}
            \/ \E x \in Repos, y \in Names : q = Register(x, y)
    BY <1>1
  <2>4. UNCHANGED <<services, fib, on, timers, prefix>>
    BY <1>1, <2>1
  <2> QED  BY <2>2, <2>3, <2>4, OtherPackets
<1>3. CASE p.type = "ack"
  <2>1. /\ prefix' = [prefix EXCEPT ![r] = n]
        /\ timers' = [timers EXCEPT ![r] = @ \cup {timer}]
    BY <1>3 DEF HandleRegistrationReply
  <2>2. RenewalTime \in 0 .. Timeout /\ RenewalTime < Timeout
    BY DEF AutoconfigAssumption, RenewalTime
  <2>3. timer \in Timers /\ timer.name = n /\ timer.left = RenewalTime
    BY <1>1, <2>2 DEF Timers
  <2> HIDE DEF timer
  <2>4. /\ \A x \in Repos : timers[x] \subseteq timers'[x]
        /\ timer \in timers'[r]
        /\ \A x \in Repos : x # r => timers'[x] = timers[x] /\ prefix'[x] = prefix[x]
        /\ prefix'[r] = n
    BY <1>1, <2>1 DEF RegInv, Types
  <2>5. Types'
    <3>1. timers' \in [Repos -> SUBSET Timers] /\ prefix' \in [Repos -> Names \cup {None}]
      BY <1>1, <2>1, <2>3 DEF RegInv, Types
    <3> QED  BY <1>1, <3>1 DEF RegInv, Types
  <2>6. Unique' /\ Fresh' /\ OffIdle'
    BY <1>1, <2>4 DEF RegInv, Unique, Fresh, OffIdle
  <2>7. [name |-> n, addr |-> r, left |-> Timeout] \in services
    BY <1>1, <1>3 DEF RegInv, Fresh
  <2>8. Kept(r, n)'
    BY <1>1, <2>2, <2>3, <2>4, <2>7 DEF Kept
  <2>9. RegistrationsStay
    <3> SUFFICES ASSUME NEW x \in Repos, NEW y, Kept(x, y) PROVE Kept(x, y)'
      BY DEF RegistrationsStay
    <3>1. CASE x = r /\ y = n
      BY <2>8, <3>1
    <3>2. CASE <<x, y>> # <<r, n>>
      <4>1. Register(x, y) # p /\ Reply(x, "ack", y) # p
        BY <1>1, <1>3, <3>2, PacketTypes
      <4> QED  BY <1>1, <2>4, <4>1, KeptStays
    <3> QED  BY <3>1, <3>2
  <2>10. PrefixKept'
    BY <1>1, <2>4, <2>6, <2>8, <2>9, PrefixStays DEF RegInv, Types
  <2> QED  BY <2>5, <2>6, <2>9, <2>10 DEF RegInv
<1> QED  BY <1>2, <1>3 DEF HandleRegistrationReply

(* A timer that runs out leaves a renewal in its place.                    *)
LEMMA RenewalKeeps ==
    ASSUME RegInv, NEW r \in Repos, NEW t \in timers[r], RenewalDue(r, t)
    PROVE  RegInv' /\ RegistrationsStay
<1>1. /\ UNCHANGED <<services, fib, on, prefix>> /\ t.name \in Names
      /\ timers' = [timers EXCEPT ![r] = @ \ {t}]
      /\ packets' = packets \cup {Register(r, t.name)}
  BY DEF RenewalDue, forwarder, RegInv, Types, Timers
<1>2. /\ timers'[r] = timers[r] \ {t}
      /\ \A x \in Repos : x # r => timers'[x] = timers[x]
  BY <1>1 DEF RegInv, Types
<1>3. Types'
  <2>1. timers' \in [Repos -> SUBSET Timers]
    BY <1>1 DEF RegInv, Types
  <2> QED  BY <1>1, <2>1, PacketTypes DEF RegInv, Types
<1>4. Unique' /\ Fresh'
  BY <1>1, PacketTypes DEF RegInv, Unique, Fresh
<1>5. OffIdle'
  BY <1>1, <1>2 DEF RegInv, OffIdle
<1>6. RegistrationsStay
  <2> SUFFICES ASSUME NEW x \in Repos, NEW y, Kept(x, y) PROVE Kept(x, y)'
    BY DEF RegistrationsStay
  <2>1. CASE x = r /\ y = t.name
    BY <1>1, <2>1 DEF Kept
  <2>2. CASE x # r \/ y # t.name
    BY <1>1, <1>2, <2>2 DEF Kept
  <2> QED  BY <2>1, <2>2
<1>7. PrefixKept'
  BY <1>1, <1>5, <1>6, PrefixStays DEF RegInv, Types
<1> QED  BY <1>3, <1>4, <1>5, <1>6, <1>7 DEF RegInv

LEMMA StopKeeps ==
    ASSUME RegInv, NEW r \in Repos, Stop(r)
    PROVE  RegInv' /\ RegistrationsStay
<1>1. /\ UNCHANGED <<services, fib, packets>>
      /\ on' = [on EXCEPT ![r] = FALSE] /\ prefix' = [prefix EXCEPT ![r] = None]
      /\ timers' = [timers EXCEPT ![r] = {}]
  BY DEF Stop, forwarder
<1>2. /\ ~on'[r] /\ prefix'[r] = None /\ timers'[r] = {}
      /\ \A x \in Repos : x # r =>
             on'[x] = on[x] /\ prefix'[x] = prefix[x] /\ timers'[x] = timers[x]
  BY <1>1 DEF RegInv, Types
<1>3. Types'
  <2>1. /\ on' \in [Repos -> BOOLEAN] /\ prefix' \in [Repos -> Names \cup {None}]
        /\ timers' \in [Repos -> SUBSET Timers]
    BY <1>1 DEF RegInv, Types
  <2> QED  BY <1>1, <2>1 DEF RegInv, Types
<1>4. Unique' /\ Fresh' /\ OffIdle'
  BY <1>1, <1>2 DEF RegInv, Unique, Fresh, OffIdle
<1>5. RegistrationsStay
  BY <1>1, <1>2 DEF RegistrationsStay, Kept
<1>6. PrefixKept'
  BY <1>1, <1>2, <1>3, <1>4, <1>5, PrefixStays DEF Types
<1> QED  BY <1>3, <1>4, <1>5, <1>6 DEF RegInv

(* Time passes for a registration and for the timer that renews it; the    *)
(* timer stops the clock when it runs out, and it is ahead.                *)
LEMMA TickKeeps ==
    ASSUME AutoconfigAssumption, RegInv, Tick
    PROVE  RegInv' /\ RegistrationsStay
<1>1. /\ packets = {} /\ packets' = {} /\ UNCHANGED <<fib, on, prefix>>
      /\ services' = {[s EXCEPT !.left = @ - 1] : s \in {s \in services : s.left > 1}}
      /\ \A r \in Repos : timers'[r] = {[t EXCEPT !.left = @ - 1] : t \in timers[r]}
      /\ \A r \in Repos : \A t \in timers[r] : t.left > 0
      /\ DOMAIN timers' = Repos
  BY DEF Tick
<1>2. \A s \in services' : \E o \in services :
          o.left > 1 /\ s = [name |-> o.name, addr |-> o.addr, left |-> o.left - 1]
  BY <1>1 DEF RegInv, Types
<1>3. \A o \in services : o.left > 1 =>
          [name |-> o.name, addr |-> o.addr, left |-> o.left - 1] \in services'
  <2> SUFFICES ASSUME NEW o \in services, o.left > 1
               PROVE  [name |-> o.name, addr |-> o.addr, left |-> o.left - 1] \in services'
    OBVIOUS
  <2>0. o \in [name : Names, addr : Repos, left : 1 .. Timeout]
    BY DEF RegInv, Types
  <2>1. [o EXCEPT !.left = @ - 1] = [name |-> o.name, addr |-> o.addr, left |-> o.left - 1]
    BY <2>0
  <2>2. [o EXCEPT !.left = @ - 1] \in services'
    BY <1>1
  <2> QED  BY <2>1, <2>2
<1>4. ASSUME NEW r \in Repos, NEW t \in timers[r]
      PROVE  /\ [name |-> t.name, left |-> t.left - 1] \in timers'[r]
             /\ t.left \in 1 .. Timeout /\ t.name \in Names
  <2>1. t \in [name : Names, left : 0 .. Timeout]
    BY DEF RegInv, Types, Timers
  <2>2. [t EXCEPT !.left = @ - 1] = [name |-> t.name, left |-> t.left - 1]
    BY <2>1
  <2>3. [t EXCEPT !.left = @ - 1] \in timers'[r]
    BY <1>1
  <2>4. t.left \in 1 .. Timeout
    BY <1>1, <2>1 DEF AutoconfigAssumption
  <2> QED  BY <2>1, <2>2, <2>3, <2>4
<1>5. Types'
  <2>1. services' \subseteq [name : Names, addr : Repos, left : 1 .. Timeout]
    BY <1>2 DEF RegInv, Types, AutoconfigAssumption
  <2>2. \A r \in Repos : timers'[r] \subseteq Timers
    <3> SUFFICES ASSUME NEW r \in Repos, NEW u \in timers'[r] PROVE u \in Timers
      OBVIOUS
    <3>1. PICK t \in timers[r] : u = [t EXCEPT !.left = @ - 1]
      BY <1>1
    <3>2. t \in [name : Names, left : 0 .. Timeout]
      BY DEF RegInv, Types, Timers
    <3>3. u = [name |-> t.name, left |-> t.left - 1]
      BY <3>1, <3>2
    <3> QED  BY <1>4, <3>3 DEF Timers, AutoconfigAssumption
  <2>3. timers' = [r \in Repos |-> timers'[r]]
    BY DEF Tick
  <2> QED  BY <1>1, <2>1, <2>2, <2>3 DEF RegInv, Types
<1>6. Unique'
  BY <1>2 DEF RegInv, Unique
<1>7. Fresh'
  BY <1>1 DEF Fresh
<1>8. OffIdle'
  BY <1>1 DEF RegInv, OffIdle
<1>9. RegistrationsStay
  <2> SUFFICES ASSUME NEW x \in Repos, NEW y, Kept(x, y) PROVE Kept(x, y)'
    BY DEF RegistrationsStay
  <2>2. PICK s \in services : s.name = y /\ s.addr = x
                            /\ \E t \in timers[x] : t.name = y /\ t.left < s.left
    BY <1>1 DEF Kept
  <2>3. PICK t \in timers[x] : t.name = y /\ t.left < s.left
    BY <2>2
  <2> DEFINE s1 == [name |-> s.name, addr |-> s.addr, left |-> s.left - 1]
             t1 == [name |-> t.name, left |-> t.left - 1]
  <2>4. s.left \in 1 .. Timeout /\ t.left \in 1 .. Timeout
    BY <1>4 DEF RegInv, Types
  <2>7. s.left > 1 /\ s.left - 1 > t.left - 1
    BY <2>3, <2>4 DEF AutoconfigAssumption
  <2>5. s1 \in services' /\ t1 \in timers'[x]
    BY <1>3, <1>4, <2>7
  <2>6. s1.name = y /\ s1.addr = x /\ t1.name = y /\ t1.left < s1.left
    BY <2>2, <2>3, <2>7
  <2> QED  BY <2>5, <2>6 DEF Kept
<1>10. PrefixKept'
  BY <1>1, <1>5, <1>8, <1>9, PrefixStays DEF Types
<1> QED  BY <1>5, <1>6, <1>7, <1>8, <1>9, <1>10 DEF RegInv

LEMMA StartKeeps ==
    ASSUME RegInv, NEW r \in Repos, Start(r)
    PROVE  RegInv' /\ RegistrationsStay
<1>1. /\ UNCHANGED <<services, fib, timers, prefix>> /\ ~on[r]
      /\ on' = [on EXCEPT ![r] = TRUE] /\ packets' = packets \cup {Solicit(r)}
  BY DEF Start, forwarder
<1>2. Types'
  <2>1. on' \in [Repos -> BOOLEAN]
    BY <1>1 DEF RegInv, Types
  <2> QED  BY <1>1, <2>1, PacketTypes DEF RegInv, Types
<1>3. OffIdle'
  BY <1>1 DEF RegInv, OffIdle, Types
<1>4. Unique' /\ Fresh' /\ RegistrationsStay
  BY <1>1, PacketTypes DEF RegInv, Unique, Fresh, RegistrationsStay, Kept
<1>5. PrefixKept'
  BY <1>1, <1>2, <1>3, <1>4, PrefixStays DEF Types
<1> QED  BY <1>2, <1>3, <1>4, <1>5 DEF RegInv

LEMMA HandleForwardersKeeps ==
    ASSUME AutoconfigAssumption, RegInv, NEW p \in packets, HandleForwarders(p)
    PROVE  RegInv' /\ RegistrationsStay
<1> DEFINE prefixes == LocalPrefixes \cup (IF Global THEN RoutedPrefixes ELSE {})
<1>1. /\ p.type = "forwarders" /\ p.peer \in Repos
      /\ UNCHANGED <<services, fib, on, timers, prefix>>
      /\ packets' = (packets \ {p}) \cup {Register(p.peer, <<x, Service[p.peer]>>) : x \in prefixes}
  BY DEF HandleForwarders, forwarder
<1>2. \A x \in prefixes : <<x, Service[p.peer]>> \in Names
  BY <1>1, ServiceNames
<1> HIDE DEF prefixes
<1>3. \A q \in packets' : q \in packets \/ q.type \in {"solicit", "forwarders"}
          \/ \E x \in Repos, y \in Names : q = Register(x, y)
  BY <1>1, <1>2
<1>4. \A q \in packets : q.type \in {"register", "ack"} =>
          q \in packets' \/ (q.type = "ack" /\ ~on[q.peer])
  BY <1>1
<1> QED  BY <1>1, <1>3, <1>4, OtherPackets

(* Everything else: solicitations and what answers them, the client, and   *)
(* the packets a network loses.                                            *)
LEMMA OthersKeep ==
    ASSUME RepliesArrive, RegInv,
           \/ ClientTimers \/ KeepRest \/ \E n \in DOMAIN Wants : Ask(n)
           \/ \E p \in packets : \/ HandleAutoconfig(p) \/ ClientHandleForwarders(p)
                                 \/ Discard(p) \/ Lose(p)
           \/ UNCHANGED vars
    PROVE  RegInv' /\ RegistrationsStay
<1>1. UNCHANGED <<services, fib, on, timers, prefix>>
  BY DEF ClientTimers, ClearHeld, KeepRest, SolicitationTimer, Ask, HandleAutoconfig, ClientHandleForwarders,
         Discard, Lose, vars, forwarder, repositories
<1>2. ASSUME \E from : packets' = packets \cup {Solicit(from)}  PROVE RegInv' /\ RegistrationsStay
  BY <1>1, <1>2, OtherPackets, PacketTypes
<1>3. ASSUME UNCHANGED packets  PROVE RegInv' /\ RegistrationsStay
  BY <1>1, <1>3, OtherPackets
<1>4. ASSUME NEW p \in packets, HandleAutoconfig(p)  PROVE RegInv' /\ RegistrationsStay
  BY <1>1, <1>4, OtherPackets, PacketTypes DEF HandleAutoconfig
<1>5. ASSUME NEW p \in packets, packets' = packets \ {p},
             p.type \in {"register", "ack"} => p.type = "ack" /\ ~on[p.peer]
      PROVE  RegInv' /\ RegistrationsStay
  BY <1>1, <1>5, OtherPackets
<1>6. CASE ClientTimers \/ KeepRest
  <2>1. CASE ClearHeld \/ KeepRest
    BY <1>3, <2>1 DEF ClearHeld, KeepRest
  <2>2. ASSUME NEW k \in DOMAIN solicitations, SolicitationTimer(k)  PROVE RegInv' /\ RegistrationsStay
    BY <1>2, <2>2 DEF SolicitationTimer, Solicitation
  <2> QED  BY <1>6, <2>1, <2>2 DEF ClientTimers
<1>7. CASE \E n \in DOMAIN Wants : Ask(n)
  BY <1>2, <1>7 DEF Ask, Solicitation
<1>8. ASSUME NEW p \in packets, ClientHandleForwarders(p) \/ Discard(p) \/ Lose(p)  PROVE RegInv' /\ RegistrationsStay
  <2>1. packets' = packets \ {p}
    BY <1>8 DEF ClientHandleForwarders, Discard, Lose
  <2>2. p.type \in {"register", "ack"} => p.peer \in Repos
    BY DEF RegInv, Types
  <2>3. p.type \in {"register", "ack"} => p.type = "ack" /\ ~on[p.peer]
    BY <1>8, <2>2 DEF ClientHandleForwarders, Discard, Lose, RepliesArrive
  <2> QED  BY <1>5, <2>1, <2>3
<1>9. CASE UNCHANGED vars
  BY <1>3, <1>9 DEF vars
<1> QED  BY <1>4, <1>6, <1>7, <1>8, <1>9

LEMMA RegStep ==
    ASSUME AutoconfigAssumption, RepliesArrive, RegInv, [Next]_vars
    PROVE  RegInv' /\ RegistrationsStay
<1>1. CASE \E p \in packets : Receive(p)
  <2> PICK p \in packets : Receive(p)
    BY <1>1
  <2> QED  BY RegistrationKeeps, ReplyKeeps, HandleForwardersKeeps, OthersKeep DEF Receive
<1>2. CASE \E r \in Repos : Start(r) \/ Stop(r) \/ \E t \in timers[r] : RenewalDue(r, t)
  BY <1>2, StartKeeps, StopKeeps, RenewalKeeps
<1>3. CASE Tick
  BY <1>3, TickKeeps
<1> QED  BY <1>1, <1>2, <1>3, OthersKeep DEF Next

LEMMA RegInit == AutoconfigAssumption /\ Init => RegInv
<1> SUFFICES ASSUME AutoconfigAssumption, Init PROVE RegInv
  OBVIOUS
<1>1. Types /\ Unique /\ Fresh
  BY DEF Init, Types, Unique, Fresh
<1>2. PrefixKept /\ OffIdle
  BY DEF Init, PrefixKept, OffIdle
<1> QED  BY <1>1, <1>2 DEF RegInv

(* A running repository that has been told its prefix stays registered for *)
(* it, however often any of them stops and comes back, if no packet between *)
(* them and the forwarder is lost: the timer (timeout / 2 in               *)
(* _handle_service_registration) runs out before the registration does.    *)
THEOREM StillRegisteredCorrect ==
    ASSUME RepliesArrive
    PROVE  Spec => []StillRegistered
<1>1. AutoconfigAssumption
  BY AutoconfigAssumption
<1>2. Init => RegInv
  BY <1>1, RegInit
<1>3. RegInv /\ [Next]_vars => RegInv'
  BY <1>1, RegStep
<1>4. RegInv => StillRegistered
  BY DEF RegInv, PrefixKept, Kept, StillRegistered
<1> QED  BY <1>2, <1>3, <1>4, PTL DEF Spec

-----------------------------------------------------------------------------
(* The entries of the forwarding table.  What no step takes from the       *)
(* reasons an entry is kept for:                                           *)
Onward ==
    /\ starts' \in [Repos -> 0 .. 1]
    /\ \A x \in Repos : starts[x] = 0 => starts'[x] = 0
    /\ \A x \in Repos : on'[x] => on[x] \/ (starts[x] = 1 /\ starts'[x] = 0)
    /\ \A x \in Repos : on[x] /\ ~on'[x] => services' = services
    /\ \A x \in Repos : \A y : Register(x, y) \in packets' => Register(x, y) \in packets \/ on[x]
    /\ packets # {} => \A s \in services : \E t \in services' : t.name = s.name /\ t.addr = s.addr

(* What a step does to the table: nothing, but for a new registration.     *)
NoNewEntry ==
    /\ fib' = fib
    /\ \A t \in services' : \E s \in services : t.name = s.name /\ t.addr = s.addr

NewEntry(r, n) ==
    /\ r \in Repos /\ n \in Names /\ Named(n) = {}
    /\ Register(r, n) \in packets /\ Register(r, n) \notin packets'
    /\ Reply(r, "ack", n) \in packets' /\ UNCHANGED <<on, starts>>
    /\ services' = services \cup {[name |-> n, addr |-> r, left |-> Timeout]}
    /\ fib' = AddFib(fib, [name |-> n, face |-> r])

TableStep == NoNewEntry \/ \E r, n : NewEntry(r, n)

LEMMA TableQuiet ==
    ASSUME Used, UNCHANGED <<services, fib, on, starts>>,
           \A x \in Repos : \A y : Register(x, y) \in packets' => Register(x, y) \in packets \/ on[x]
    PROVE  Onward /\ NoNewEntry
BY DEF Used, Onward, NoNewEntry

LEMMA RegistrationOnTable ==
    ASSUME RegInv, Used, NEW p \in packets, HandleServiceRegistration(p)
    PROVE  Onward /\ TableStep
<1> DEFINE r == p.peer  n == p.name
<1>1. /\ r \in Repos /\ n \in Names /\ p = Register(r, n)
      /\ UNCHANGED <<on, starts>> /\ packets' = (packets \ {p}) \cup Answered(p)
      /\ Answered(p) \subseteq {Reply(r, "nack", n), Reply(r, "ack", n)}
  BY DEF HandleServiceRegistration, RegInv, Types, repositories, counters, Answered
<1>2. \A x \in Repos : \A y : Register(x, y) \in packets' => Register(x, y) \in packets
  BY <1>1, PacketTypes
<1>3. ASSUME UNCHANGED <<services, fib>>  PROVE Onward /\ TableStep
  BY <1>1, <1>2, <1>3, TableQuiet DEF TableStep
<1>4. CASE ~Refused(p) /\ Named(n) # {} /\ Renew(p)
  <2>1. /\ fib' = fib
        /\ services' = (services \ Named(n)) \cup {[s EXCEPT !.left = Timeout] : s \in Named(n)}
    BY <1>4 DEF Renew
  <2>2. ASSUME NEW s \in services
        PROVE  [s EXCEPT !.left = Timeout].name = s.name /\ [s EXCEPT !.left = Timeout].addr = s.addr
    <3>1. s \in [name : Names, addr : Repos, left : 1 .. Timeout]
      BY DEF RegInv, Types
    <3> QED  BY <3>1
  <2>3. \A s \in services : \E t \in services' : t.name = s.name /\ t.addr = s.addr
    <3> SUFFICES ASSUME NEW s \in services PROVE \E t \in services' : t.name = s.name /\ t.addr = s.addr
      OBVIOUS
    <3>1. CASE s \in Named(n)
      <4>1. [s EXCEPT !.left = Timeout] \in services'
        BY <2>1, <3>1
      <4> QED  BY <2>2, <4>1
    <3>2. CASE s \notin Named(n)
      BY <2>1, <3>2
    <3> QED  BY <3>1, <3>2
  <2>4. \A t \in services' : \E s \in services : t.name = s.name /\ t.addr = s.addr
    BY <2>1, <2>2 DEF Named
  <2> QED  BY <1>1, <1>2, <2>1, <2>3, <2>4 DEF Onward, Used, TableStep, NoNewEntry
<1>5. CASE Named(n) = {} /\ NewService(p)
  <2>1. CASE ~up'
    BY <1>3, <1>5, <2>1 DEF NewService
  <2>2. CASE up'
    <3>1. /\ services' = services \cup {[name |-> n, addr |-> r, left |-> Timeout]}
          /\ fib' = AddFib(fib, [name |-> n, face |-> r])
      BY <1>5, <2>2 DEF NewService
    <3>2. ~Refused(p)
      BY <1>5 DEF Refused
    <3>3. Reply(r, "ack", n) \in packets' /\ Register(r, n) \notin packets'
      BY <1>1, <2>2, <3>2, PacketTypes DEF Answered
    <3>4. NewEntry(r, n)
      BY <1>1, <1>5, <3>1, <3>3 DEF NewEntry
    <3> QED  BY <1>1, <1>2, <3>1, <3>4 DEF Onward, Used, TableStep
  <2> QED  BY <2>1, <2>2
<1> QED  BY <1>3, <1>4, <1>5 DEF HandleServiceRegistration, forwarder

LEMMA TickOnTable ==
    ASSUME RegInv, Used, Tick
    PROVE  Onward /\ TableStep
<1>1. /\ packets = {} /\ packets' = {} /\ UNCHANGED <<fib, on, starts>>
      /\ services' = {[s EXCEPT !.left = @ - 1] : s \in {s \in services : s.left > 1}}
  BY DEF Tick, counters
<1>2. ASSUME NEW s \in services
      PROVE  [s EXCEPT !.left = @ - 1].name = s.name /\ [s EXCEPT !.left = @ - 1].addr = s.addr
  <2>1. s \in [name : Names, addr : Repos, left : 1 .. Timeout]
    BY DEF RegInv, Types
  <2> QED  BY <2>1
<1>3. \A t \in services' : \E s \in services : t.name = s.name /\ t.addr = s.addr
  BY <1>1, <1>2
<1> QED  BY <1>1, <1>3 DEF Onward, Used, TableStep, NoNewEntry

LEMMA StepOnTable ==
    ASSUME RegInv, Used, [Next]_vars
    PROVE  Onward /\ TableStep
<1>1. ASSUME NEW p \in packets, HandleForwarders(p)  PROVE Onward /\ TableStep
  <2>1. /\ UNCHANGED <<services, fib, on, starts>> /\ on[p.peer]
        /\ \A q \in packets' : q \in packets \/ \E n : q = Register(p.peer, n)
    BY <1>1 DEF HandleForwarders, forwarder, counters
  <2> QED  BY <2>1, TableQuiet, PacketTypes DEF TableStep
<1>2. ASSUME NEW r \in Repos, NEW t \in timers[r], RenewalDue(r, t)  PROVE Onward /\ TableStep
  <2>1. /\ UNCHANGED <<services, fib, on, starts>> /\ packets' = packets \cup {Register(r, t.name)}
    BY <1>2 DEF RenewalDue, forwarder, counters
  <2>2. on[r]
    BY DEF RegInv, OffIdle
  <2> QED  BY <2>1, <2>2, TableQuiet, PacketTypes DEF TableStep
<1>3. ASSUME NEW r \in Repos, Stop(r)  PROVE Onward /\ TableStep
  <2>1. /\ UNCHANGED <<services, fib, packets, starts>> /\ on' = [on EXCEPT ![r] = FALSE]
    BY <1>3 DEF Stop, forwarder, counters
  <2>2. \A x \in Repos : on'[x] => on[x]
    BY <2>1 DEF RegInv, Types
  <2> QED  BY <2>1, <2>2 DEF Onward, Used, TableStep, NoNewEntry
<1>4. ASSUME NEW r \in Repos, Start(r)  PROVE Onward /\ TableStep
  <2>1. /\ UNCHANGED <<services, fib>> /\ on' = [on EXCEPT ![r] = TRUE]
        /\ starts[r] > 0 /\ starts' = [starts EXCEPT ![r] = @ - 1]
        /\ packets' = packets \cup {Solicit(r)}
    BY <1>4 DEF Start, forwarder
  <2>2. starts[r] = 1 /\ starts' \in [Repos -> 0 .. 1] /\ starts'[r] = 0
    BY <2>1 DEF Used
  <2>3. \A x \in Repos : x # r => on'[x] = on[x] /\ starts'[x] = starts[x]
    BY <2>1 DEF RegInv, Types, Used
  <2>4. \A x \in Repos : on[x] => on'[x]
    BY <2>1 DEF RegInv, Types
  <2>5. \A x \in Repos : \A y : Register(x, y) \in packets' => Register(x, y) \in packets
    BY <2>1, PacketTypes
  <2> QED  BY <2>1, <2>2, <2>3, <2>4, <2>5 DEF Onward, TableStep, NoNewEntry
<1>5. CASE \/ ClientTimers \/ KeepRest \/ \E n \in DOMAIN Wants : Ask(n)
           \/ \E p \in packets : \/ HandleAutoconfig(p) \/ ClientHandleForwarders(p)
                                 \/ HandleRegistrationReply(p) \/ Discard(p) \/ Lose(p)
           \/ UNCHANGED vars
  <2>1. UNCHANGED <<services, fib, on, starts>>
    BY <1>5 DEF ClientTimers, ClearHeld, KeepRest, SolicitationTimer, Ask, HandleAutoconfig, ClientHandleForwarders,
           HandleRegistrationReply, Discard, Lose, vars, forwarder, repositories, counters
  <2>2. \A q \in packets' : q \in packets \/ q.type \in {"solicit", "forwarders"}
    <3>1. CASE ClientTimers \/ KeepRest \/ \E n \in DOMAIN Wants : Ask(n)
      <4>1. UNCHANGED packets \/ \E from : packets' = packets \cup {Solicit(from)}
        BY <3>1 DEF ClientTimers, ClearHeld, KeepRest, SolicitationTimer, Ask, Solicitation
      <4> QED  BY <4>1, PacketTypes
    <3>2. ASSUME NEW p \in packets, HandleAutoconfig(p)
          PROVE  \A q \in packets' : q \in packets \/ q.type \in {"solicit", "forwarders"}
      BY <3>2, PacketTypes DEF HandleAutoconfig
    <3>3. ASSUME NEW p \in packets, \/ ClientHandleForwarders(p)
                                   \/ HandleRegistrationReply(p) \/ Discard(p) \/ Lose(p)
          PROVE  packets' \subseteq packets
      BY <3>3 DEF ClientHandleForwarders, HandleRegistrationReply, Discard, Lose
    <3>4. CASE UNCHANGED vars
      BY <3>4 DEF vars
    <3> QED  BY <1>5, <3>1, <3>2, <3>3, <3>4
  <2> QED  BY <2>1, <2>2, TableQuiet, PacketTypes DEF TableStep
<1> QED  BY <1>1, <1>2, <1>3, <1>4, <1>5, RegistrationOnTable, TickOnTable DEF Next, Receive

LEMMA UsedStays ==
    ASSUME RegInv, Used, Onward
    PROVE  Used'
BY DEF Used, Onward, RegInv, Types

(* An entry stays kept in every step.                                      *)
LEMMA EntryStays ==
    ASSUME RegInv, Used, Onward, RegistrationsStay, on' \in [Repos -> BOOLEAN],
           NEW e, e.face \in Repos, EntryKept(e)
    PROVE  EntryKept(e)'
<1> DEFINE r == e.face  n == e.name
<1>1. CASE on[r] /\ Kept(r, n)
  <2>1. CASE on'[r]
    <3>1. Kept(r, n)'
      BY <1>1, <2>1 DEF RegistrationsStay
    <3> QED  BY <2>1, <3>1 DEF EntryKept
  <2>2. CASE ~on'[r]
    <3>1. starts'[r] = 0 /\ services' = services
      BY <1>1, <2>2 DEF Onward, Used
    <3>2. \E s \in services : s.name = n /\ s.addr = r
      BY <1>1 DEF Kept
    <3> QED  BY <2>2, <3>1, <3>2 DEF EntryKept
  <2> QED  BY <2>1, <2>2
<1>2. CASE /\ ~on[r] /\ starts[r] = 0
           /\ Register(r, n) \in packets => \E s \in services : s.name = n /\ s.addr = r
  <2>1. starts'[r] = 0 /\ ~on'[r]
    BY <1>2 DEF Onward
  <2>2. ASSUME Register(r, n) \in packets'
        PROVE  \E s \in services' : s.name = n /\ s.addr = r
    <3>1. Register(r, n) \in packets
      BY <1>2, <2>2 DEF Onward
    <3>2. PICK s \in services : s.name = n /\ s.addr = r
      BY <1>2, <3>1
    <3>3. PICK t \in services' : t.name = s.name /\ t.addr = s.addr
      BY <3>1 DEF Onward
    <3> QED  BY <3>2, <3>3
  <2> QED  BY <2>1, <2>2 DEF EntryKept
<1> QED  BY <1>1, <1>2 DEF EntryKept

(* The entry of a new registration is new, too, and goes to the front:     *)
(* whoever had an entry for the name has lost the registration, and with   *)
(* it any way to come back to it.                                          *)
LEMMA EntryIsNew ==
    ASSUME RouteInv, NEW r, NEW n, NewEntry(r, n)
    PROVE  fib' = <<[name |-> n, face |-> r]>> \o fib
<1> DEFINE e == [name |-> n, face |-> r]
<1>1. e.name = n /\ e.face = r
  OBVIOUS
<1> HIDE DEF e
<1>2. ~EntryKept(e)
  <2>1. \A s \in services : s.name # n
    BY DEF NewEntry, Named
  <2> QED  BY <1>1, <2>1 DEF EntryKept, Kept, NewEntry
<1>3. \A k \in DOMAIN fib : fib[k] # e
  BY <1>2 DEF RouteInv, EntriesKept
<1>4. e \notin Range(fib)
  BY <1>3 DEF Range
<1> QED  BY <1>4 DEF NewEntry, AddFib, e

LEMMA RouteStep ==
    ASSUME AutoconfigAssumption, RepliesArrive, RouteInv, [Next]_vars
    PROVE  RouteInv'
<1>1. RegInv /\ Used /\ EntriesKept /\ RouteToOwner
  BY DEF RouteInv
<1>2. RegInv' /\ RegistrationsStay
  BY <1>1, RegStep
<1>3. Onward /\ TableStep /\ Used'
  BY <1>1, StepOnTable, UsedStays
<1>4. /\ fib \in Seq([name : Names, face : Repos]) /\ Len(fib) \in Nat /\ DOMAIN fib = 1 .. Len(fib)
      /\ \A k \in DOMAIN fib : fib[k].face \in Repos
  <2> DEFINE Entry == [name : Names, face : Repos]
  <2>1. fib \in Seq(Entry)
    BY <1>1 DEF RegInv, Types
  <2>2. \A f \in Entry : f.face \in Repos
    OBVIOUS
  <2> HIDE DEF Entry
  <2>3. Len(fib) \in Nat /\ DOMAIN fib = 1 .. Len(fib) /\ \A k \in DOMAIN fib : fib[k] \in Entry
    BY <2>1
  <2> QED  BY <2>1, <2>2, <2>3 DEF Entry
<1>5. \A k \in DOMAIN fib : \A e : e = fib[k] => EntryKept(e)'
  <2> SUFFICES ASSUME NEW k \in DOMAIN fib, NEW e, e = fib[k] PROVE EntryKept(e)'
    OBVIOUS
  <2>1. EntryKept(e) /\ e.face \in Repos
    BY <1>1, <1>4 DEF EntriesKept
  <2>2. on' \in [Repos -> BOOLEAN]
    BY <1>2 DEF RegInv, Types
  <2> QED  BY <1>1, <1>2, <1>3, <2>1, <2>2, EntryStays
<1>6. CASE NoNewEntry
  <2>1. EntriesKept'
    <3> SUFFICES ASSUME NEW k \in DOMAIN fib', NEW e, e = fib'[k] PROVE EntryKept(e)'
      BY DEF EntriesKept
    <3> QED  BY <1>5, <1>6 DEF NoNewEntry
  <2>2. RouteToOwner'
    BY <1>1, <1>6 DEF NoNewEntry, RouteToOwner
  <2> QED  BY <1>2, <1>3, <2>1, <2>2 DEF RouteInv
<1>7. ASSUME NEW r, NEW n, NewEntry(r, n)  PROVE RouteInv'
  <2> DEFINE e == [name |-> n, face |-> r]
             new == [name |-> n, addr |-> r, left |-> Timeout]
  <2>1. fib' = <<e>> \o fib
    BY <1>7, EntryIsNew
  <2>2. /\ DOMAIN fib' = 1 .. Len(fib) + 1 /\ fib'[1] = e
        /\ \A k \in 2 .. Len(fib) + 1 : fib'[k] = fib[k - 1]
    BY <1>4, <2>1
  <2>3. r \in Repos /\ services' = services \cup {new} /\ \A s \in services : s.name # n
    BY <1>7 DEF NewEntry, Named
  <2>4. e.name = n /\ e.face = r /\ new.name = n /\ new.addr = r
    OBVIOUS
  <2> HIDE DEF e, new
  <2>5. EntryKept(e)'
    <3>1. Reply(r, "ack", n) \in packets' /\ Register(r, n) \notin packets' /\ UNCHANGED <<on, starts>>
      BY <1>7 DEF NewEntry
    <3>2. CASE on[r]
      BY <2>3, <2>4, <3>1, <3>2 DEF EntryKept, Kept
    <3>3. CASE ~on[r]
      <4>1. starts[r] = 0
        BY <1>1, <1>7 DEF NewEntry, Used
      <4> QED  BY <2>4, <3>1, <3>3, <4>1 DEF EntryKept
    <3> QED  BY <3>2, <3>3
  <2>6. EntriesKept'
    <3> SUFFICES ASSUME NEW k \in DOMAIN fib', NEW f, f = fib'[k] PROVE EntryKept(f)'
      BY DEF EntriesKept
    <3>1. CASE k = 1
      BY <2>2, <2>5, <3>1
    <3>2. CASE k \in 2 .. Len(fib) + 1
      <4>1. k - 1 \in DOMAIN fib /\ f = fib[k - 1]
        BY <1>4, <2>2, <3>2
      <4> QED  BY <1>5, <4>1
    <3> QED  BY <1>4, <2>2, <3>1, <3>2
  <2>7. RouteToOwner'
    <3> SUFFICES ASSUME NEW s \in services'
                 PROVE  \E k \in DOMAIN fib' : /\ fib'[k] = [name |-> s.name, face |-> s.addr]
                                              /\ \A j \in 1 .. k - 1 : fib'[j].name # s.name
      BY DEF RouteToOwner
    <3>1. CASE s = new
      <4>1. 1 \in DOMAIN fib' /\ fib'[1] = [name |-> s.name, face |-> s.addr]
        BY <1>4, <2>2, <2>4, <3>1 DEF e
      <4> QED  BY <4>1
    <3>2. CASE s \in services
      <4>1. PICK k \in DOMAIN fib : /\ fib[k] = [name |-> s.name, face |-> s.addr]
                                   /\ \A j \in 1 .. k - 1 : fib[j].name # s.name
        BY <1>1, <3>2 DEF RouteToOwner
      <4>2. k + 1 \in DOMAIN fib' /\ fib'[k + 1] = fib[k]
        BY <1>4, <2>2
      <4>3. ASSUME NEW j \in 1 .. k  PROVE fib'[j].name # s.name
        <5>1. CASE j = 1
          BY <2>2, <2>3, <2>4, <3>2, <5>1
        <5>2. CASE j # 1
          <6>1. j \in 2 .. Len(fib) + 1 /\ j - 1 \in 1 .. k - 1
            BY <1>4, <5>2
          <6>2. fib'[j] = fib[j - 1]
            BY <2>2, <6>1
          <6> QED  BY <4>1, <6>1, <6>2
        <5> QED  BY <5>1, <5>2
      <4>4. 1 .. (k + 1) - 1 = 1 .. k
        BY <1>4
      <4> QED  BY <4>1, <4>2, <4>3, <4>4
    <3> QED  BY <2>3, <3>1, <3>2
  <2> QED  BY <1>2, <1>3, <2>6, <2>7 DEF RouteInv
<1> QED  BY <1>3, <1>6, <1>7 DEF TableStep

(* Interests for a registered service go to the one repository that holds  *)
(* the registration: its entry is the newest of the name, although entries *)
(* of repositories that are gone stay in the table (add_fib_entry puts a   *)
(* new one in front, and leaves one that is there where it is), if no      *)
(* packet of a repository is lost and none comes back.                     *)
THEOREM RouteToOwnerCorrect ==
    ASSUME RepliesArrive, StartedOnce
    PROVE  Spec => []RouteToOwner
<1>1. AutoconfigAssumption
  BY AutoconfigAssumption
<1>2. Init => RouteInv
  <2> SUFFICES ASSUME Init PROVE RouteInv
    OBVIOUS
  <2>1. RegInv
    BY <1>1, RegInit
  <2>2. Used
    <3>1. starts \in [Repos -> 0 .. 1]
      BY <1>1 DEF Init, StartedOnce, AutoconfigAssumption
    <3> QED  BY <3>1 DEF Init, Used
  <2>3. EntriesKept /\ RouteToOwner
    BY DEF Init, EntriesKept, RouteToOwner
  <2> QED  BY <2>1, <2>2, <2>3 DEF RouteInv
<1>3. RouteInv /\ [Next]_vars => RouteInv'
  BY <1>1, RouteStep
<1>4. RouteInv => RouteToOwner
  BY DEF RouteInv
<1> QED  BY <1>2, <1>3, <1>4, PTL DEF Spec
===============================================================================

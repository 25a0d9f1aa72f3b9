------------------------------ MODULE Autoconfig ------------------------------
(***************************************************************************)
(* Autoconfiguration: a forwarder advertises its routes and the prefixes   *)
(* services may register under; repositories register and renew before     *)
(* their registration runs out; a client holds its interests until it      *)
(* knows a forwarder with a route for them, and gives up after a number of *)
(* solicitations.                                                          *)
(*                                                                         *)
(* Time passes in units.  Packets and overdue timers take less than one.   *)
(* A face stands for the address it leads to.                              *)
(***************************************************************************)
EXTENDS Integers, Sequences, FiniteSets, SequencesExt

CONSTANTS
    None,           \* no name
    Repos,          \* repositories; one of them is at one address
    Service,        \* the service name of each
    LocalPrefixes, RoutedPrefixes,  \* registration prefixes of the forwarder
    Global,         \* register_global of the repositories
    Routing,        \* the forwarder has a routing table
    Timeout,        \* _service_registration_timeout
    Wants,          \* what the client may ask for: the service it belongs to
    MaxRetry,       \* solicitation_max_retry (with 1 the client holds nothing);
                    \* there is a solicitation timeout
    Lossy(_),       \* the packets that may be lost
    MaxStarts, MaxAsks, MaxLost     \* bounds on what the environment does

ASSUME AutoconfigAssumption ==
    /\ DOMAIN Service = Repos
    /\ Timeout \in Nat /\ Timeout > 1 /\ MaxRetry \in Nat /\ MaxRetry > 1
    /\ MaxStarts \in [Repos -> Nat] /\ MaxAsks \in [DOMAIN Wants -> Nat] /\ MaxLost \in Nat
    /\ Global \in BOOLEAN /\ Routing \in BOOLEAN

VARIABLES
    services,   \* _known_services of the forwarder, those that have not run out:
                \* a set, as the only order it has is that of the registrations
    fib,        \* its forwarding table, newest entry first
    up,         \* no handler of the forwarder has raised an exception
    on, known,  \* of each repository: it runs, it knows a forwarder (_fwd_fid)
    timers,     \* its timers: what to renew, and in how many units of time
    prefix,     \* the prefix its contents have, None before it is registered
    held,       \* _held_interests of the client, with the number of
                \* solicitations sent since (counted for the properties only)
    solicitations,  \* its timers: the solicitations left; the last one started
                    \* is _solicitation_timer unless it is cancelled or done
    clearing,   \* number of timers that have refused what was held, and have
                \* not cleared it yet
    rest,       \* what the layer will assign to _held_interests: what it has
                \* not forwarded; None while it is not about to
    waiting,    \* what the client has asked for and not been told about
    overtaken,  \* history: what was asked for while a timer was clearing
    packets,    \* packets on their way
    starts, asks, lost  \* counters for the bounds

forwarder == <<services, fib, up>>
repositories == <<on, known, timers, prefix>>
client == <<held, solicitations, clearing, rest, waiting, overtaken>>
counters == <<starts, asks, lost>>
vars == <<forwarder, repositories, client, packets, counters>>

Solicit(from) == [type |-> "solicit", peer |-> from]
Forwarders(to) ==
    [type |-> "forwarders", peer |-> to, routes |-> {fib[k].name : k \in DOMAIN fib}]
Register(from, name) == [type |-> "register", peer |-> from, name |-> name]
Reply(to, type, name) == [type |-> type, peer |-> to, name |-> name]

-----------------------------------------------------------------------------
(* The forwarder *)

HandleAutoconfig(p) ==
    /\ up /\ p.type = "solicit"
    /\ packets' = (packets \ {p}) \cup {Forwarders(p.peer)}
    /\ UNCHANGED <<forwarder, repositories, client, counters>>

Named(name) == {s \in services : s.name = name}

(* Mutant of AddFib: a name that has an entry gets no other.               *)
AddFibOnce(list, entry) ==
    IF \E k \in DOMAIN list : list[k].name = entry.name THEN list ELSE <<entry>> \o list

AddFib(list, entry) == IF entry \in Range(list) THEN list ELSE <<entry>> \o list

Refused(p) == \E s \in Named(p.name) : s.addr # p.peer

Renew(p) ==
    /\ services' = (services \ Named(p.name))
                       \cup {[s EXCEPT !.left = Timeout] : s \in Named(p.name)}
    /\ UNCHANGED <<fib, up>>

(* A service under a routed prefix goes to the routing table, if there is  *)
(* one: build_fib is called with an argument it does not have, and the     *)
(* exception ends the layer before the service is noted.                   *)
IsRouted(name) == Routing /\ name[1] \in RoutedPrefixes

NewService(p) ==
    /\ up' = ~IsRouted(p.name)
    /\ services' = IF ~up' THEN services
                   ELSE services \cup {[name |-> p.name, addr |-> p.peer, left |-> Timeout]}
    /\ fib' = IF ~up' THEN fib ELSE AddFib(fib, [name |-> p.name, face |-> p.peer])

Answered(p) == IF Refused(p) THEN {Reply(p.peer, "nack", p.name)}
               ELSE IF up' THEN {Reply(p.peer, "ack", p.name)} ELSE {}

HandleServiceRegistration(p) ==
    /\ up /\ p.type = "register"
    /\ \/ Refused(p) /\ UNCHANGED forwarder
       \/ ~Refused(p) /\ Named(p.name) # {} /\ Renew(p)
       \/ Named(p.name) = {} /\ NewService(p)
    /\ packets' = (packets \ {p}) \cup Answered(p)
    /\ UNCHANGED <<repositories, client, counters>>

-----------------------------------------------------------------------------
(* The repositories *)

Start(r) ==
    /\ ~on[r] /\ starts[r] > 0 /\ starts' = [starts EXCEPT ![r] = @ - 1]
    /\ on' = [on EXCEPT ![r] = TRUE] /\ packets' = packets \cup {Solicit(r)}
    /\ UNCHANGED <<forwarder, known, timers, prefix, client, asks, lost>>

Stop(r) ==
    /\ on[r] /\ on' = [on EXCEPT ![r] = FALSE]
    /\ known' = [known EXCEPT ![r] = FALSE] /\ prefix' = [prefix EXCEPT ![r] = None]
    /\ timers' = [timers EXCEPT ![r] = {}]
    /\ UNCHANGED <<forwarder, client, packets, counters>>

HandleForwarders(p) ==
    LET prefixes == LocalPrefixes \cup (IF Global THEN RoutedPrefixes ELSE {}) IN
    /\ p.type = "forwarders" /\ p.peer \in Repos /\ on[p.peer]
    /\ known' = [known EXCEPT ![p.peer] = TRUE]
    /\ packets' = (packets \ {p}) \cup
           {Register(p.peer, <<x, Service[p.peer]>>) : x \in prefixes}
    /\ UNCHANGED <<forwarder, on, timers, prefix, client, counters>>

(* Mutant of RenewalTime: just in time is too late. *)
RenewalTimeout == Timeout

RenewalTime == Timeout \div 2

(* An acknowledgement starts one more timer.                               *)
HandleRegistrationReply(p) ==
    /\ p.type \in {"ack", "nack"} /\ on[p.peer] /\ packets' = packets \ {p}
    /\ \/ p.type = "nack" /\ UNCHANGED <<timers, prefix>>
       \/ /\ p.type = "ack" /\ prefix' = [prefix EXCEPT ![p.peer] = p.name]
          /\ timers' = [timers EXCEPT ![p.peer] =
                 @ \cup {[name |-> p.name, left |-> RenewalTime]}]
    /\ UNCHANGED <<forwarder, on, known, client, counters>>

RenewalDue(r, t) ==
    /\ t \in timers[r] /\ t.left = 0
    /\ timers' = [timers EXCEPT ![r] = @ \ {t}]
    /\ packets' = packets \cup {Register(r, t.name)}
    /\ UNCHANGED <<forwarder, on, known, prefix, client, counters>>

-----------------------------------------------------------------------------
(* The client *)

(* The layer and the timers are threads of one process that share what is  *)
(* held without a lock.                                                    *)

(* The solicitations sent since a name is held, with one more.             *)
Counted(new) ==
    [n \in DOMAIN held \cup new |-> IF n \in DOMAIN held \ new THEN held[n] + 1 ELSE 1]

(* Mutant of Solicitation: what is held is dropped without a Nack.         *)
SolicitationSilent(retry, running, new) ==
    /\ packets' = packets \cup {Solicit("client")} /\ held' = Counted(new)
    /\ waiting' = waiting \cup new
    /\ \/ /\ retry > 1 /\ UNCHANGED clearing
          /\ solicitations' = Append(running, [retry |-> retry - 1, last |-> TRUE])
       \/ retry <= 1 /\ clearing' = clearing + 1 /\ solicitations' = running

(* Mutant of Solicitation: no timer is started for the next one.           *)
SolicitationOnce(retry, running, new) ==
    /\ packets' = packets \cup {Solicit("client")} /\ held' = Counted(new)
    /\ waiting' = waiting \cup new /\ solicitations' = running /\ UNCHANGED clearing

(* _send_forwarder_solicitation, while the timers running are started and  *)
(* the names new are added to those held.  The last solicitation is not    *)
(* waited for: everything held is refused at once.                         *)
Solicitation(retry, running, new) ==
    /\ packets' = packets \cup {Solicit("client")} /\ held' = Counted(new)
    /\ \/ /\ retry > 1 /\ waiting' = waiting \cup new /\ UNCHANGED clearing
          /\ solicitations' = Append([k \in DOMAIN running |-> [running[k] EXCEPT !.last = FALSE]],
                                     [retry |-> retry - 1, last |-> TRUE])
       \/ /\ retry <= 1 /\ waiting' = waiting \ DOMAIN held /\ clearing' = clearing + 1
          /\ solicitations' = running

Ask(n) ==
    /\ rest = None
    /\ n \notin waiting /\ asks[n] > 0 /\ asks' = [asks EXCEPT ![n] = @ - 1]
    /\ Solicitation(MaxRetry, solicitations, {n})
    /\ overtaken' = IF clearing > 0 THEN overtaken \cup {n} ELSE overtaken \ {n}
    /\ UNCHANGED <<forwarder, repositories, rest, starts, lost>>

SolicitationTimer(k) ==
    /\ Solicitation(solicitations[k].retry, RemoveAt(solicitations, k), {})
    /\ UNCHANGED <<forwarder, repositories, rest, overtaken, counters>>

(* Whatever is held by now is dropped, refused or not.                     *)
ClearHeld ==
    /\ clearing > 0 /\ clearing' = clearing - 1 /\ held' = <<>>
    /\ UNCHANGED <<forwarder, repositories, solicitations, rest, waiting, overtaken, packets, counters>>

(* The interests a route is known for go to the forwarder, and the list of *)
(* the others is made.                                                     *)
ClientHandleForwarders(p) ==
    LET served == {n \in DOMAIN held : Wants[n] \in p.routes} IN
    /\ rest = None
    /\ p.type = "forwarders" /\ p.peer = "client" /\ packets' = packets \ {p}
    /\ rest' = Restrict(held, DOMAIN held \ served) /\ waiting' = waiting \ served
    /\ UNCHANGED <<forwarder, repositories, held, solicitations, clearing, overtaken, counters>>

(* The list is assigned, whatever timers have made of the old one; only    *)
(* the last timer is cancelled, when nothing is left.                      *)
KeepRest ==
    /\ rest # None /\ rest' = None
    /\ held' = [n \in DOMAIN rest |-> IF n \in DOMAIN held THEN held[n] ELSE rest[n]]
    /\ solicitations' = IF DOMAIN rest = {}
                        THEN SelectSeq(solicitations, LAMBDA t : ~t.last) ELSE solicitations
    /\ UNCHANGED <<forwarder, repositories, clearing, waiting, overtaken, packets, counters>>

-----------------------------------------------------------------------------
Discard(p) ==
    /\ p.type \in {"forwarders", "ack", "nack"} /\ p.peer \in Repos /\ ~on[p.peer]
    /\ packets' = packets \ {p} /\ UNCHANGED <<forwarder, repositories, client, counters>>

Lose(p) ==
    /\ Lossy(p) /\ lost < MaxLost /\ lost' = lost + 1
    /\ packets' = packets \ {p} /\ UNCHANGED <<forwarder, repositories, client, starts, asks>>

(* A unit of time passes.                                                  *)
Tick ==
    /\ packets = {} /\ services # {} /\ \A r \in Repos : \A t \in timers[r] : t.left > 0
    /\ services' = {[s EXCEPT !.left = @ - 1] : s \in {s \in services : s.left > 1}}
    /\ timers' = [r \in Repos |-> {[t EXCEPT !.left = @ - 1] : t \in timers[r]}]
    /\ UNCHANGED <<fib, up, on, known, prefix, client, packets, counters>>

Init ==
    /\ services = {} /\ fib = <<>> /\ up = TRUE
    /\ on = [r \in Repos |-> FALSE] /\ known = on
    /\ timers = [r \in Repos |-> {}] /\ prefix = [r \in Repos |-> None]
    /\ held = <<>> /\ solicitations = <<>> /\ clearing = 0
    /\ rest = None /\ waiting = {} /\ overtaken = {}
    /\ packets = {} /\ starts = MaxStarts /\ asks = MaxAsks /\ lost = 0

ClientTimers == ClearHeld \/ \E k \in DOMAIN solicitations : SolicitationTimer(k)

Receive(p) ==
    \/ HandleAutoconfig(p) \/ HandleServiceRegistration(p) \/ HandleForwarders(p)
    \/ HandleRegistrationReply(p) \/ ClientHandleForwarders(p) \/ Discard(p) \/ Lose(p)

Next ==
    \/ \E p \in packets : Receive(p)
    \/ \E r \in Repos : Start(r) \/ Stop(r) \/ \E t \in timers[r] : RenewalDue(r, t)
    \/ \E n \in DOMAIN Wants : Ask(n)
    \/ ClientTimers \/ KeepRest \/ Tick

Spec == Init /\ [][Next]_vars

(* Timers of a running program run out, and its threads go on.             *)
FairSpec == Spec /\ WF_vars(ClientTimers) /\ WF_vars(KeepRest)

-----------------------------------------------------------------------------
Names == (LocalPrefixes \cup RoutedPrefixes) \X Range(Service)
Timers == [name : Names, left : 0 .. Timeout]

(* The types of the tables, and: only a running repository knows a         *)
(* forwarder; while the client is waited for a timer is running, unless    *)
(* what is waited for was asked for while one was clearing.                *)
TypeOK ==
    /\ services \subseteq [name : Names, addr : Repos, left : 1 .. Timeout]
    /\ fib \in Seq([name : Names, face : Repos])
    /\ known \in [Repos -> BOOLEAN] /\ \A r \in Repos : known[r] => on[r]
    /\ timers \in [Repos -> SUBSET Timers] /\ prefix \in [Repos -> Names \cup {None}]
    /\ DOMAIN held \subseteq DOMAIN Wants /\ waiting \subseteq DOMAIN Wants
    /\ \A n \in DOMAIN held : held[n] \in Nat \ {0}
    /\ \A k \in DOMAIN solicitations : solicitations[k].retry \in 1 .. MaxRetry - 1
    /\ clearing \in Nat /\ overtaken \subseteq DOMAIN Wants
    /\ rest # None => DOMAIN rest \subseteq DOMAIN Wants
    /\ waiting \subseteq overtaken \/ solicitations # <<>>

(* However many register, renew, stop and come back, interests for a       *)
(* registered service go to the one repository that holds the registration *)
(* and not to one that held it before: the newest entry of the forwarding  *)
(* table is the owner's (add_fib_entry).                                   *)
RouteToOwner ==
    \A s \in services :
        \E k \in DOMAIN fib : /\ fib[k] = [name |-> s.name, face |-> s.addr]
                              /\ \A j \in 1 .. k - 1 : fib[j].name # s.name

(* A running repository that has been told its prefix stays registered for *)
(* it: the renewal arrives before the registration runs out.               *)
StillRegistered ==
    \A r \in Repos : prefix[r] # None =>
        \E s \in services : s.name = prefix[r] /\ s.addr = r

(* No interest is dropped without an answer, although the layer and timers *)
(* write _held_interests at the same time: one that is neither forwarded   *)
(* nor refused is held, but for those that the layer adds between the      *)
(* refusing and the clearing of a timer.  Nothing else is lost by these    *)
(* two, or by the layer that assigns what it had read before.              *)
NoneDropped == waiting \subseteq DOMAIN held \cup overtaken

(* Nothing is held that was forwarded or refused before, once timers and   *)
(* layer have finished.                                                    *)
NoneTwice == clearing = 0 /\ rest = None => DOMAIN held \subseteq waiting

(* solicitation_max_retry solicitations are sent before an interest is     *)
(* refused (docstring of AutoconfigClientLayer): if it stops waiting in a  *)
(* step that sends one, that one was the last.                             *)
Patient ==
    [][\A n \in waiting \ waiting' :
           n \in DOMAIN held' => held'[n] >= MaxRetry]_vars

(* A routed prefix can be registered: no handler raises an exception.      *)
ServerUp == up

(* Every interest of the application is forwarded or refused in the end,   *)
(* whatever is lost, unless it was added while a timer was clearing.       *)
Told == \A n \in DOMAIN Wants : n \in waiting ~> n \notin waiting \/ n \in overtaken

(* ... and without the exception.                                          *)
AllTold == \A n \in DOMAIN Wants : n \in waiting ~> n \notin waiting
===============================================================================

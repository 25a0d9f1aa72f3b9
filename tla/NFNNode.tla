-------------------------------- MODULE NFNNode --------------------------------
(***************************************************************************)
(* An NFN node: the NFN layer over the timeout prevention layer over the   *)
(* ICN layer, with consumers that ask for computations and for signs of    *)
(* life, and a network that answers requests with the right content or     *)
(* with a Nack, in any order, or not at all.                               *)
(***************************************************************************)
EXTENDS TimeoutPrevention

CONSTANTS
    Scenes,     \* what consumers and network do at most, in one behaviour
    MaxQueue    \* bound on the packets that wait in a queue when one is added

(* A scene: how often a name is asked for, the number of keepalives the    *)
(* consumers send and the network answers, the data that may expire, FIB   *)
(* and content store.  The counts are the bounds of the model.             *)
ASSUME NodeAssumption ==
    /\ \A s \in Scenes : /\ \A n \in DOMAIN s.asks : s.asks[n] \in Nat
                        /\ s.questions \in Nat /\ s.alive \in Nat
                        /\ s.expiring \subseteq s.cs /\ s.cs \subseteq Data
                        /\ DOMAIN s.fib \subseteq Data
    /\ MaxQueue \in Nat \ {0}

VARIABLES asks, questions, alive, expiring    \* what is left of the scene

counters == <<asks, questions, alive, expiring>>

vars == <<nfn, tp, world, icn, counters>>

(* The steps of a handler of the NFN layer commute with the steps of the   *)
(* others, but for looks at its table and at the content store: the others *)
(* move between the handlers.                                              *)
BetweenHandlers == todo = << >>

Consumer(n) ==
    /\ BetweenHandlers /\ n \notin waiting
    /\ asks[n] > 0 /\ asks' = [asks EXCEPT ![n] = @ - 1]
    /\ FromConsumer(n)
    /\ UNCHANGED <<nfn, tp, world, questions, alive, expiring>>

Question(n) ==
    /\ BetweenHandlers /\ n \in waiting /\ IsNFN(n)
    /\ questions > 0 /\ questions' = questions - 1
    /\ FromConsumer(Alive(n))
    /\ UNCHANGED <<nfn, tp, world, asks, alive, expiring>>

Network(n) ==
    /\ Len(inbox) < MaxQueue
    /\ \/ ~n.keepalive /\ NetContent(n, Value(n)) /\ UNCHANGED alive
       \/ n.keepalive /\ alive > 0 /\ alive' = alive - 1 /\ NetContent(n, << >>)
       \/ NetNack(n) /\ UNCHANGED alive
    /\ BetweenHandlers \/ cs' # cs
    /\ UNCHANGED <<nfn, tp, world, asks, questions, expiring>>

Forget(d) ==
    /\ d \in expiring /\ expiring' = expiring \ {d} /\ Expire(d)
    /\ UNCHANGED <<nfn, tp, world, asks, questions, alive>>

NFNProcess == NFNStep /\ UNCHANGED <<tp, world, icn, counters>>
TPProcess == 
    /\ Len(up) < MaxQueue
    /\ (FromLower \/ (BetweenHandlers /\ FromHigher)) /\ UNCHANGED <<world, counters>>
Timer ==
    /\ BetweenHandlers /\ Len(up) < MaxQueue /\ (StartRound \/ AgeNames \/ EndRound)
    /\ UNCHANGED <<world, counters>>
Clock == BetweenHandlers /\ TimeUp /\ UNCHANGED <<world, counters>>

Init ==
    /\ NFNInit /\ TPInit
    /\ \E s \in Scenes : /\ asks = s.asks /\ questions = s.questions /\ alive = s.alive
                        /\ expiring = s.expiring /\ fib = s.fib /\ cs = s.cs
    /\ waiting = {} /\ local = {} /\ inbox = << >>

Next ==
    \/ \E n \in DOMAIN asks : Consumer(n) \/ Question(n)
    \/ \E n \in local : Network(n)
    \/ \E d \in expiring : Forget(d)
    \/ NFNProcess \/ TPProcess \/ Timer \/ Clock

Spec == Init /\ [][Next]_vars

(* Every process of the node goes on, and time passes.  A handler of the   *)
(* timeout prevention layer gets its turn between the rounds.  Nothing is  *)
(* assumed of the network and of the consumers.                            *)
Fairness ==
    /\ WF_vars(NFNProcess) /\ SF_vars(TPProcess) /\ WF_vars(Timer) /\ WF_vars(Clock)

FairSpec == Spec /\ Fairness

-----------------------------------------------------------------------------
(* Properties *)

TypeOK ==
    /\ \A k \in DOMAIN table :
          /\ table[k].state \in NFNComputationState \ {"START"}
          /\ IsNFN(table[k].name) /\ \A j \in 1 .. k - 1 : table[j].name # table[k].name
    /\ \A k \in DOMAIN message_dict, j \in DOMAIN message_dict :
          message_dict[k].name = message_dict[j].name => k = j
    /\ IsABag(running)

(* Every packet with a result, on its way to the consumer or between the   *)
(* layers, has the result of the expression in its name: forwarding under  *)
(* a rewritten name, writing back and gathering parameters confuse nothing. *)
ResultsRight ==
    \A p \in ToSet(up) \cup ToSet(down) \cup ToSet(inbox) :
        p.type = "content" /\ ~p.name.keepalive => p.value = Value(p.name)

(* Every name a computation may be forwarded under stands for the same     *)
(* expression as the name it was requested under.                          *)
RewritesMeanTheSame ==
    \A k \in DOMAIN table : LET e == table[k] IN
        \A j \in DOMAIN e.rewrites : e.rewrites[j] # Local =>
            Parse(network_name_to_nfn_str(nfn_str_to_network_name(e.rewrites[j]))) = e.ast

Calls(op, arg) == \E k \in DOMAIN todo : todo[k] = Call(op, arg)
Answers(q, n) == \E k \in DOMAIN q : q[k].type # "interest" /\ q[k].name = n

(* A computation is in the table, or in the hands of a handler.            *)
InProgress(n) ==
    \/ is_comp_running(n) \/ Calls("interest", n) \/ Calls("compute", n) \/ Calls("decide", n)
    \/ \E k \in DOMAIN todo : /\ todo[k].op \notin {"interest", "decide", "compute", "remove"}
                             /\ todo[k].arg.name = n

(* Something will tell the NFN layer about a name.                         *)
Coming(n) ==
    \/ InProgress(n) \/ Calls("send", Interest(n)) \/ Interest(n) \in ToSet(down)
    \/ Answers(up, n)
    \/ {n, Alive(n)} \subseteq Asked

(* No computation in the table waits for something that never comes: what  *)
(* it awaits is being computed here, or is asked for again and again until *)
(* an answer comes or the timeout prevention layer gives up.               *)
WaitsForSomething ==
    \A k \in DOMAIN table : LET e == table[k] IN
        \/ Calls("remove", e.name)
        \/ e.state = "FWD" /\ (Calls("decide", e.name) \/ Calls("local", e))
        \/ e.state = "REWRITE" /\ Coming(RewriteName(e))
        \/ e.state = "EXEC" /\ e.awaiting # << >> /\ \A a \in ToSet(e.awaiting) : Coming(a)
        \/ ready_to_continue(e) /\ Calls("compute", e.name)

(* A neighbour that asks for a sign of life may be told that a computation *)
(* is not running only if it is neither in the table, nor in the hands of  *)
(* a handler that has taken it out of the table for a while.               *)
NotRunningIsTrue ==
    \A n \in waiting : \A seen \in SeenRunning(n) :
        Interest(Alive(n)) \in ToSet(inbox) /\ Interest(n) \notin ToSet(inbox)
        => ToldRunning(n, seen) \/ ~InProgress(n)

(* A computation the layer below takes for running will be answered: it is *)
(* being worked on, or its answer is on the way down.                      *)
RunningIsTrue ==
    \A n \in BagToSet(running) :
        InProgress(n) \/ Interest(n) \in ToSet(up) \/ Answers(down, n)

(* No handler of the NFN layer looks up a computation that has been        *)
(* removed since it was put on a list.                                     *)
NeverCrashes == ~crashed

(* Again and again nobody waits for a computation: every consumer gets an  *)
(* answer in the end, even if the network answers nothing, as long as it   *)
(* does not say "Running" for ever.                                        *)
Answered == []<>(\A n \in waiting : ~IsNFN(n))
===============================================================================

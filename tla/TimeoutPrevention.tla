-------------------------- MODULE TimeoutPrevention --------------------------
(***************************************************************************)
(* BasicTimeoutPreventionLayer, below the NFN layer: it repeats the        *)
(* requests of the NFN layer, asks whether forwarded computations are      *)
(* still alive, gives up those it hears nothing of, and tells neighbours   *)
(* whether a computation is running here.                                  *)
(*                                                                         *)
(* The handlers run in the process of the layer, the ageing in a timer     *)
(* thread of the main process; what they share is the dictionary of        *)
(* requests, which lives in a manager process.  The list of running        *)
(* computations is an attribute of the layer: the timer thread has a copy  *)
(* of its own, which stays empty.                                          *)
(***************************************************************************)
EXTENDS NFNLayer, Bags

CONSTANT WholeRounds    \* handlers do not run during a round of ageing

ASSUME WholeRoundsAssumption == WholeRounds \in BOOLEAN

VARIABLES
    message_dict,   \* the names asked for in the order of their timestamps,
                    \* and whether their time is up
    running,        \* running_computations, a list that may hold a name twice
    ageing          \* the round of the timer thread: what is left, and what to remove

tp == <<message_dict, running, ageing>>

Alive(name) == IF IsNFN(name) THEN [name EXCEPT !.keepalive = TRUE] ELSE name
Original(name) == [name EXCEPT !.keepalive = FALSE]

Entry(name) == [name |-> name, late |-> FALSE]
Asked == {message_dict[k].name : k \in DOMAIN message_dict}
Late(name) == \E k \in DOMAIN message_dict : message_dict[k] = [name |-> name, late |-> TRUE]
Dropping(dict, names) == SelectSeq(dict, LAMBDA e : e.name \notin names)

Setting(dict, name) == Append(Dropping(dict, {name}), Entry(name))

NoRound == [left |-> << >>, removes |-> {}]
Dead == [left |-> None, removes |-> {}]

(* The timer thread is between two rounds, or the rounds need not be whole. *)
MayHandle == WholeRounds => ageing \in {NoRound, Dead}

(* Nothing is handed to the ICN layer; a packet has been taken from it.    *)
Silently == ToICN(<< >>, {}, Tail(inbox))

-----------------------------------------------------------------------------
(* data_from_lower *)

(* While the NFN layer is in a handler, the entry may be out of the table  *)
(* for a moment.                                                           *)
SeenRunning(name) ==
    IF todo = << >> THEN {is_comp_running(name)} ELSE {is_comp_running(name), FALSE}

(* Mutant of ToldRunning: only the table is looked at. *)
ToldRunningTable(n, seen) == seen

ToldRunning(n, seen) == seen \/ BagIn(n, running)

KeepAliveInterest(p) ==
    LET n == Original(p.name) IN
    /\ p.type = "interest" /\ p.name.keepalive
    /\ \E seen \in SeenRunning(n) :
          ToICN(<<IF ToldRunning(n, seen) THEN Content(p.name, << >>) ELSE Nack(p.name)>>,
                {}, Tail(inbox))
    /\ UNCHANGED <<message_dict, running, up>>

InterestGoesUp(p) ==
    /\ p.type = "interest" /\ ~p.name.keepalive
    /\ running' = IF IsNFN(p.name) THEN running (+) SetToBag({p.name}) ELSE running
    /\ up' = Append(up, p) /\ Silently /\ UNCHANGED message_dict

KeepAliveReply(p) ==
    /\ p.type = "content" /\ p.name.keepalive
    /\ message_dict' = IF p.name \in Asked
                       THEN Setting(message_dict, p.name)
                       ELSE message_dict
    /\ Silently /\ UNCHANGED <<running, up>>

NotRunningReply(p) ==
    /\ p.type = "nack" /\ p.name.keepalive
    /\ message_dict' = Dropping(message_dict, {p.name, Original(p.name)})
    /\ up' = Append(up, Nack(Original(p.name)))
    /\ Silently /\ UNCHANGED running

AnswerGoesUp(p) ==
    /\ p.type # "interest" /\ ~p.name.keepalive
    /\ message_dict' = IF p.name \in Asked
                       THEN Dropping(message_dict, {p.name, Alive(p.name)})
                       ELSE message_dict
    /\ up' = Append(up, p)
    /\ Silently /\ UNCHANGED running

FromLower ==
    LET p == Head(inbox) IN
    /\ MayHandle /\ inbox # << >>
    /\ \/ KeepAliveInterest(p) \/ InterestGoesUp(p) \/ KeepAliveReply(p)
       \/ NotRunningReply(p) \/ AnswerGoesUp(p)
    /\ UNCHANGED <<ageing, table, todo, down, crashed>>

(* Mutant of FromHigher: an answer leaves the computation on the list. *)
FromHigherKept ==
    LET p == Head(down) IN
    /\ MayHandle /\ down # << >> /\ down' = Tail(down)
    /\ message_dict' = IF p.type = "interest"
                       THEN Setting(Setting(message_dict, p.name), Alive(p.name))
                       ELSE message_dict
    /\ ToICN(<<p>>, {}, inbox)
    /\ UNCHANGED <<running, ageing, table, todo, up, crashed>>

(* data_from_higher *)
FromHigher ==
    LET p == Head(down)
        answers == p.type # "interest" /\ BagIn(p.name, running)
    IN  /\ MayHandle /\ down # << >> /\ down' = Tail(down)
        /\ running' = IF answers THEN running (-) SetToBag({p.name}) ELSE running
        /\ message_dict' = CASE p.type = "interest" ->
                                  Setting(Setting(message_dict, p.name), Alive(p.name))
                             [] answers -> Dropping(message_dict, {p.name})
                             [] OTHER -> message_dict
        /\ ToICN(<<p>>, {}, inbox)
        /\ UNCHANGED <<ageing, table, todo, up, crashed>>

-----------------------------------------------------------------------------
(* ageing: a round looks up the names one by one.  Bound: it begins when   *)
(* the packets of the seconds since the last one have been handled.        *)
StartRound ==
    /\ ageing = NoRound /\ message_dict # << >>
    /\ inbox = << >> /\ down = << >> /\ up = << >>
    /\ ageing' = [left |-> [k \in DOMAIN message_dict |-> message_dict[k].name], removes |-> {}]
    /\ UNCHANGED <<message_dict, running, nfn, icn>>

(* A computation is given up only with its keepalive.                      *)
GivesUp(n) == Late(n) /\ (n.keepalive \/ ~IsNFN(n))

(* The next names of the round: all of them at once if rounds are whole.   *)
(* A name that a handler has removed since the round began is an           *)
(* exception, after which the timer is not set again.                      *)
AgeNames ==
    LET some == IF WholeRounds THEN ageing.left ELSE <<Head(ageing.left)>>
        nacks == SelectSeq(some, GivesUp)
    IN  /\ ageing.left \notin {None, << >>}
        /\ IF ToSet(some) \subseteq Asked
           THEN /\ ageing' = [left |-> SubSeq(ageing.left, Len(some) + 1, Len(ageing.left)),
                              removes |-> ageing.removes \cup
                                  UNION {{n, Original(n)} : n \in ToSet(nacks)}]
                /\ up' = up \o [k \in DOMAIN nacks |-> Nack(Original(nacks[k]))]
                /\ LET asks == SelectSeq(some, LAMBDA n : ~GivesUp(n))
                   IN  ToICN([k \in DOMAIN asks |-> Interest(asks[k])], {}, inbox)
           ELSE ageing' = Dead /\ UNCHANGED <<up, icn>>
        /\ UNCHANGED <<message_dict, running, table, todo, down, crashed>>

(* Mutant of EndRound: the names stay in the dictionary. *)
EndRoundKept ==
    /\ ageing.left = << >> /\ ageing.removes # {}
    /\ ageing' = NoRound
    /\ ToICN(<< >>, ageing.removes, inbox)
    /\ UNCHANGED <<message_dict, running, nfn>>

(* The end of the round; the PIT entries of the names go as well.          *)
EndRound ==
    /\ ageing.left = << >> /\ ageing.removes # {}
    /\ ageing' = NoRound
    /\ message_dict' = Dropping(message_dict, ageing.removes)
    /\ ToICN(<< >>, ageing.removes, inbox)
    /\ UNCHANGED <<running, nfn>>

(* timeout_interval seconds have passed for the oldest name whose time is  *)
(* not up; the time of the name of a computation is never looked at.       *)
TimeUp ==
    LET fresh == {k \in DOMAIN message_dict : ~message_dict[k].late /\
                      (message_dict[k].name.keepalive \/ ~IsNFN(message_dict[k].name))}
    IN  /\ fresh # {}
        /\ message_dict' = [message_dict EXCEPT ![Min(fresh)].late = TRUE]
        /\ UNCHANGED <<running, ageing, nfn, icn>>

TPInit ==
    /\ message_dict = << >> /\ running = EmptyBag /\ ageing = NoRound
===============================================================================

------------------------------ MODULE ThunkLayer ------------------------------
(***************************************************************************)
(* The thunk layer of an NFN forwarder: what would it cost to compute a    *)
(* result, and by which requests?  It asks the network for the cost of     *)
(* every piece a computation can be made of, puts the cheapest plan into   *)
(* the plan table, from which the NFN layer takes it, and answers with its *)
(* cost.  All names are those without the THUNK marker.                    *)
(*                                                                         *)
(* The two tables are read through proxies, which return copies, so a      *)
(* handler iterates over the table as it was.                              *)
(***************************************************************************)
EXTENDS NFNExpressions

CONSTANTS
    Costs,      \* the costs the network answers with
    MaxCost,    \* sys.maxsize
    Short,      \* the data names of two components
    Scenes      \* what may happen in one behaviour, see Init

ASSUME ThunkAssumption ==
    /\ Costs \subseteq Nat /\ MaxCost \in Nat /\ Short \subseteq Data
    /\ \A c \in Costs : c < MaxCost

VARIABLES
    table,      \* active_thunk_table: entries, oldest first
    plans,      \* plan table: names to costs and requests
    outstanding,    \* names asked of the network and not answered
    pending,    \* names consumers wait for
    alive,      \* no handler has raised an exception
    fib, cs,    \* names with a route, names of content in the store
    asks, nacks,    \* counters for the bounds
    last        \* the last answers given: names, costs and what they are based on
vars == <<table, plans, outstanding, pending, alive, fib, cs, asks, nacks, last>>

-----------------------------------------------------------------------------
(* Names and costs *)

(* The computations consumers ask for, their trees, and for every call in  *)
(* them the names it can be forwarded under.                               *)
Computations == {n \in UNION {DOMAIN s.asks : s \in Scenes} : IsNFN(n)}
Ast == [n \in Computations |-> Parse(network_name_to_nfn_str(n))]

CallsIn(t) == {p \in DOMAIN t : t[p].kind = "FUNCCALL"}
ElementsIn(t) == get_names_from_ast(t) \o get_functions_from_ast(t)
Prepended(t) ==
    [k \in DOMAIN ElementsIn(t) |->
        nfn_str_to_network_name(set_prepended_name(t, ElementsIn(t)[k]))]
Elsewhere ==
    [n \in Computations |-> [p \in CallsIn(Ast[n]) |-> Prepended(Subtree(Ast[n], p))]]

(* generatePossibleThunkNames.  The keys of a dictionary: a set.           *)
Routed(t) ==
    {Prepended(t)[k] : k \in {j \in DOMAIN ElementsIn(t) : ElementsIn(t)[j] \in fib}}
PossibleThunkNames(t) ==
    {DataName(t[p].element) : p \in {q \in DOMAIN t : t[q].kind = "NAME"}}
    \cup {DataName(t[p].element) : p \in
            {q \in CallsIn(t) : t[q].element \in fib \/ DataName(t[q].element) \in cs}}
    \cup UNION {Routed(Subtree(t, p)) : p \in CallsIn(t)}

(* get_data_size: the names whose size is known here, from the store.      *)
AtHand(names) == names \cap cs

Cost(awaiting, n) == IF n \in DOMAIN awaiting THEN awaiting[n] ELSE None

(* get_cheapest_prepended_name *)
Cheapest(n, awaiting) ==
    LET known == {k \in DOMAIN n : Cost(awaiting, n[k]) # None}
        best == CHOOSE k \in known : \A j \in known :
                  \/ awaiting[n[k]] < awaiting[n[j]]
                  \/ awaiting[n[k]] = awaiting[n[j]] /\ k <= j
    IN  IF known = {} THEN [cost |-> MaxCost, path |-> None]
        ELSE [cost |-> awaiting[n[best]], path |-> n[best]]

(* Mutant of Inner: the parameters cost nothing.                           *)
InnerFunction(function, params) == IF function = None THEN MaxCost ELSE function

(* The cost of a function at this node, with its parameters.  An unknown   *)
(* cost among them raises an exception, which is caught.                   *)
Inner(function, params) ==
    IF function = None \/ None \in Range(params) THEN MaxCost
    ELSE FoldLeft(LAMBDA a, b : a + b, function, params)

(* compute_cost_and_requests.  The requests are a name, if forwarding is   *)
(* the cheapest; otherwise a list, which may contain lists.                *)
Plan(name, awaiting) ==
    LET t == Ast[name]
        plan[p \in DOMAIN t] ==
          LET arity == Cardinality(Params(t, p))
              params == [k \in 1 .. arity |-> plan[Append(p, k)]]
              fwd == Cheapest(Elsewhere[name][p], awaiting)
              inner == Inner(Cost(awaiting, DataName(t[p].element)),
                             [k \in 1 .. arity |-> params[k].cost])
              paths == [k \in 1 .. arity |-> params[k].path]
          IN  CASE t[p].kind = "FUNCCALL" /\ inner > fwd.cost -> fwd
                [] t[p].kind = "FUNCCALL" /\ ~(inner > fwd.cost) ->
                     [cost |-> inner,
                      path |-> [list |-> SelectSeq(paths, LAMBDA x : x # None)
                                         \o <<DataName(t[p].element)>>]]
                [] t[p].kind = "NAME" ->
                     [cost |-> Cost(awaiting, DataName(t[p].element)),
                      path |-> DataName(t[p].element)]
                [] OTHER -> [cost |-> 0, path |-> None]
    IN  plan[<< >>]

-----------------------------------------------------------------------------
(* Tables.  These operators take the table and return it changed.          *)

NamedIn(tab, name) == {k \in DOMAIN tab : tab[k].name = name}
FirstOf(tab, name) == CHOOSE k \in NamedIn(tab, name) : \A j \in NamedIn(tab, name) : k <= j
Removed(tab, name) ==
    IF NamedIn(tab, name) = {} THEN tab ELSE RemoveAt(tab, FirstOf(tab, name))

(* add_estimated_cost_to_awaiting_data *)
WithCost(tab, name, cost) ==
    [k \in DOMAIN tab |->
        LET old == Cost(tab[k].awaiting, name) IN
        IF name \in DOMAIN tab[k].awaiting /\ (old = None \/ old > cost)
        THEN [tab[k] EXCEPT !.awaiting[name] = cost] ELSE tab[k]]

(* remove_awaiting_data *)
WithoutName(tab, name) ==
    [k \in DOMAIN tab |->
        [tab[k] EXCEPT !.awaiting = [n \in DOMAIN @ \ {name} |-> @[n]]]]

AllAvailable(e) == \A n \in DOMAIN e.awaiting : e.awaiting[n] # None
Complete(tab) ==
    SelectSeq(tab, LAMBDA e : AllAvailable(tab[FirstOf(tab, e.name)]))

ThunkTableEntry(name, names) == [name |-> name, awaiting |-> [n \in names |-> None]]
add_entry_to_thunk_table(name, names) == Append(table, ThunkTableEntry(name, names))

(* The plans with those made for computations that are complete.  A plan   *)
(* that is there stays, and so does the first of two.                      *)
add_plans(done, made) ==
    plans @@ [n \in {done[k].name : k \in DOMAIN done} |->
                 made[CHOOSE k \in DOMAIN done : /\ done[k].name = n
                         /\ \A j \in DOMAIN done : done[j].name = n => k <= j]]

(* check_and_compute_cost, of the table that the handler has made.         *)
CheckAndCompute(tab, waiting) ==
  \E done \in {Complete(tab)} :
    LET made == [k \in DOMAIN done |-> Plan(done[k].name, done[k].awaiting)]
    IN  /\ table' = FoldLeft(LAMBDA x, e : Removed(x, e.name), tab, done)
        /\ plans' = add_plans(done, made)
        /\ pending' = waiting \ {done[k].name : k \in DOMAIN done}
        /\ last' = {[name |-> done[k].name, cost |-> made[k].cost,
                     awaiting |-> done[k].awaiting] : k \in DOMAIN done}

-----------------------------------------------------------------------------
(* Handlers *)

(* Mutant of HandleInterest: what is in the store is awaited as well.      *)
HandleInterestAwaiting(name) ==
    LET names == PossibleThunkNames(Ast[name])
    IN  /\ outstanding' = outstanding \cup (names \ AtHand(names))
        /\ CheckAndCompute(add_entry_to_thunk_table(name, names),
                           pending \cup {name})

(* An interest for the cost of a computation.                              *)
HandleInterest(name) ==
    LET names == PossibleThunkNames(Ast[name])
        new == add_entry_to_thunk_table(name, names)
    IN  /\ outstanding' = outstanding \cup (names \ AtHand(names))
        /\ CheckAndCompute(FoldLeft(LAMBDA x, n : WithCost(x, n, 0), new,
                                    SetToSeq(AtHand(names))),
                           pending \cup {name})

(* An interest for the size of data.  What is not in the store is taken    *)
(* for an expression: a name of two components is read as a variable, that *)
(* costs nothing and has a plan without requests; any other is no string,  *)
(* and the parser fails.                                                   *)
HandleDataInterest(name) ==
    /\ UNCHANGED <<table, outstanding, pending>>
    /\ \/ name \in cs /\ UNCHANGED plans
       \/ /\ name \notin cs /\ name.at \in Short
          /\ plans' = plans @@ (name :> [cost |-> 0, path |-> None])
    /\ last' = {[name |-> name, cost |-> 0, awaiting |-> << >>]}

ParserFails(name) == ~IsNFN(name) /\ name \notin cs /\ name.at \notin Short
Crash == alive' = FALSE /\ UNCHANGED <<table, plans, outstanding, pending, last>>

Interest(name) ==
    /\ alive /\ asks[name] > 0 /\ asks' = [asks EXCEPT ![name] = @ - 1]
    /\ UNCHANGED <<nacks, fib, cs>>
    /\ \/ IsNFN(name) /\ HandleInterest(name) /\ UNCHANGED alive
       \/ ~IsNFN(name) /\ HandleDataInterest(name) /\ UNCHANGED alive
       \/ ParserFails(name) /\ Crash

(* handleContent; MaxCost is the cost of a content that is no number.      *)
HandleContent(name, cost) ==
    /\ alive /\ name \in outstanding /\ outstanding' = outstanding \ {name}
    /\ CheckAndCompute(WithCost(table, name, cost), pending)
    /\ UNCHANGED <<alive, fib, cs, asks, nacks>>

(* The first round of the loop removes the names that are complete now; it *)
(* looks each up again when it comes to it in the copy of the table.       *)
LoopFails(tab) == \E k \in DOMAIN tab : k > 1 /\ AllAvailable(tab[FirstOf(tab, tab[k].name)])

(* Mutant of HandleNack: the name is still awaited.                        *)
HandleNackAwaiting(name) ==
    /\ alive /\ name \in outstanding /\ outstanding' = outstanding \ {name}
    /\ nacks > 0 /\ nacks' = nacks - 1 /\ UNCHANGED <<fib, cs, asks>>
    /\ CheckAndCompute(table, pending) /\ UNCHANGED alive

(* handleNack.  The Nack of the name without the marker, which follows if  *)
(* the first entry awaits nothing any more, changes nothing here.          *)
HandleNack(name) ==
    LET tab == WithoutName(table, name) IN
    /\ alive /\ name \in outstanding
    /\ nacks > 0 /\ nacks' = nacks - 1 /\ UNCHANGED <<fib, cs, asks>>
    /\ \/ LoopFails(tab) /\ Crash
       \/ /\ ~LoopFails(tab) /\ outstanding' = outstanding \ {name}
          /\ CheckAndCompute(tab, pending) /\ UNCHANGED alive

-----------------------------------------------------------------------------
(* What the NFN layer makes of the plans: compute_fwd and rewrite of       *)
(* ThunkPlanExecutor.                                                      *)

IsList(path) == path # None /\ DOMAIN path = {"list"}

(* Without a plan of its own a name is looked for in those of the others,  *)
(* which have to be lists of names.                                        *)
LookupFails(name) ==
    /\ name \notin DOMAIN plans
    /\ \E n \in DOMAIN plans : ~IsList(plans[n].path)

(* The length of a plan that is a name is that of the name, three or more. *)
compute_fwd_by_plan(name) ==
    \/ name \in DOMAIN plans /\ IsList(plans[name].path) /\ Len(plans[name].path.list) = 1
    \/ /\ name \notin DOMAIN plans
       /\ \E n \in DOMAIN plans : \E r \in Range(plans[n].path.list) :
             network_name_to_nfn_str(r) = network_name_to_nfn_str(name)

-----------------------------------------------------------------------------

Init == \E scene \in Scenes :
    /\ table = << >> /\ plans = << >> /\ outstanding = {} /\ pending = {}
    /\ alive = TRUE /\ last = {}
    /\ asks = scene.asks /\ nacks = scene.nacks /\ fib = scene.fib /\ cs = scene.cs

NetworkAnswers(name) == HandleNack(name) \/ \E c \in Costs \cup {MaxCost} : HandleContent(name, c)

Next ==
    \/ \E name \in DOMAIN asks : Interest(name)
    \/ \E name \in outstanding : NetworkAnswers(name)

Spec == Init /\ [][Next]_vars

(* The network answers: the ICN layer below gives every interest of an     *)
(* application an answer, if only by its own timeout.                      *)
Fairness == WF_vars(\E name \in outstanding : NetworkAnswers(name))
FairSpec == Spec /\ Fairness

-----------------------------------------------------------------------------
(* Properties *)

(* Entries are keyed by distinct names, and those of the table belong to   *)
(* consumers that wait; the costs known are costs.                         *)
TypeOK ==
    /\ \A k \in DOMAIN table : table[k].name \in pending
    /\ \A k \in DOMAIN table, n \in DOMAIN asks :
          n \in DOMAIN table[k].awaiting => Cost(table[k].awaiting, n) \in Costs \cup {0, MaxCost, None}

(* No entry waits in vain: what it awaits has been asked of the network    *)
(* and is not answered yet.                                                *)
AwaitsTheNetwork ==
    \A k \in DOMAIN table : \A n \in DOMAIN table[k].awaiting :
        table[k].awaiting[n] = None => n \in outstanding

(* The cost answered is the least one there is, from what is known of the  *)
(* pieces, whatever calls of the computation are forwarded as a whole.     *)
Forwards(t) ==
    {S \in SUBSET CallsIn(t) : \A p, q \in S : p # q => ~IsPrefix(p, q)}
PiecesOf(t, S) ==
    {p \in DOMAIN t : /\ t[p].kind \in {"FUNCCALL", "NAME"}
                      /\ \A q \in S : ~IsPrefix(q, p)}
CostsOf(name, S, aw) ==
    [p \in S \cup PiecesOf(Ast[name], S) |->
        LET names == IF p \in S THEN Range(Elsewhere[name][p])
                     ELSE {DataName(Ast[name][p].element)}
        IN  {aw[n] : n \in DOMAIN aw \cap names} \ {None}]
Least(name, aw) ==
    LET total(S) == FoldSet(LAMBDA p, sum : sum + Min(CostsOf(name, S, aw)[p]),
                            0, S \cup PiecesOf(Ast[name], S))
        possible == {S \in Forwards(Ast[name]) : {} \notin Range(CostsOf(name, S, aw))}
    IN  Min({MaxCost} \cup {total(S) : S \in possible})
CheapestPlan ==
    \A a \in last : a.name \in Computations => a.cost = Least(a.name, a.awaiting)

(* No handler of the thunk layer raises an exception.                      *)
NeverFails == alive

(* Whoever asks for the cost of a computation is answered.                 *)
Answered == []<>(pending = {})

(* What the NFN layer asks of the plan table can be answered.              *)
PlansCanBeRead == \A name \in DOMAIN asks : ~LookupFails(name)

(* A computation is forwarded if that was found to be the cheapest.        *)
PlansFollowed ==
    \A name \in DOMAIN plans :
        plans[name].path # None /\ ~IsList(plans[name].path) => compute_fwd_by_plan(name)
===============================================================================

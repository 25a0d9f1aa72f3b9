------------------------------- MODULE NFNLayer -------------------------------
(***************************************************************************)
(* BasicNFNLayer and its computation table.  The handlers call one another *)
(* recursively while other layers read the table, so the calls that are    *)
(* still to be made are kept on a stack, and each call is a step.          *)
(*                                                                         *)
(* The table is a list in a manager process: a lookup returns a copy, and  *)
(* a handler removes an entry and appends the copy it has modified.        *)
(***************************************************************************)
EXTENDS ICNView

CONSTANTS
    Optimizers, \* the optimizers the node may be started with
    Broken      \* functions whose code no executor can execute

ASSUME NFNAssumption ==
    /\ Optimizers \subseteq {"ToDataFirst", "MapReduce", "Edge", "Eager"}
    /\ Broken \subseteq Data

VARIABLES
    table,      \* the computation table
    todo,       \* the calls the layer has still to make, the next one first
    up,         \* packets for this layer, oldest first
    down,       \* packets from this layer, oldest first
    crashed,    \* an exception has ended the process of the layer
    optimizer, fib  \* what the layer decides with, besides the content store

nfn == <<table, todo, up, down, crashed>>
world == <<optimizer, fib>>

Call(op, arg) == [op |-> op, arg |-> arg]

-----------------------------------------------------------------------------
(* Computation table *)

NFNComputationState == {"START", "FWD", "EXEC", "REWRITE", "WRITEBACK"}

NewComputation(name, ast) ==
    [name |-> name, ast |-> ast, state |-> "START", awaiting |-> << >>,
     available |-> [n \in {} |-> << >>], rewrites |-> << >>]

Named(name) == {k \in DOMAIN table : table[k].name = name}
is_comp_running(name) == Named(name) # {}
get_computation(name) == table[CHOOSE k \in Named(name) : \A j \in Named(name) : k <= j]

Without(name) == SelectSeq(table, LAMBDA e : e.name # name)
Appended(t, e) == IF \E k \in DOMAIN t : t[k].name = e.name THEN t ELSE Append(t, e)

add_computation(t, name, ast) == Appended(t, NewComputation(name, ast))

(* The entry goes to the end of the list.                                  *)
update_status(t, name, state) ==
    LET e == CHOOSE x \in ToSet(t) : x.name = name
    IN  Appended(SelectSeq(t, LAMBDA x : x.name # name), [e EXCEPT !.state = state])

(* A name that is added again is awaited twice.                            *)
add_name_to_await_list(e, names) == [e EXCEPT !.awaiting = @ \o names]

RewriteName(e) == nfn_str_to_network_name(Head(e.rewrites))

(* Mutant of Pushed: what has been received stays on the await list. *)
PushedKept(e, c) ==
    IF \E k \in DOMAIN e.awaiting : e.awaiting[k] = c.name
    THEN [e EXCEPT !.available = [n \in {c.name} |-> c.value] @@ @] ELSE e

(* NFNComputationTableEntry.push_data: what an entry becomes when it is    *)
(* given content.  Content that is already there is not taken again, even  *)
(* if its name is awaited a second time.                                   *)
Pushed(e, c) ==
    LET kept == [n \in {c.name} |-> c.value] @@ e.available
    IN  IF e.state = "REWRITE" /\ RewriteName(e) = c.name
        THEN [e EXCEPT !.state = "WRITEBACK", !.available = kept]
        ELSE IF c.name \in ToSet(e.awaiting) \ DOMAIN e.available
        THEN [e EXCEPT !.available = kept, !.awaiting = RemoveFirst(@, c.name)]
        ELSE e

ready_to_continue(e) == e.state = "WRITEBACK" \/ e.awaiting = << >>

(* Every computation is given the content, and then those that are ready   *)
(* are looked up.                                                          *)
push_data(t, c) == [k \in DOMAIN t |-> Pushed(t[k], c)]
get_ready_computations(t) == SelectSeq(t, ready_to_continue)

-----------------------------------------------------------------------------
(* The calls.  Each takes its own frame off the stack; more puts calls     *)
(* before those that are left.                                             *)

Now(op) == ~crashed /\ todo # << >> /\ Head(todo).op = op
Arg == Head(todo).arg
Then(more) == todo' = more \o Tail(todo)
Put(p) == down' = Append(down, p)

(* An exception leaves all handlers, and with them the loop of the layer.  *)
Crash ==
    /\ crashed' = TRUE /\ todo' = << >>
    /\ UNCHANGED <<table, down>>

SendDown == Now("send") /\ Put(Arg) /\ Then(<< >>) /\ UNCHANGED <<table, crashed>>

(* handleInterest *)
HandleInterest ==
    LET n == Arg IN
    /\ Now("interest") /\ UNCHANGED crashed
    /\ \/ /\ ~IsNFN(n)
          /\ Put(Interest(n)) /\ Then(<< >>) /\ UNCHANGED table
       \/ /\ IsNFN(n) /\ is_comp_running(n)
          /\ Then(<< >>) /\ UNCHANGED <<table, down>>
       \/ /\ IsNFN(n) /\ ~is_comp_running(n)
          /\ LET new == add_computation(table, n, Parse(network_name_to_nfn_str(n)))
             IN  table' = update_status(new, n, "FWD")
          /\ Then(<<Call("decide", n)>>) /\ UNCHANGED down

(* The first half of forwarding_descision, up to the second time the       *)
(* optimizer is asked.                                                     *)
DecideForward ==
    LET n == Arg
        e == get_computation(n)
        rewrites == rewrite(optimizer, e.ast, fib)
        forward == [e EXCEPT !.state = "REWRITE", !.rewrites = rewrites]
    IN  /\ Now("decide")
        /\ IF ~is_comp_running(n) THEN Crash
           ELSE /\ \E rsu \in BOOLEAN :
                    IF compute_fwd(optimizer, e.ast, n.at, cs, fib, rsu) /\ rewrites # << >>
                    THEN /\ table' = Append(Without(n), forward)
                         /\ Put(Interest(RewriteName(forward)))
                         /\ Then(<<Call("local", forward)>>)
                    ELSE Then(<<Call("local", e)>>) /\ UNCHANGED <<table, down>>
                /\ UNCHANGED crashed

(* The second half: the decision to compute here is a second look at FIB   *)
(* and content store, with the entry as it was before.                     *)
DecideLocal ==
    LET e == Arg IN
    /\ Now("local") /\ UNCHANGED <<down, crashed>>
    /\ \E rsu \in BOOLEAN :
        IF compute_local(optimizer, e.ast, e.name.at, cs, fib, rsu)
        THEN table' = Without(e.name) /\ Then(<<Call("fetch", e)>>)
        ELSE Then(<< >>) /\ UNCHANGED table

(* fetch_parameter_and_compute_local: the calls it makes.  The function is *)
(* asked for first, so that something is awaited whatever the parameters.  *)
SubName(ast, q) == CompName(None, Str(Subtree(ast, q)))
ParamNames(ast) ==
    LET name(q) == CASE ast[q].kind = "NAME" -> <<DataName(ast[q].element)>>
                     [] ast[q].kind = "FUNCCALL" -> <<SubName(ast, q)>>
                     [] OTHER -> << >>
        list[k \in 0 .. Cardinality(Params(ast, << >>))] ==
            IF k = 0 THEN <<DataName(ast[<< >>].element)>>
            ELSE list[k - 1] \o name(<<k>>)
    IN  list[Cardinality(Params(ast, << >>))]

Fetching(e) ==
    LET names == ParamNames(e.ast)
        awaiting == add_name_to_await_list(e, names)
    IN  Append([k \in DOMAIN names |->
                   IF IsNFN(names[k]) THEN Call("interest", names[k])
                   ELSE Call("send", Interest(names[k]))],
               Call("append", [awaiting EXCEPT !.state = "EXEC"]))

Fetch ==
    /\ Now("fetch") /\ UNCHANGED <<table, down, crashed>>
    /\ Then(IF IsFuncCall(Arg.ast) THEN Fetching(Arg)
            ELSE <<Call("nack", Nack(Arg.name)), Call("send", Nack(Arg.name))>>)

AppendComputation ==
    /\ Now("append") /\ table' = Appended(table, Arg)
    /\ Then(<< >>) /\ UNCHANGED <<down, crashed>>

(* handleContent: content that some computation takes is not passed on.    *)
(* The computations that are ready are looked up once, at the beginning.   *)
HandleContent ==
    LET c == Arg
        pushed == push_data(table, c)
        ready == get_ready_computations(pushed)
        next(e) == CASE e.state = "FWD" -> <<Call("decide", e.name)>>
                     [] e.state \in {"EXEC", "WRITEBACK"} -> <<Call("compute", e.name)>>
                     [] OTHER -> << >>
    IN  /\ Now("content") /\ UNCHANGED <<down, crashed>>
        /\ IF pushed = table THEN Then(<<Call("send", c)>>) /\ UNCHANGED table
           ELSE /\ table' = pushed
                /\ Then(FlattenSeq([k \in DOMAIN ready |-> next(ready[k])]))

(* NFNPythonExecutor.execute has no result if the code cannot be executed. *)
Executable(fcode) == fcode[1].e \notin Broken

(* The value of a call: the function applied to its arguments, written as  *)
(* the expression it is the value of.                                      *)
Applied(fcode, args) ==
    LET list[k \in 0 .. Len(args)] ==
          IF k = 0 THEN << >> ELSE list[k - 1] \o (IF k = 1 THEN << >> ELSE <<Comma>>) \o args[k]
    IN  <<Token("FUNCCALL", fcode[1].e)>> \o list[Len(args)] \o <<End>>

(* compute.  A parameter that was never received is a reason for a Nack.   *)
Compute ==
    LET n == Arg
        e == get_computation(n)
        f == DataName(e.ast[<< >>].element)
        arg(q) == CASE e.ast[q].kind = "NAME" -> e.available[DataName(e.ast[q].element)]
                    [] e.ast[q].kind = "FUNCCALL" -> e.available[SubName(e.ast, q)]
                    [] OTHER -> <<Token("CONST", e.ast[q].element)>>
        args == [k \in 1 .. Cardinality(Params(e.ast, << >>)) |-> arg(<<k>>)]
    IN  /\ Now("compute")
        /\ IF ~is_comp_running(n) THEN Then(<< >>) /\ UNCHANGED <<table, down, crashed>>
           ELSE /\ table' = Without(n) /\ UNCHANGED <<down, crashed>>
                /\ Then(IF e.state = "WRITEBACK"
                        THEN <<Call("content", Content(n, e.available[RewriteName(e)]))>>
                        ELSE IF ToSet(ParamNames(e.ast)) \subseteq DOMAIN e.available
                                /\ Executable(e.available[f])
                        THEN <<Call("content", Content(n, Applied(e.available[f], args)))>>
                        ELSE <<Call("send", Nack(n))>>)

(* The loop of handleNack over a copy of the container.  The loop ends     *)
(* early when a computation is left with the rewrite 'local': the rest of  *)
(* the computations is not looked at, and none is removed.                 *)
Nacked(state, e) ==
    LET hit == e.state = "REWRITE" /\ e.rewrites # << >> /\ state.name = RewriteName(e)
        left == [e EXCEPT !.rewrites = Tail(@)]
        times == IF state.name = e.name THEN <<e.name>>
                 ELSE [k \in DOMAIN SelectSeq(e.awaiting, LAMBDA a : a = state.name) |-> e.name]
        others == SelectSeq(state.table, LAMBDA x : x.name # e.name)
    IN  CASE state.local # << >> -> state
          [] state.local = << >> /\ hit /\ Len(e.rewrites) = 1 ->
                [state EXCEPT !.table = Append(others, left),
                              !.remove = Append(@, e.name)]
          [] state.local = << >> /\ hit /\ Len(e.rewrites) > 1 /\ e.rewrites[2] = Local ->
                [state EXCEPT !.table = others, !.local = <<left>>]
          [] state.local = << >> /\ hit /\ Len(e.rewrites) > 1 /\ e.rewrites[2] # Local ->
                [state EXCEPT !.table = Append(others, left),
                              !.sent = Append(@, Interest(RewriteName(left)))]
          [] OTHER -> [state EXCEPT !.table = Append(others, e),
                                    !.remove = @ \o times]

HandleNack ==
    LET end == FoldLeft(Nacked, [table |-> table, name |-> Arg.name, remove |-> << >>,
                                 sent |-> << >>, local |-> << >>], table)
    IN  /\ Now("nack") /\ table' = end.table
        /\ down' = down \o end.sent /\ UNCHANGED crashed
        /\ Then(IF end.local # << >> THEN <<Call("fetch", end.local[1])>>
                ELSE [k \in DOMAIN end.remove |-> Call("remove", end.remove[k])])

(* One round of the second loop of handleNack.  A computation on the list  *)
(* may have been removed by the round before.                              *)
RemoveNacked ==
    /\ Now("remove")
    /\ IF ~is_comp_running(Arg) THEN Crash
       ELSE /\ table' = Without(Arg) /\ Put(Nack(Arg))
            /\ Then(<<Call("nack", Nack(Arg))>>) /\ UNCHANGED crashed

(* data_from_lower *)
NFNReceive ==
    /\ ~crashed /\ todo = << >> /\ up # << >>
    /\ todo' = <<Call(Head(up).type, IF Head(up).type = "interest" THEN Head(up).name
                                     ELSE Head(up))>>
    /\ up' = Tail(up)
    /\ UNCHANGED <<table, down, crashed>>

NFNStep ==
    \/ NFNReceive
    \/ /\ UNCHANGED up
       /\ \/ SendDown \/ HandleInterest \/ DecideForward \/ DecideLocal \/ Fetch
          \/ AppendComputation \/ HandleContent \/ Compute \/ HandleNack \/ RemoveNacked

NFNInit ==
    /\ table = << >> /\ todo = << >> /\ up = << >> /\ down = << >> /\ crashed = FALSE
    /\ optimizer \in Optimizers
===============================================================================

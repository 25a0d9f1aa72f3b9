---------------------------- MODULE NFNExpressions ----------------------------
(***************************************************************************)
(* NFN expressions, the names they travel under, and what the optimizers   *)
(* make of them.                                                           *)
(*                                                                         *)
(* A string is a sequence of tokens.  An abstract syntax tree is a map     *)
(* from paths to nodes: the root has the empty path, and the path of the   *)
(* k-th parameter of a node is the path of the node with k appended.       *)
(***************************************************************************)
EXTENDS Integers, Sequences, FiniteSets, SequencesExt

CONSTANTS
    Elements,   \* names of functions and data, and the constants
    Data,       \* the elements that are names: those of functions and data
    None        \* the absence of a name, a tree or a value

ASSUME ElementsAssumption == Data \subseteq Elements /\ None \notin Elements

TokenTypes == {"FUNCCALL", "ENDFUNCCALL", "PARAMSEPARATOR", "NAME", "CONST"}

(* A token; marked is the prepend marker around an element, and the        *)
(* element "_" stands for the name a network name was prepended with.      *)
Token(type, e) == [type |-> type, e |-> e, marked |-> FALSE]
End == Token("ENDFUNCCALL", None)
Comma == Token("PARAMSEPARATOR", None)

Node(token) == [kind |-> token.type, element |-> token.e]

-----------------------------------------------------------------------------
(* Trees *)

Params(ast, p) == {q \in DOMAIN ast : q # << >> /\ Front(q) = p}
IsFuncCall(ast) == ast # None /\ ast[<< >>].kind = "FUNCCALL"

Subtree(ast, p) ==
    [q \in {SubSeq(r, Len(p) + 1, Len(r)) : r \in {s \in DOMAIN ast : IsPrefix(p, s)}}
        |-> ast[p \o q]]

(* str(ast) *)
Str(ast) ==
    LET str[p \in DOMAIN ast] ==
          LET list[k \in 0 .. Cardinality(Params(ast, p))] ==
                IF k = 0 THEN << >>
                ELSE list[k - 1] \o (IF k = 1 THEN << >> ELSE <<Comma>>)
                                 \o str[Append(p, k)]
          IN  <<Token(ast[p].kind, ast[p].element)>> \o
              (IF ast[p].kind = "FUNCCALL"
               THEN list[Cardinality(Params(ast, p))] \o <<End>> ELSE << >>)
    IN  str[<< >>]

(* Mutant of LastOf: every parameter goes to the root. *)
LastOfRoot(ast, depth) == << >>

(* The element a token is added to: from the root, depth - 1 times the     *)
(* last parameter.                                                         *)
LastOf(ast, depth) ==
    LET cur[i \in 0 .. depth] ==
          IF i <= 1 THEN << >>
          ELSE Append(cur[i - 1], Cardinality(Params(ast, cur[i - 1])))
    IN  cur[depth]

(* One round of the loop of parse: state is the tree and the depth.        *)
Consumed(state, token) ==
    LET ast == state.ast
        at == LastOf(ast, state.depth)
        is == token.type \notin {"ENDFUNCCALL", "PARAMSEPARATOR"}
    IN  [ast |-> CASE ~is \/ state.error -> ast
                   [] ast = None -> [q \in {<< >>} |-> Node(token)]
                   [] OTHER -> LET new == Append(at, Cardinality(Params(ast, at)) + 1)
                               IN  [q \in DOMAIN ast \cup {new} |->
                                       IF q = new THEN Node(token) ELSE ast[q]],
         depth |-> CASE token.type = "FUNCCALL" -> state.depth + 1
                     [] token.type = "ENDFUNCCALL" -> state.depth - 1
                     [] OTHER -> state.depth,
         error |-> state.error \/ (is /\ ast # None /\ ast[at].kind # "FUNCCALL")]

Parse(str) ==
    LET end == FoldLeft(Consumed, [ast |-> None, depth |-> 0, error |-> FALSE], str)
    IN  IF end.error \/ end.depth # 0 THEN None ELSE end.ast

-----------------------------------------------------------------------------
(* Names.  A computation has the name at/expr/NFN, or expr/NFN if at is    *)
(* None; keepalive marks at/expr/KEEPALIVE/NFN.  Data has the name at.     *)

DataName(d) == [at |-> d, expr |-> None, keepalive |-> FALSE]
CompName(at, expr) == [at |-> at, expr |-> expr, keepalive |-> FALSE]
IsNFN(name) == name.expr # None

Subst(str, from, to) ==
    [k \in DOMAIN str |-> IF str[k].e = from THEN [str[k] EXCEPT !.e = to] ELSE str[k]]

network_name_to_nfn_str(name) ==
    IF name.at = None THEN name.expr ELSE Subst(name.expr, "_", name.at)

nfn_str_to_network_name(str) ==
    LET k == {i \in DOMAIN str : str[i].marked}
        i == CHOOSE i \in k : TRUE
    IN  IF k = {} THEN CompName(None, str)
        ELSE CompName(str[i].e, [str EXCEPT ![i] = Token(str[i].type, "_")])

-----------------------------------------------------------------------------
(* Optimizers *)

ElementsOf(ast, kind) ==
    LET toks == IF ast = None THEN << >>
                ELSE SelectSeq(Str(ast), LAMBDA t : t.type = kind)
    IN  [k \in DOMAIN toks |-> toks[k].e]
get_names_from_ast(ast) == ElementsOf(ast, "NAME")
get_functions_from_ast(ast) == ElementsOf(ast, "FUNCCALL")

(* The first node with that element, in the order of printing, is printed  *)
(* with the marker; None if there is no such node.                         *)
set_prepended_name(ast, name) ==
    LET str == Str(ast)
        ks == {k \in DOMAIN str : str[k].type \in {"FUNCCALL", "NAME"} /\ str[k].e = name}
    IN  IF ks = {} THEN None
        ELSE [str EXCEPT ![CHOOSE k \in ks : \A j \in ks : k <= j].marked = TRUE]

(* fib maps the names that have a route to the faces of the route.         *)
WithRoute(names, fib) == SelectSeq(names, LAMBDA n : n \in DOMAIN fib)

(* Local stands for the string 'local' at the end of a list of rewrites.   *)
Local == <<Token("CONST", "local")>>

Rewrites(ast, fib) ==
    LET tried == WithRoute(get_names_from_ast(ast), fib)
                 \o WithRoute(get_functions_from_ast(ast), fib)
    IN  [k \in DOMAIN tried |-> set_prepended_name(ast, tried[k])]

HasRoute(ast, fib) ==
    ToSet(get_names_from_ast(ast) \o get_functions_from_ast(ast))
        \cap DOMAIN fib # {}

(* check_ast_params_against_fib_for_multiple_pathes: the type of a         *)
(* parameter is never false, so a nested call counts by its function name. *)
MultiplePaths(ast, fib) ==
    LET routed == {ast[q].element : q \in Params(ast, << >>)} \cap DOMAIN fib
    IN  /\ IsFuncCall(ast) /\ Cardinality(Params(ast, << >>)) >= 2
        /\ Cardinality(UNION {fib[d] : d \in routed}) > 1

(* compute_local and compute_fwd of the optimizers a forwarder can be      *)
(* started with.  rsu says that the PIT entry of the interest belongs to   *)
(* another road side unit, own that the name has a route away from it.     *)
ToDataFirst_local(ast, at, cs, fib) == at \in cs \/ ~HasRoute(ast, fib)
ToDataFirst_fwd(ast, at, cs, fib) == at \notin cs /\ HasRoute(ast, fib)

MapReduce_local(ast, at, cs, fib) ==
    at \in cs \/ MultiplePaths(ast, fib) \/ ~HasRoute(ast, fib)
MapReduce_fwd(ast, at, cs, fib) ==
    at \notin cs /\ ~MultiplePaths(ast, fib) /\ HasRoute(ast, fib)

Edge_local(ast, cs, rsu) == IsFuncCall(ast) /\ ast[<< >>].element \in cs /\ ~rsu
Edge_fwd(at, fib) == at \in DOMAIN fib

compute_local(optimizer, ast, at, cs, fib, rsu) ==
    CASE optimizer = "ToDataFirst" -> ToDataFirst_local(ast, at, cs, fib)
      [] optimizer = "MapReduce" -> MapReduce_local(ast, at, cs, fib)
      [] optimizer = "Edge" -> Edge_local(ast, cs, rsu)
      [] optimizer = "Eager" -> TRUE
compute_fwd(optimizer, ast, at, cs, fib, rsu) ==
    CASE optimizer = "ToDataFirst" -> ToDataFirst_fwd(ast, at, cs, fib)
      [] optimizer = "MapReduce" -> MapReduce_fwd(ast, at, cs, fib)
      [] optimizer = "Edge" -> Edge_fwd(at, fib)
      [] optimizer = "Eager" -> FALSE
rewrite(optimizer, ast, fib) ==
    CASE optimizer \in {"ToDataFirst", "MapReduce"} -> Append(Rewrites(ast, fib), Local)
      [] optimizer = "Edge" -> Rewrites(ast, fib)
      [] optimizer = "Eager" -> << >>
===============================================================================

------------------------------- MODULE Management -------------------------------
(***************************************************************************)
(* Mgmt and MgmtClient: a process of its own takes the commands of an      *)
(* operator's clients, one connection at a time, and changes the tables of *)
(* a running program, or stops the program.                                *)
(*                                                                         *)
(* A request is one message and so is its reply.  An exception while a     *)
(* request is handled closes the connection and ends the process, but the  *)
(* listening socket lives on in the main process, and takes connections.   *)
(* The face table is modelled in detail in FaceTable; here its calls do    *)
(* not overlap and no face is evicted.                                     *)
(***************************************************************************)
EXTENDS ICNTables, FiniteSetsExt, Functions

CONSTANTS
    Clients,
    Scenes,         \* a program: icn: has ICN tables; repo: has a folder and
                    \* a prefix; layers, from the top; shutdown: "stop" or
                    \* "start"; and the script of each client
    Addresses,
    Interfaces,     \* the number of interfaces of the link layer
    Backlog,        \* listen(5)
    Servers         \* management processes, the first of which is started

ASSUME ManagementAssumption ==
    /\ Interfaces \in Nat /\ Backlog \in Nat \ {0} /\ Servers \in Nat \ {0}
    /\ \A s \in Scenes : s.program.shutdown \in {"stop", "start"} /\ DOMAIN s.script = Clients
    (* No repository has the tables of a forwarder.                        *)
    /\ \A s \in Scenes : s.program.icn => "repolayer" \notin Range(s.program.layers)

VARIABLES
    program,
    layers,     \* how many processes each layer has
    mgmt,       \* of each server: "absent", "polling", "stopping", "ended"
                \* or the client it serves
    backlog,    \* connections nobody has accepted
    script,     \* the requests each client makes, in order
    client,     \* "out", "connected", "sent", or "left" without a request
    replies,    \* what each client has been told
    fib, cs, faces

server == <<layers, mgmt>>
clients == <<backlog, script, client, replies>>
tables == <<fib, cs, faces>>
mvars == <<program, server, clients, tables>>

-----------------------------------------------------------------------------
(* MgmtClient *)

Asked(c) == script[c][Len(replies[c]) + 1]

(* A client stops when it is refused.                                      *)
Asks(c) ==
    /\ Len(replies[c]) < Len(script[c])
    /\ \A k \in DOMAIN replies[c] : replies[c][k].ok

Alive == {s \in 1 .. Servers : mgmt[s] \notin {"absent", "ended"}}

Connect(c) ==
    /\ client[c] = "out" /\ Asks(c) /\ Len(backlog) < Backlog
    /\ client' = [client EXCEPT ![c] = "connected"] /\ backlog' = Append(backlog, c)
    /\ UNCHANGED <<program, server, script, replies, tables>>

(* A client that is interrupted between its calls leaves the connection.   *)
Send(c) ==
    /\ client[c] = "connected"
    /\ client' = [client EXCEPT ![c] = IF Asked(c).command = "leave" THEN "left" ELSE "sent"]
    /\ UNCHANGED <<program, server, backlog, script, replies, tables>>

-----------------------------------------------------------------------------
(* The commands *)

(* Mutant of FaceOf: the last id is returned, also for a known address.    *)
FaceOfLast(a) == IF a \in Range(faces) THEN Len(faces) - 1 ELSE Len(faces)

(* get_or_create_faceid: ids count from 0, in the order faces are added.   *)
FaceOf(a) ==
    IF a \in Range(faces) THEN (CHOOSE k \in DOMAIN faces : faces[k] = a) - 1 ELSE Len(faces)

ll_mgmt(r) ==
    IF r.if_num < Interfaces THEN [ok |-> TRUE, fid |-> FaceOf(r.address)] ELSE [ok |-> FALSE]

WithFace(a) == IF a \in Range(faces) THEN faces ELSE Append(faces, a)

(* The client escapes the slashes of a command, and the server undoes it   *)
(* in the name alone.                                                      *)
AsSent(data) == IF data = "slash" THEN "escaped" ELSE data

(* The faces of a rule: those given, or the one the client was last told.  *)
RuleFaces(c, r) ==
    IF r.told THEN {replies[c][k].fid : k \in {Len(replies[c])}} ELSE r.faceid

(* No list of faces can be read as numbers but one that has a number.      *)
Fails(c, r) ==
    \/ client[c] = "left"
    \/ program.icn /\ r.command = "newforwardingrule" /\ RuleFaces(c, r) = {}

(* What the command answers, and what it changes.                          *)
Answer(c, r) ==
    CASE r.command = "newface" -> ll_mgmt(r)
      [] r.command \in {"newforwardingrule", "newcontent"} -> [ok |-> program.icn]
      [] r.command \in {"getprefix", "getpath"} -> [ok |-> program.repo]
      [] OTHER -> [ok |-> FALSE]

Execute(c, r) ==
    /\ faces' = IF r.command = "newface" /\ r.if_num < Interfaces THEN WithFace(r.address) ELSE faces
    /\ fib' = IF r.command = "newforwardingrule" /\ program.icn
              THEN AddFib(fib, r.name, RuleFaces(c, r), TRUE) ELSE fib
    /\ cs' = IF r.command = "newcontent" /\ program.icn
             THEN [cs EXCEPT ![r.name] = AddContent(@, AsSent(r.data), TRUE)] ELSE cs

-----------------------------------------------------------------------------
(* The management process *)

(* Mutant of Close: a connection is not closed after an exception.         *)
CloseAnswered(c, reply) ==
    /\ client' = [client EXCEPT ![c] = IF reply.ok THEN "out" ELSE @]
    /\ replies' = [replies EXCEPT ![c] = Append(@, reply)]

(* The finally clause closes the connection, whatever has happened; a      *)
(* client that gets no reply reads the end of the connection.              *)
Close(c, reply) ==
    /\ client' = [client EXCEPT ![c] = "out"]
    /\ replies' = [replies EXCEPT ![c] = Append(@, reply)]

Accept(s) ==
    /\ mgmt[s] = "polling" /\ backlog # <<>>
    /\ mgmt' = [mgmt EXCEPT ![s] = Head(backlog)] /\ backlog' = Tail(backlog)
    /\ UNCHANGED <<program, layers, script, client, replies, tables>>

(* recv waits for the client that is served, and so do all others.         *)
Handle(s) ==
    \E c \in Clients :
        LET r == Asked(c) IN
        /\ mgmt[s] = c /\ client[c] \in {"sent", "left"} /\ r.command # "shutdown"
        /\ \/ /\ Fails(c, r) /\ Close(c, [ok |-> FALSE])
              /\ mgmt' = [mgmt EXCEPT ![s] = "ended"] /\ UNCHANGED tables
           \/ /\ ~Fails(c, r) /\ Execute(c, r) /\ Close(c, Answer(c, r))
              /\ mgmt' = [mgmt EXCEPT ![s] = "polling"]
        /\ UNCHANGED <<program, layers, script, backlog>>

(* The client is told before anything is done.                             *)
HandleShutdown(s) ==
    \E c \in Clients :
        /\ mgmt[s] = c /\ client[c] = "sent" /\ Asked(c).command = "shutdown"
        /\ Close(c, [ok |-> TRUE]) /\ mgmt' = [mgmt EXCEPT ![s] = "stopping"]
        /\ UNCHANGED <<program, layers, script, backlog, tables>>

(* Mutant of StopOrder: the lowest layer, which others wait for, is left.  *)
StopOrderButLast == SubSeq(program.layers, 1, Len(program.layers) - 1)

StopOrder == program.layers

(* stop_all ends one layer process after the other.                        *)
StopLayer(s) ==
    \E k \in DOMAIN StopOrder :
        /\ mgmt[s] = "stopping" /\ program.shutdown = "stop"
        /\ layers[StopOrder[k]] > 0 /\ \A j \in 1 .. k - 1 : layers[StopOrder[j]] = 0
        /\ layers' = [layers EXCEPT ![StopOrder[k]] = 0]
        /\ UNCHANGED <<program, mgmt, clients, tables>>

(* Then the process is to stop itself.  It is not its own parent, and the  *)
(* exception it gets instead ends it.                                      *)
StopManagement(s) ==
    /\ mgmt[s] = "stopping" /\ program.shutdown = "stop"
    /\ \A k \in DOMAIN StopOrder : layers[StopOrder[k]] = 0
    /\ mgmt' = [mgmt EXCEPT ![s] = "ended"]
    /\ UNCHANGED <<program, layers, clients, tables>>

(* The shutdown function a data repository gives to its management is the  *)
(* one that starts it: the processes are started a second time.            *)
StartAgain(s) ==
    /\ mgmt[s] = "stopping" /\ program.shutdown = "start"
    /\ layers' = [l \in DOMAIN layers |-> layers[l] + 1]
    /\ \E n \in 1 .. Servers :
          mgmt[n] = "absent" /\ mgmt' = [mgmt EXCEPT ![s] = "polling", ![n] = "polling"]
    /\ UNCHANGED <<program, clients, tables>>

Serve(s) ==
    \/ Accept(s) \/ Handle(s) \/ HandleShutdown(s)
    \/ StopLayer(s) \/ StopManagement(s) \/ StartAgain(s)

(* The link layer gives faces to those it hears from.                      *)
NewPeer(a) ==
    /\ a \notin Range(faces) /\ faces' = Append(faces, a)
    /\ \E l \in DOMAIN layers : l = "linklayer" /\ layers[l] > 0
    /\ UNCHANGED <<program, server, clients, fib, cs>>

-----------------------------------------------------------------------------
Started(p) == [l \in Range(p.layers) |-> 1]
OneServer == [s \in 1 .. Servers |-> IF s = 1 THEN "polling" ELSE "absent"]

MInit ==
    /\ \E s \in Scenes : program = s.program /\ script = s.script
    /\ layers = Started(program) /\ mgmt = OneServer /\ backlog = <<>>
    /\ client = [c \in Clients |-> "out"] /\ replies = [c \in Clients |-> <<>>]
    /\ fib = <<>> /\ cs = [n \in Names |-> <<>>] /\ faces = <<>>

MNext ==
    \/ \E c \in Clients : Connect(c) \/ Send(c)
    \/ \E s \in 1 .. Servers : Serve(s)
    \/ \E a \in Addresses : NewPeer(a)

(* A client sends what it has connected for, and management goes on.       *)
MFairness ==
    /\ \A c \in Clients : WF_mvars(Send(c))
    /\ \A s \in 1 .. Servers : WF_mvars(Serve(s))

-----------------------------------------------------------------------------
(* The types, and: whoever waits is in the backlog or is served.           *)
MTypeOK ==
    /\ \A c \in Clients : client[c] # "out" =>
          Cardinality({k \in DOMAIN backlog : backlog[k] = c}) + Cardinality({s \in 1 .. Servers : mgmt[s] = c}) = 1
    /\ Len(backlog) <= Backlog /\ \A l \in DOMAIN layers : layers[l] \in Nat
    /\ fib \in Seq(FibEntry) /\ IsInjective(faces)

(* A client that has connected hears something in the end, if only that    *)
(* the connection is closed, unless management has ended (Mgmt.mgmt        *)
(* serves one connection after the other, and waits for each to speak).    *)
Served ==
    \A c \in Clients : client[c] # "out" ~> client[c] = "out" \/ Alive = {}

(* A rule that a client has made with the face it was told leads to the    *)
(* address the client named, whoever else has got faces in the meantime    *)
(* (newface and newforwardingrule are two connections).                    *)
RulesLead ==
    \A c \in Clients : \A k \in DOMAIN replies[c] :
        /\ k > 1 /\ replies[c][k].ok /\ replies[c][k - 1].ok
        /\ script[c][k - 1].command = "newface"
        /\ script[c][k].command = "newforwardingrule" /\ script[c][k].told
        => \E e \in Range(fib) :
               /\ e.name = script[c][k].name
               /\ \E f \in e.faceid : f + 1 \in DOMAIN faces /\ faces[f + 1] = script[c][k - 1].address

(* Mgmt.__init__ takes a function pointer named shutdown, MgmtClient       *)
(* documents "shutdown a relay": when it has been confirmed, no process of *)
(* the program is left in the end.  (A data repository starts again.)      *)
Down ==
    \A s \in 1 .. Servers : mgmt[s] = "stopping" /\ program.shutdown = "stop" ~>
        mgmt[s] = "ended" /\ \A l \in DOMAIN layers : layers[l] = 0

(* The same of every program, a data repository included.                  *)
EveryShutdownStops ==
    \A s \in 1 .. Servers : mgmt[s] = "stopping" ~>
        mgmt[s] = "ended" /\ \A l \in DOMAIN layers : layers[l] = 0

(* MgmtClient.add_new_content takes "data of the content": what has been   *)
(* confirmed is in the content store as it was given.                      *)
ContentAsGiven ==
    \A c \in Clients : \A k \in DOMAIN replies[c] :
        replies[c][k].ok /\ script[c][k].command = "newcontent"
        => Cached(cs[script[c][k].name], script[c][k].data)
=================================================================================

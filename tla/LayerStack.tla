------------------------------ MODULE LayerStack ------------------------------
(***************************************************************************)
(* The stack of layers of a program (LayerStack) and the queues between    *)
(* the layers.  Until the stack is started the program may insert layers;  *)
(* from then on every layer is a process that takes one item at a time     *)
(* from the queue of its lower or of its higher neighbour (LayerProcess).  *)
(* Queues are known by their numbers, and a layer by its name.             *)
(***************************************************************************)
EXTENDS Integers, SequencesExt

CONSTANT Layers  \* the layers a program may put into the stack

VARIABLES
    layers,   \* self.layers: the topmost first
    ports,    \* the queues each layer is connected to, NoQueue if none
    queues,   \* the content of each queue, oldest first
    started

stack == <<layers, ports, started>>

NoQueue == 0
Outside == [to_higher |-> 1, from_higher |-> 2, to_lower |-> 3, from_lower |-> 4]
Unconnected == [port \in DOMAIN Outside |-> NoQueue]

PositionOf(l) == CHOOSE i \in DOMAIN layers : layers[i] = l

(* The topmost and the lowest layer get the queues of the stack itself.    *)
Ended(ls, to) ==
    [l \in Layers |->
        [port \in DOMAIN Outside |->
            IF \/ l = Head(ls) /\ port \in {"to_higher", "from_higher"}
               \/ l = Last(ls) /\ port \in {"to_lower", "from_lower"}
            THEN Outside[port] ELSE to[l][port]]]

-----------------------------------------------------------------------------
(* The constructor: between two neighbours, one queue up and one down.     *)
StackInit(ls) ==
    LET up(i) == 2 * i + 3     \* from the layer below ls[i] to ls[i]
        down(i) == 2 * i + 4
        linked(i) == [to_higher |-> up(i - 1), from_higher |-> down(i - 1),
                      to_lower |-> down(i), from_lower |-> up(i)]
    IN  /\ layers = ls
        /\ ports = Ended(ls, [l \in Layers |->
                                 IF Contains(ls, l)
                                 THEN linked(CHOOSE i \in DOMAIN ls : ls[i] = l)
                                 ELSE Unconnected])
        /\ queues = [q \in 1 .. 2 * Len(ls) + 2 |-> << >>]
        /\ started = FALSE

(* Mutant of LinkedAbove: the layer above stays with the old queues. *)
LinkedAboveNot(at, down, up) == ports

LinkedAbove(at, down, up) ==
    IF at = 1 THEN ports
    ELSE [ports EXCEPT ![layers[at - 1]].to_lower = down,
                       ![layers[at - 1]].from_lower = up]

(* __insert: two new queues lead to the layer above; those between the two *)
(* layers lead from now on to the layer below.  At the top, where there is *)
(* no layer above, the new queues lead to the layer below.                 *)
InsertLayer(l, at) ==
    LET new == Len(queues) + 1
        middle == at > 1 /\ at <= Len(layers)
        down == IF middle THEN ports[layers[at - 1]].to_lower ELSE new
        up == IF middle THEN ports[layers[at - 1]].from_lower ELSE new + 1
        above == LinkedAbove(at, new, new + 1)
        linked == IF at > Len(layers) THEN above
                  ELSE [above EXCEPT ![layers[at]].to_higher = up,
                                     ![layers[at]].from_higher = down]
        inserted == [to_higher |-> new + 1, from_higher |-> new,
                     to_lower |-> down, from_lower |-> up]
    IN  /\ layers' = InsertAt(layers, at, l)
        /\ ports' = Ended(layers', [linked EXCEPT ![l] = inserted])
        /\ queues' = queues \o << << >>, << >> >>
        /\ UNCHANGED started

(* insert and start_all *)

InsertOnTopOf(l, ref) ==
    ~started /\ Contains(layers, ref) /\ InsertLayer(l, PositionOf(ref))

InsertBelow(l, ref) ==
    ~started /\ Contains(layers, ref) /\ InsertLayer(l, PositionOf(ref) + 1)

Start == ~started /\ started' = TRUE /\ UNCHANGED <<layers, ports, queues>>

-----------------------------------------------------------------------------
(* The process of a layer, _run_poll and _run_select: both queues are      *)
(* watched, and one item is handled to the end before the next.            *)

HasData(l, port) == started /\ Contains(layers, l) /\ queues[ports[l][port]] # << >>
Data(l, port) == Head(queues[ports[l][port]])

Take(l, port) == [queues EXCEPT ![ports[l][port]] = Tail(@)]
Put(l, port, data) == [queues EXCEPT ![ports[l][port]] = Append(@, data)]

TakeAndPut(l, from, to, data) ==
    [queues EXCEPT ![ports[l][from]] = Tail(@), ![ports[l][to]] = Append(@, data)]

(* A layer that has nothing to do with an item hands it on.                *)
PassUp(l) ==
    /\ HasData(l, "from_lower")
    /\ queues' = TakeAndPut(l, "from_lower", "to_higher", Data(l, "from_lower"))
    /\ UNCHANGED stack

PassDown(l) ==
    /\ HasData(l, "from_higher")
    /\ queues' = TakeAndPut(l, "from_higher", "to_lower", Data(l, "from_higher"))
    /\ UNCHANGED stack
==============================================================================

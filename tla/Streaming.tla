------------------------------- MODULE Streaming -------------------------------
(***************************************************************************)
(* NFNPythonExecutorStreaming: a named function that takes its argument    *)
(* part by part, from a list of names or from a computation on another     *)
(* node that writes its parts out while it runs, and asks for the next     *)
(* part before it needs it.                                                *)
(*                                                                         *)
(* The function runs inside the NFN layer's process and reads the layer's  *)
(* own queue; what belongs to others it puts back.                         *)
(***************************************************************************)
EXTENDS Integers, Sequences, FiniteSets, SequencesExt

CONSTANTS
    Parts,          \* the number of parts of an argument
    Scenes,         \* form: "inner" or "list"; classic; calls of get_next
    Computations,   \* how many functions are run, one after the other
    Others,         \* packets for others that arrive in the meantime
    MaxRefused      \* bound on Nacks

ASSUME StreamingAssumption ==
    /\ Parts \in Nat \ {0} /\ Computations \in Nat /\ MaxRefused \in Nat
    /\ \A s \in Scenes : s.form \in {"inner", "list"} /\ s.classic \in BOOLEAN /\ s.calls \in Nat

VARIABLES
    scene,
    current,        \* the function that runs, counted from 1
    calls,          \* the calls of get_next it has still to make
    waiting,        \* the names get_content is called for, the innermost first
    results,        \* what get_next has returned to the function
    outcome,        \* of each function: "running", "done" or "failed"
    get_next_buffer, sent_interests, get_next_part_counter, \* of its executor
    name_list_multiple, pos_name_list_multiple,
    inbox,          \* queue_from_lower
    write_out_part_counter, wrote,  \* of the executor of the other node, and
                    \* how many parts it has written for the function
    store,          \* what can be fetched: names to parts
    requests, late, \* interests on their way, and those that have met the
                    \* other node before the part was there
    others, refused

script == <<scene, current, calls, waiting, results, outcome>>
executor == <<get_next_buffer, sent_interests, get_next_part_counter,
              name_list_multiple, pos_name_list_multiple>>
producer == <<write_out_part_counter, wrote, store>>
vars == <<script, executor, inbox, producer, requests, late, others, refused>>

-----------------------------------------------------------------------------
(* Names: the argument of a function, and the k-th part of it.             *)
Whole(c) == [of |-> c, part |-> -1]
Part(c, k) == [of |-> c, part |-> k]

Content(n, value) == [name |-> n, value |-> value]
Other(o) == [name |-> [of |-> 0, part |-> o], value |-> <<"other">>]

(* What a content carries.                                                 *)
Datum(k) == <<"part", k>>
metatitle == <<"metatitle">>
endstreaming == <<"end">>
nack == <<"nack">>
None == <<"none">>

Ends(value) == value = endstreaming

Put(names) == requests' = requests \cup names

(* An interest that is remembered as one of this computation.              *)
Send(names) == Put(names) /\ sent_interests' = sent_interests \cup names

-----------------------------------------------------------------------------
(* The function calls get_next *)

(* The inner computation is asked for with every call, and its name is not *)
(* among those remembered.                                                 *)
GetNextInner ==
    /\ scene.form = "inner" /\ Put({Whole(current)})
    /\ waiting' = <<Whole(current)>>
    /\ UNCHANGED <<results, calls, executor>>

(* check_streaming: the argument is a list of the names of parts, marked   *)
(* as one, and not a computation.                                          *)
check_streaming == scene.form = "list"

(* The names of a list, which has one more line to mark its end.           *)
Listed(pos) == pos < Parts

(* The list of names is kept from the first call, and dropped by the call  *)
(* after its last name.                                                    *)
GetNextMultiple ==
    LET fresh == name_list_multiple = 0
        list == IF fresh THEN current ELSE name_list_multiple
        pos == IF fresh THEN 0 ELSE pos_name_list_multiple
    IN  /\ check_streaming
        /\ \/ /\ Listed(pos) /\ name_list_multiple' = list
              /\ pos_name_list_multiple' = pos + 1
              /\ Send(IF scene.classic THEN {Part(list, pos)}
                      ELSE {Part(list, k) : k \in {j \in {pos, pos + 1} :
                                                      j < Parts /\ (j = pos => pos = 0)}})
              /\ waiting' = <<Part(list, pos)>> /\ UNCHANGED <<results, calls>>
           \/ /\ ~Listed(pos) /\ name_list_multiple' = 0 /\ pos_name_list_multiple' = pos
              /\ results' = Append(results, None) /\ calls' = calls - 1
              /\ UNCHANGED <<waiting, requests, sent_interests>>
        /\ UNCHANGED <<get_next_buffer, get_next_part_counter>>

GetNext ==
    /\ outcome[current] = "running" /\ waiting = <<>> /\ calls > 0
    /\ GetNextInner \/ GetNextMultiple
    /\ UNCHANGED <<scene, current, outcome, inbox, producer, late, others, refused>>

-----------------------------------------------------------------------------
(* get_content *)

(* stream_part: the content is a metatitle, and the next part is fetched.  *)
GotMetatitle(p) ==
    LET next == Part(p.name.of, get_next_part_counter) IN
    /\ p.value = metatitle /\ waiting' = <<next>> \o waiting
    /\ IF scene.classic \/ get_next_part_counter = 0 THEN Send({next})
       ELSE UNCHANGED <<requests, sent_interests>>
    /\ UNCHANGED <<results, calls, get_next_part_counter>>

(* get_next_single_name asks for the part after this one before it returns *)
GotPart(p) ==
    LET inner == Len(waiting) > 1 IN
    /\ p.value \notin {metatitle, nack} /\ waiting' = <<>>
    /\ results' = Append(results, IF inner /\ Ends(p.value) THEN None ELSE p.value)
    /\ calls' = calls - 1
    /\ IF inner /\ ~scene.classic /\ ~Ends(p.value)
       THEN Send({Part(p.name.of, p.name.part + 1)})
       ELSE UNCHANGED <<requests, sent_interests>>
    /\ get_next_part_counter' = get_next_part_counter + (IF inner THEN 1 ELSE 0)

(* A Nack has no content: the exception ends the function.                 *)
GotNack(p) ==
    /\ p.value = nack /\ waiting' = <<>> /\ calls' = 0
    /\ UNCHANGED <<results, get_next_part_counter, requests, sent_interests>>

Got(p) ==
    /\ GotMetatitle(p) \/ GotPart(p) \/ GotNack(p)
    /\ outcome' = IF p.value = nack THEN [outcome EXCEPT ![current] = "failed"] ELSE outcome
    /\ UNCHANGED <<scene, current, name_list_multiple, pos_name_list_multiple,
                   producer, late, others, refused>>

Buffered(n) == \E p \in get_next_buffer : p.name = n

FromBuffer ==
    /\ waiting # <<>>
    /\ \E p \in get_next_buffer : p.name = waiting[1] /\ Got(p)
    /\ UNCHANGED <<get_next_buffer, inbox>>

(* Mutant of NotMine: what is not waited for is dropped.                   *)
NotMineDropped(p) == <<>>

(* Mutant of Mine: whatever arrives while a part is waited for is taken.   *)
MineAll(p) == TRUE

Mine(p) == p.name = waiting[1]

(* What a packet leaves in the queue if this computation did not ask for it*)
NotMine(p) == IF p.name \in sent_interests THEN <<>> ELSE <<p>>

FromQueue ==
    LET p == Head(inbox) IN
    /\ waiting # <<>> /\ ~Buffered(waiting[1]) /\ inbox # <<>>
    /\ \/ /\ Mine(p) /\ Got(p) /\ inbox' = Tail(inbox)
          /\ get_next_buffer' = get_next_buffer \cup (IF p.value = metatitle THEN {p} ELSE {})
       \/ /\ ~Mine(p) /\ inbox' = Tail(inbox) \o NotMine(p)
          /\ get_next_buffer' = get_next_buffer \cup (IF p.name \in sent_interests THEN {p} ELSE {})
          /\ UNCHANGED <<script, sent_interests, get_next_part_counter, name_list_multiple,
                         pos_name_list_multiple, producer, requests, late, others, refused>>

(* The function returns, and the next one is run.  The executor is the     *)
(* same one, as it is.                                                     *)
Return ==
    /\ waiting = <<>> /\ calls = 0 /\ outcome[current] \in {"running", "failed"}
    /\ outcome' = [outcome EXCEPT ![current] = IF @ = "running" THEN "done" ELSE @]
    /\ IF current < Computations
       THEN /\ current' = current + 1 /\ calls' = scene.calls /\ results' = <<>> /\ wrote' = 0
       ELSE outcome[current] = "running" /\ UNCHANGED <<current, calls, results, wrote>>
    /\ UNCHANGED <<scene, waiting, executor, inbox, write_out_part_counter, store,
                   requests, late, others, refused>>

-----------------------------------------------------------------------------
(* The other node *)

Written == wrote > Parts

(* What can be fetched once n is written: with the first part this         *)
(* executor ever writes, the metatitle too.                                *)
Stored(n, value) ==
    [m \in DOMAIN store \cup {n} \cup (IF write_out_part_counter < 0 THEN {Whole(current)} ELSE {}) |->
        IF m \in DOMAIN store THEN store[m] ELSE IF m = n THEN value ELSE metatitle]

(* Mutant of write_out: parts are counted from the number of parts.        *)
write_out_over(value) ==
    /\ write_out_part_counter' = write_out_part_counter + 1
    /\ store' = Stored(Part(current, write_out_part_counter + 2), value)

write_out(value) ==
    /\ write_out_part_counter' = write_out_part_counter + 1
    /\ store' = Stored(Part(current, write_out_part_counter + 1), value)

Write ==
    /\ scene.form = "inner" /\ outcome[current] = "running" /\ ~Written
    /\ Whole(current) \in late \cup requests \cup DOMAIN store
    /\ write_out(IF wrote = Parts THEN endstreaming ELSE Datum(wrote)) /\ wrote' = wrote + 1
    /\ UNCHANGED <<script, executor, inbox, requests, late, others, refused>>

(* Content that is there is sent.  An interest for a part that is not yet  *)
(* written waits in the queue of the NFN layer until the function has      *)
(* returned; the first interest starts it, and is answered by write_out.   *)
Answer(n) ==
    /\ n \in DOMAIN store /\ inbox' = Append(inbox, Content(n, store[n]))
    /\ \/ n \in requests /\ requests' = requests \ {n} /\ UNCHANGED late
       \/ /\ n \in late /\ (Written \/ n.part < 0)
          /\ late' = late \ {n} /\ UNCHANGED requests
    /\ UNCHANGED <<script, executor, producer, others, refused>>

TooEarly(n) ==
    /\ n \in requests /\ n \notin DOMAIN store
    /\ requests' = requests \ {n} /\ late' = late \cup {n}
    /\ UNCHANGED <<script, executor, inbox, producer, others, refused>>

Refuse(n) ==
    /\ refused < MaxRefused /\ refused' = refused + 1
    /\ n \in requests /\ requests' = requests \ {n}
    /\ inbox' = Append(inbox, Content(n, nack))
    /\ UNCHANGED <<script, executor, producer, late, others>>

Arrive(o) ==
    /\ o \in others /\ others' = others \ {o} /\ inbox' = Append(inbox, Other(o))
    /\ UNCHANGED <<script, executor, producer, requests, late, refused>>

-----------------------------------------------------------------------------
Init ==
    /\ scene \in Scenes /\ current = 1 /\ calls = scene.calls /\ waiting = <<>> /\ results = <<>>
    /\ outcome = [c \in 1 .. Computations |-> "running"]
    /\ get_next_buffer = {} /\ sent_interests = {} /\ get_next_part_counter = 0
    /\ name_list_multiple = 0 /\ pos_name_list_multiple = 0
    /\ inbox = <<>> /\ write_out_part_counter = -1 /\ wrote = 0
    /\ store = IF scene.form = "inner" THEN <<>>
               ELSE [n \in {Part(c, k) : c \in 1 .. Computations, k \in 0 .. Parts - 1} |-> Datum(n.part)]
    /\ requests = {} /\ late = {} /\ others = Others /\ refused = 0

Function == GetNext \/ FromBuffer \/ FromQueue \/ Return

Network ==
    Write \/ (\E n \in requests \cup late : Answer(n)) \/ (\E n \in requests : TooEarly(n))

Next ==
    \/ Function \/ Network
    \/ (\E n \in requests : Refuse(n)) \/ \E o \in others : Arrive(o)

Spec == Init /\ [][Next]_vars

(* The function goes on when it can, and so do the other node and the      *)
(* network.                                                                *)
FairSpec == Spec /\ WF_vars(Function) /\ WF_vars(Network)

-----------------------------------------------------------------------------
(* The types, and: get_content is called for one name, or for a part       *)
(* inside the call for the whole.                                          *)
TypeOK ==
    /\ current \in 1 .. Computations /\ calls \in 0 .. scene.calls
    /\ outcome \in [1 .. Computations -> {"running", "done", "failed"}]
    /\ Len(waiting) \in 0 .. 2 /\ (Len(waiting) = 2 => waiting[2] = Whole(current))
    /\ waiting # <<>> => outcome[current] = "running" /\ calls > 0
    /\ pos_name_list_multiple \in 0 .. Parts /\ get_next_part_counter \in Nat
    /\ Len(results) + calls = scene.calls \/ outcome[current] = "failed"

(* The calls of get_next return the parts in the order they were written,  *)
(* each once, and None after the last, in whatever order they arrive and   *)
(* whatever else is in the queue (get_content, check_for_correct_content). *)
InOrder ==
    \A k \in DOMAIN results : results[k] = IF k <= Parts THEN Datum(k - 1) ELSE None

(* A packet for somebody else is still in the queue of the NFN layer after *)
(* a function has read it, once (check_for_correct_content puts it back).  *)
OthersKept ==
    \A o \in Others \ others :
        Cardinality({k \in DOMAIN inbox : inbox[k] = Other(o)}) = 1

(* What a function waits for has been asked for, or is here already.       *)
WaitsForSomething ==
    waiting # <<>> =>
        \/ Buffered(waiting[1]) \/ waiting[1] \in requests \cup late
        \/ \E k \in DOMAIN inbox : inbox[k].name = waiting[1]

(* Every function returns, with a result or an exception.                  *)
Returns == <>[](\A c \in 1 .. Computations : outcome[c] # "running")
===============================================================================

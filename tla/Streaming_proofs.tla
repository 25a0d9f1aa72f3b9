--------------------------- MODULE Streaming_proofs ---------------------------
(***************************************************************************)
(* Proofs about the streaming executor: what is not its own stays in the   *)
(* queue of the NFN layer, and the parts come in order.                    *)
(***************************************************************************)
EXTENDS Streaming, SequenceTheorems, FiniteSetTheorems, TLAPS

-----------------------------------------------------------------------------
(* Types *)

(* The names of the parts, of a function or of the list it reads.          *)
Own == [of : Nat \ {0}, part : Int]

Values == {metatitle, endstreaming, nack, None, <<"other">>} \cup {Datum(k) : k \in Int}

Item == [name : Own \cup {Other(o).name : o \in Others}, value : Values]

Counters ==
    /\ current \in Nat \ {0} /\ calls \in Int /\ wrote \in Nat /\ write_out_part_counter \in Int
    /\ get_next_part_counter \in Nat /\ name_list_multiple \in Nat
    /\ pos_name_list_multiple \in Nat /\ scene \in Scenes /\ others \subseteq Others

Types ==
    /\ Counters
    /\ waiting \in Seq(Own) /\ results \in Seq(Values) /\ inbox \in Seq(Item)
    /\ get_next_buffer \subseteq Item
    /\ requests \subseteq Own /\ late \subseteq Own /\ sent_interests \subseteq Own
    /\ DOMAIN store \subseteq Own /\ \A n \in DOMAIN store : store[n] \in Values

LEMMA PartIsOwn ==
    ASSUME NEW c \in Nat \ {0}, NEW k \in Int
    PROVE  Part(c, k) \in Own /\ Whole(c) \in Own
BY DEF Part, Whole, Own

(* The sequences the executor makes.                                       *)
LEMMA Sequences ==
    ASSUME NEW S, NEW s \in Seq(S), NEW e \in S
    PROVE  /\ <<>> \in Seq(S) /\ <<e>> \in Seq(S)
           /\ Append(s, e) \in Seq(S) /\ <<e>> \o s \in Seq(S)
           /\ s # <<>> => /\ Head(s) \in S /\ s[1] \in S /\ Head(s) = s[1]
                          /\ Tail(s) \in Seq(S) /\ Tail(s) \o <<>> \in Seq(S)
                          /\ Tail(s) \o <<e>> \in Seq(S)
OBVIOUS

LEMMA GotTypes ==
    ASSUME Types, waiting # <<>>, NEW p \in Item, p.name = waiting[1], Got(p)
    PROVE  /\ Counters' /\ waiting' \in Seq(Own) /\ results' \in Seq(Values)
           /\ requests' \subseteq Own /\ sent_interests' \subseteq Own
           /\ p.name \in Own
<1>1. p.name \in Own /\ p.name.of \in Nat \ {0} /\ p.name.part \in Int
  <2>1. p.name \in Own
    BY Sequences DEF Types
  <2> QED  BY <2>1 DEF Own
<1>2. p.value \in Values /\ None \in Values
  BY DEF Item, Values
<1>3. UNCHANGED <<scene, others, current, wrote, write_out_part_counter, name_list_multiple,
                 pos_name_list_multiple>>
  BY DEF Got, producer
<1>4. CASE GotMetatitle(p)
  <2> DEFINE next == Part(p.name.of, get_next_part_counter)
  <2>1. next \in Own
    BY <1>1, PartIsOwn DEF Types, Counters
  <2>2. <<next>> \o waiting \in Seq(Own)
    BY <2>1, Sequences DEF Types
  <2>3. /\ waiting' = <<next>> \o waiting /\ results' = results /\ calls' = calls
        /\ get_next_part_counter' = get_next_part_counter
        /\ requests' \subseteq requests \cup {next} /\ sent_interests' \subseteq sent_interests \cup {next}
    BY <1>4 DEF GotMetatitle, Send, Put
  <2> QED  BY <1>1, <1>3, <2>1, <2>2, <2>3 DEF Types, Counters
<1>5. CASE GotPart(p)
  <2> DEFINE next == Part(p.name.of, p.name.part + 1)
             value == IF Len(waiting) > 1 /\ Ends(p.value) THEN None ELSE p.value
  <2>1. next \in Own
    BY <1>1, PartIsOwn
  <2>2. <<>> \in Seq(Own) /\ Append(results, value) \in Seq(Values)
    <3>1. value \in Values
      BY <1>2
    <3> QED  BY <2>1, <3>1, Sequences DEF Types
  <2>3. /\ waiting' = <<>> /\ results' = Append(results, value) /\ calls' = calls - 1
        /\ get_next_part_counter' \in {get_next_part_counter, get_next_part_counter + 1}
        /\ requests' \subseteq requests \cup {next} /\ sent_interests' \subseteq sent_interests \cup {next}
    BY <1>5 DEF GotPart, Send, Put, Types, Counters
  <2> QED  BY <1>1, <1>3, <2>1, <2>2, <2>3 DEF Types, Counters
<1>6. CASE GotNack(p)
  <2>1. <<>> \in Seq(Own)
    BY <1>1, Sequences DEF Types
  <2> QED  BY <1>1, <1>3, <1>6, <2>1 DEF GotNack, Types, Counters
<1> QED  BY <1>4, <1>5, <1>6 DEF Got

(* What is in the inbox after a packet has been read, mine or not.         *)
LEMMA ReadTypes ==
    ASSUME Types, inbox # <<>>
    PROVE  /\ Head(inbox) \in Item /\ Tail(inbox) \in Seq(Item)
           /\ Tail(inbox) \o NotMine(Head(inbox)) \in Seq(Item)
BY Sequences DEF Types, NotMine

LEMMA TypesInit == Init => Types
<1> SUFFICES ASSUME Init  PROVE Types
  OBVIOUS
<1>1. DOMAIN store \subseteq Own /\ \A n \in DOMAIN store : store[n] \in Values
  <2>1. CASE scene.form = "inner"
    BY <2>1 DEF Init
  <2>2. CASE scene.form # "inner"
    <3>1. DOMAIN store = {Part(c, k) : c \in 1 .. Computations, k \in 0 .. Parts - 1}
      BY <2>2 DEF Init
    <3>2. ASSUME NEW n \in DOMAIN store  PROVE n \in Own /\ store[n] \in Values
      <4>1. PICK c \in 1 .. Computations, k \in 0 .. Parts - 1 : n = Part(c, k)
        BY <3>1
      <4>2. n.part = k /\ store[n] = Datum(k)
        BY <2>2, <3>1, <4>1 DEF Init, Part
      <4>3. Part(c, k) \in Own
        BY PartIsOwn, StreamingAssumption DEF StreamingAssumption
      <4> QED  BY <4>1, <4>2, <4>3, StreamingAssumption DEF Values, StreamingAssumption
    <3> QED  BY <3>2
  <2> QED  BY <2>1, <2>2
<1>2. Counters
  BY StreamingAssumption DEF Init, Counters, StreamingAssumption
<1>3. waiting \in Seq(Own) /\ results \in Seq(Values) /\ inbox \in Seq(Item)
  BY DEF Init
<1> QED  BY <1>1, <1>2, <1>3 DEF Init, Types

LEMMA TypesNext == Types /\ [Next]_vars => Types'
<1> SUFFICES ASSUME Types, [Next]_vars  PROVE Types'
  OBVIOUS
<1>1. CASE GetNext
  <2>1. /\ UNCHANGED <<scene, others, current, wrote, write_out_part_counter, get_next_buffer,
                       get_next_part_counter, inbox, store, late>>
    BY <1>1 DEF GetNext, GetNextInner, GetNextMultiple, executor, producer
  <2>2. CASE GetNextInner
    <3>1. Whole(current) \in Own
      BY PartIsOwn DEF Types, Counters
    <3>2. <<Whole(current)>> \in Seq(Own)
      BY <3>1
    <3> QED  BY <2>1, <2>2, <3>1, <3>2 DEF GetNextInner, Put, executor, Types, Counters
  <2>3. CASE GetNextMultiple
    <3> DEFINE list == IF name_list_multiple = 0 THEN current ELSE name_list_multiple
               pos == IF name_list_multiple = 0 THEN 0 ELSE pos_name_list_multiple
    <3>1. list \in Nat \ {0} /\ pos \in Nat
      BY DEF Types, Counters
    <3>2. CASE Listed(pos)
      <4> DEFINE ahead == {j \in {pos, pos + 1} : j < Parts /\ (j = pos => pos = 0)}
                 asked == IF scene.classic THEN {Part(list, pos)} ELSE {Part(list, k) : k \in ahead}
      <4>1. \A k \in Nat : Part(list, k) \in Own
        BY <3>1, PartIsOwn
      <4>2. asked \subseteq Own
        BY <3>1, <4>1
      <4>3. <<Part(list, pos)>> \in Seq(Own)
        BY <3>1, <4>1
      <4>4. /\ name_list_multiple' = list /\ pos_name_list_multiple' = pos + 1
            /\ requests' = requests \cup asked /\ sent_interests' = sent_interests \cup asked
            /\ waiting' = <<Part(list, pos)>> /\ UNCHANGED <<results, calls>>
        BY <2>3, <3>2 DEF GetNextMultiple, Send, Put
      <4> HIDE DEF asked, list, pos
      <4> QED  BY <2>1, <3>1, <4>2, <4>3, <4>4 DEF Types, Counters
    <3>3. CASE ~Listed(pos)
      <4>1. Append(results, None) \in Seq(Values)
        BY Sequences DEF Types, Values
      <4>2. /\ name_list_multiple' = 0 /\ pos_name_list_multiple' = pos
            /\ results' = Append(results, None) /\ calls' = calls - 1
            /\ UNCHANGED <<waiting, requests, sent_interests>>
        BY <2>3, <3>3 DEF GetNextMultiple
      <4> HIDE DEF list, pos
      <4> QED  BY <2>1, <3>1, <4>1, <4>2 DEF Types, Counters
    <3> QED  BY <3>2, <3>3
  <2> QED  BY <1>1, <2>2, <2>3 DEF GetNext
<1>2. CASE FromBuffer
  <2>1. PICK p \in get_next_buffer : p.name = waiting[1] /\ Got(p)
    BY <1>2 DEF FromBuffer
  <2>2. p \in Item /\ UNCHANGED <<get_next_buffer, inbox, store, late>>
    BY <1>2, <2>1 DEF FromBuffer, Got, producer, Types
  <2> QED  BY <1>2, <2>1, <2>2, GotTypes DEF FromBuffer, Types
<1>3. CASE FromQueue
  <2> DEFINE p == Head(inbox)
  <2>1. p \in Item /\ Tail(inbox) \in Seq(Item) /\ Tail(inbox) \o NotMine(p) \in Seq(Item)
    BY <1>3, ReadTypes DEF FromQueue
  <2>2. get_next_buffer' \subseteq Item /\ UNCHANGED <<store, late>>
    BY <1>3, <2>1 DEF FromQueue, Got, producer, Types
  <2>3. CASE Mine(p) /\ Got(p) /\ inbox' = Tail(inbox)
    BY <1>3, <2>1, <2>2, <2>3, GotTypes DEF FromQueue, Mine, Types
  <2>4. CASE /\ inbox' = Tail(inbox) \o NotMine(p)
             /\ UNCHANGED <<script, sent_interests, get_next_part_counter, name_list_multiple,
                            pos_name_list_multiple, producer, requests, late, others, refused>>
    BY <2>1, <2>2, <2>4 DEF script, producer, Types, Counters
  <2> QED  BY <1>3, <2>3, <2>4 DEF FromQueue
<1>4. CASE Return
  <2>1. <<>> \in Seq(Values)
    OBVIOUS
  <2>2. /\ current' \in {current, current + 1} /\ calls' \in {calls, scene.calls}
        /\ results' \in {results, <<>>} /\ wrote' \in {wrote, 0}
        /\ UNCHANGED <<scene, waiting, executor, inbox, write_out_part_counter, store, requests, late, others>>
    BY <1>4 DEF Return
  <2>3. calls' \in Int
    <3>1. calls \in Int /\ scene.calls \in Nat
      BY StreamingAssumption DEF StreamingAssumption, Types, Counters
    <3> QED  BY <2>2, <3>1
  <2>4. results' \in Seq(Values)
    BY <2>1, <2>2 DEF Types
  <2>5. Counters'
    BY <2>2, <2>3 DEF executor, Types, Counters
  <2> QED  BY <2>2, <2>4, <2>5 DEF executor, Types
<1>5. CASE Write
  <2> DEFINE value == IF wrote = Parts THEN endstreaming ELSE Datum(wrote)
             n == Part(current, write_out_part_counter + 1)
  <2>1. value \in Values /\ metatitle \in Values
    BY DEF Values, Types, Counters
  <2>2. n \in Own /\ Whole(current) \in Own
    BY PartIsOwn DEF Types, Counters
  <2>3. /\ store' = Stored(n, value) /\ write_out_part_counter' = write_out_part_counter + 1
        /\ wrote' = wrote + 1
        /\ UNCHANGED <<script, executor, inbox, requests, late, others>>
    BY <1>5 DEF Write, write_out
  <2> HIDE DEF value, n
  <2>4. DOMAIN store' \subseteq Own /\ \A m \in DOMAIN store' : store'[m] \in Values
    BY <2>1, <2>2, <2>3 DEF Stored, Types
  <2> QED  BY <2>3, <2>4 DEF script, executor, Types, Counters
<1>6. ASSUME NEW m \in requests \cup late, Answer(m)  PROVE Types'
  <2>1. Content(m, store[m]) \in Item
    BY <1>6 DEF Answer, Content, Item, Types
  <2>2. inbox' \in Seq(Item)
    BY <1>6, <2>1, Sequences DEF Answer, Types
  <2> QED  BY <1>6, <2>2 DEF Answer, script, executor, producer, Types, Counters
<1>7. ASSUME NEW m \in requests, TooEarly(m)  PROVE Types'
  BY <1>7 DEF TooEarly, script, executor, producer, Types, Counters
<1>8. ASSUME NEW m \in requests, Refuse(m)  PROVE Types'
  <2>1. Content(m, nack) \in Item
    BY <1>8 DEF Refuse, Content, Item, Types, Values
  <2>2. inbox' \in Seq(Item)
    BY <1>8, <2>1, Sequences DEF Refuse, Types
  <2> QED  BY <1>8, <2>2 DEF Refuse, script, executor, producer, Types, Counters
<1>9. ASSUME NEW o \in others, Arrive(o)  PROVE Types'
  <2>1. Other(o) \in Item
    BY <1>9 DEF Other, Item, Values, Types, Counters
  <2>2. inbox' \in Seq(Item)
    BY <1>9, <2>1, Sequences DEF Arrive, Types
  <2> QED  BY <1>9, <2>2 DEF Arrive, script, executor, producer, Types, Counters
<1>10. CASE UNCHANGED vars
  BY <1>10 DEF vars, script, executor, producer, Types, Counters
<1> QED
  BY <1>1, <1>2, <1>3, <1>4, <1>5, <1>6, <1>7, <1>8, <1>9, <1>10 DEF Next, Function, Network

-----------------------------------------------------------------------------
(* What belongs to others *)

Absent(q, e) == \A k \in DOMAIN q : q[k] # e

Once(q, e) == \E k \in DOMAIN q : q[k] = e /\ \A j \in DOMAIN q : q[j] = e => j = k

(* It has not arrived, or it is in the queue, once.                        *)
KeptInv ==
    \A o \in Others :
        /\ o \in others => Absent(inbox, Other(o))
        /\ o \notin others => Once(inbox, Other(o))

LEMMA OtherIsNotOwn ==
    /\ \A o, q : Other(o) = Other(q) => o = q
    /\ \A o : \A n \in Own : \A v : Content(n, v) # Other(o)
    /\ \A o : \A p : p = Other(o) => p.name \notin Own
BY DEF Other, Content, Own

(* A queue after it has been read, with the packet put back or not, and a  *)
(* queue at which a packet arrives.                                        *)
LEMMA Rotated ==
    ASSUME NEW S, NEW q \in Seq(S), q # <<>>
    PROVE  /\ Len(q) \in Nat \ {0} /\ DOMAIN q = 1 .. Len(q) /\ Head(q) = q[1]
           /\ DOMAIN Tail(q) = 1 .. Len(q) - 1 /\ DOMAIN (Tail(q) \o <<>>) = 1 .. Len(q) - 1
           /\ \A k \in 1 .. Len(q) - 1 : /\ Tail(q)[k] = q[k + 1]
                                        /\ (Tail(q) \o <<>>)[k] = q[k + 1]
           /\ LET r == Tail(q) \o <<Head(q)>> IN
              /\ DOMAIN r = 1 .. Len(q) /\ r[Len(q)] = q[1]
              /\ \A k \in 1 .. Len(q) - 1 : r[k] = q[k + 1]
OBVIOUS

LEMMA Appended ==
    ASSUME NEW S, NEW q \in Seq(S), NEW e \in S
    PROVE  /\ Len(q) \in Nat /\ DOMAIN q = 1 .. Len(q) /\ DOMAIN Append(q, e) = 1 .. Len(q) + 1
           /\ \A k \in 1 .. Len(q) : Append(q, e)[k] = q[k]
           /\ Append(q, e)[Len(q) + 1] = e
OBVIOUS

LEMMA Shifted ==
    ASSUME NEW n \in Nat \ {0}, NEW q, NEW r, NEW e,
           DOMAIN q = 1 .. n, \A k \in 1 .. n - 1 : r[k] = q[k + 1],
           (DOMAIN r = 1 .. n - 1 /\ q[1] # e) \/ (DOMAIN r = 1 .. n /\ r[n] = q[1])
    PROVE  (Absent(q, e) => Absent(r, e)) /\ (Once(q, e) => Once(r, e))
<1>1. ASSUME Absent(q, e)  PROVE Absent(r, e)
  BY <1>1 DEF Absent
<1>2. ASSUME Once(q, e)  PROVE Once(r, e)
  <2>1. PICK k \in DOMAIN q : q[k] = e /\ \A j \in DOMAIN q : q[j] = e => j = k
    BY <1>2 DEF Once
  <2>2. CASE k = 1
    <3>1. DOMAIN r = 1 .. n /\ r[n] = q[1]
      BY <2>1, <2>2
    <3>2. r[n] = e /\ \A j \in DOMAIN r : (r[j] = e => j = n)
      BY <2>1, <2>2, <3>1
    <3> QED  BY <3>1, <3>2 DEF Once
  <2>3. CASE k # 1
    <3>1. q[1] # e /\ k - 1 \in DOMAIN r
      BY <2>1, <2>3
    <3>2. k \in 2 .. n /\ q[k] = e /\ r[k - 1] = q[k]
      BY <2>1, <2>3
    <3>3. ASSUME NEW j \in DOMAIN r, r[j] = e  PROVE j = k - 1
      <4>1. j \in 1 .. n - 1 /\ r[j] = q[j + 1]
        BY <3>1, <3>3
      <4>2. j + 1 = k
        BY <2>1, <3>3, <4>1
      <4> QED  BY <3>2, <4>1, <4>2
    <3> QED  BY <3>1, <3>2, <3>3 DEF Once
  <2> QED  BY <2>2, <2>3
<1> QED  BY <1>1, <1>2

LEMMA Lengthened ==
    ASSUME NEW n \in Nat, NEW q, NEW r, NEW e,
           DOMAIN q = 1 .. n, DOMAIN r = 1 .. n + 1, \A k \in 1 .. n : r[k] = q[k]
    PROVE  /\ r[n + 1] # e => (Absent(q, e) => Absent(r, e)) /\ (Once(q, e) => Once(r, e))
           /\ r[n + 1] = e => (Absent(q, e) => Once(r, e))
<1>1. ASSUME r[n + 1] # e, Absent(q, e)  PROVE Absent(r, e)
  BY <1>1 DEF Absent
<1>2. ASSUME r[n + 1] # e, Once(q, e)  PROVE Once(r, e)
  <2>1. PICK k \in DOMAIN q : q[k] = e /\ \A j \in DOMAIN q : q[j] = e => j = k
    BY <1>2 DEF Once
  <2>2. r[k] = e /\ \A j \in DOMAIN r : r[j] = e => j = k
    BY <1>2, <2>1
  <2> QED  BY <2>1, <2>2 DEF Once
<1>3. ASSUME r[n + 1] = e, Absent(q, e)  PROVE Once(r, e)
  <2>1. \A j \in DOMAIN r : r[j] = e => j = n + 1
    BY <1>3 DEF Absent
  <2>2. n + 1 \in DOMAIN r
    OBVIOUS
  <2> QED  BY <1>3, <2>1, <2>2 DEF Once
<1> QED  BY <1>1, <1>2, <1>3

(* Reading takes nothing that belongs to others.                           *)
LEMMA KeptWhenRead ==
    ASSUME Types, KeptInv, inbox # <<>>, others' = others,
           \/ inbox' \in {Tail(inbox), Tail(inbox) \o <<>>} /\ Head(inbox).name \in Own
           \/ inbox' = Tail(inbox) \o <<Head(inbox)>>
    PROVE  KeptInv'
<1> DEFINE n == Len(inbox)
<1>1. /\ n \in Nat \ {0} /\ DOMAIN inbox = 1 .. n /\ Head(inbox) = inbox[1]
      /\ DOMAIN Tail(inbox) = 1 .. n - 1 /\ DOMAIN (Tail(inbox) \o <<>>) = 1 .. n - 1
      /\ \A k \in 1 .. n - 1 : /\ Tail(inbox)[k] = inbox[k + 1]
                              /\ (Tail(inbox) \o <<>>)[k] = inbox[k + 1]
      /\ LET r == Tail(inbox) \o <<Head(inbox)>> IN
         /\ DOMAIN r = 1 .. n /\ r[n] = inbox[1]
         /\ \A k \in 1 .. n - 1 : r[k] = inbox[k + 1]
  BY Rotated DEF Types
<1>2. /\ \A k \in 1 .. n - 1 : inbox'[k] = inbox[k + 1]
      /\ \/ DOMAIN inbox' = 1 .. n - 1 /\ \A o : inbox[1] # Other(o)
         \/ DOMAIN inbox' = 1 .. n /\ inbox'[n] = inbox[1]
  <2> HIDE DEF n
  <2>1. CASE inbox' \in {Tail(inbox), Tail(inbox) \o <<>>} /\ Head(inbox).name \in Own
    BY <1>1, <2>1, OtherIsNotOwn
  <2>2. CASE inbox' = Tail(inbox) \o <<Head(inbox)>>
    BY <1>1, <2>2
  <2> QED  BY <2>1, <2>2
<1> HIDE DEF n
<1>3. \A o \in Others : /\ Absent(inbox, Other(o)) => Absent(inbox', Other(o))
                        /\ Once(inbox, Other(o)) => Once(inbox', Other(o))
  BY <1>1, <1>2, Shifted
<1> SUFFICES ASSUME NEW o \in Others
             PROVE  /\ o \in others => Absent(inbox', Other(o))
                    /\ o \notin others => Once(inbox', Other(o))
  BY DEF KeptInv, Other
<1> QED  BY <1>3 DEF KeptInv

(* What arrives for the executor changes nothing for others.               *)
LEMMA KeptWhenAnswered ==
    ASSUME Types, KeptInv, others' = others,
           NEW m \in Own, NEW v \in Values, inbox' = Append(inbox, Content(m, v))
    PROVE  KeptInv'
<1> DEFINE n == Len(inbox)
           e == Content(m, v)
<1>1. e \in Item /\ \A o : e # Other(o)
  BY OtherIsNotOwn DEF Content, Item
<1>2. /\ n \in Nat /\ DOMAIN inbox = 1 .. n /\ DOMAIN inbox' = 1 .. n + 1
      /\ (\A k \in 1 .. n : inbox'[k] = inbox[k]) /\ inbox'[n + 1] = e
  BY <1>1, Appended DEF Types
<1> HIDE DEF n, e
<1>3. \A o \in Others : /\ Absent(inbox, Other(o)) => Absent(inbox', Other(o))
                        /\ Once(inbox, Other(o)) => Once(inbox', Other(o))
  BY <1>1, <1>2, Lengthened
<1> SUFFICES ASSUME NEW o \in Others
             PROVE  /\ o \in others => Absent(inbox', Other(o))
                    /\ o \notin others => Once(inbox', Other(o))
  BY DEF KeptInv, Other
<1> QED  BY <1>3 DEF KeptInv

LEMMA KeptWhenArrived ==
    ASSUME Types, KeptInv, NEW q \in others, Arrive(q)
    PROVE  KeptInv'
<1> DEFINE n == Len(inbox)
<1>1. Other(q) \in Item /\ others' = others \ {q} /\ inbox' = Append(inbox, Other(q))
  BY DEF Arrive, Other, Item, Values, Types, Counters
<1>2. /\ n \in Nat /\ DOMAIN inbox = 1 .. n /\ DOMAIN inbox' = 1 .. n + 1
      /\ (\A k \in 1 .. n : inbox'[k] = inbox[k]) /\ inbox'[n + 1] = Other(q)
  BY <1>1, Appended DEF Types
<1>3. \A o : o # q => Other(q) # Other(o)
  BY OtherIsNotOwn
<1> HIDE DEF n
<1>4. \A o \in Others : /\ o # q /\ Absent(inbox, Other(o)) => Absent(inbox', Other(o))
                        /\ o # q /\ Once(inbox, Other(o)) => Once(inbox', Other(o))
  BY <1>2, <1>3, Lengthened
<1>5. Absent(inbox, Other(q)) => Once(inbox', Other(q))
  BY <1>2, Lengthened
<1> SUFFICES ASSUME NEW o \in Others
             PROVE  /\ o \in others' => Absent(inbox', Other(o))
                    /\ o \notin others' => Once(inbox', Other(o))
  BY DEF KeptInv, Other
<1> QED  BY <1>1, <1>4, <1>5 DEF KeptInv, Types, Counters

LEMMA KeptNext == Types /\ KeptInv /\ [Next]_vars => KeptInv'
<1> SUFFICES ASSUME Types, KeptInv, [Next]_vars  PROVE KeptInv'
  OBVIOUS
<1>1. ASSUME UNCHANGED <<inbox, others>>  PROVE KeptInv'
  BY <1>1 DEF KeptInv, Other
<1>2. CASE FromQueue
  <2> DEFINE p == Head(inbox)
  <2>1. inbox # <<>> /\ waiting # <<>> /\ waiting[1] \in Own
    BY <1>2, Sequences DEF FromQueue, Types
  <2>2. CASE Mine(p) /\ Got(p) /\ inbox' = Tail(inbox)
    BY <2>1, <2>2, KeptWhenRead DEF Mine, Got
  <2>3. CASE inbox' = Tail(inbox) \o NotMine(p) /\ UNCHANGED others
    <3>1. CASE p.name \in sent_interests
      BY <2>1, <2>3, <3>1, KeptWhenRead DEF NotMine, Types
    <3>2. CASE p.name \notin sent_interests
      BY <2>1, <2>3, <3>2, KeptWhenRead DEF NotMine
    <3> QED  BY <3>1, <3>2
  <2> QED  BY <1>2, <2>2, <2>3 DEF FromQueue
<1>3. ASSUME NEW m \in requests \cup late, Answer(m)  PROVE KeptInv'
  BY <1>3, KeptWhenAnswered DEF Answer, Types
<1>4. ASSUME NEW m \in requests, Refuse(m)  PROVE KeptInv'
  <2>1. nack \in Values
    BY DEF Values
  <2> QED  BY <1>4, <2>1, KeptWhenAnswered DEF Refuse, Types
<1>5. ASSUME NEW o \in others, Arrive(o)  PROVE KeptInv'
  BY <1>5, KeptWhenArrived
<1>6. CASE GetNext \/ FromBuffer \/ Return \/ Write
  BY <1>1, <1>6 DEF GetNext, FromBuffer, Got, Return, Write
<1>7. ASSUME NEW m \in requests, TooEarly(m)  PROVE KeptInv'
  BY <1>1, <1>7 DEF TooEarly
<1>8. CASE UNCHANGED vars
  BY <1>1, <1>8 DEF vars
<1> QED
  BY <1>2, <1>3, <1>4, <1>5, <1>6, <1>7, <1>8 DEF Next, Function, Network

(* A packet for somebody else that a streaming function finds in the queue *)
(* of its NFN layer is put back: it is there, once, whatever the function  *)
(* waits for, keeps or drops (check_for_correct_content).                  *)
THEOREM OthersKeptCorrect == Spec => []OthersKept
<1>1. Init => Types /\ KeptInv
  BY TypesInit DEF Init, KeptInv, Absent
<1>2. Types /\ KeptInv /\ [Next]_vars => (Types /\ KeptInv)'
  BY TypesNext, KeptNext
<1>3. KeptInv => OthersKept
  <2> SUFFICES ASSUME KeptInv, NEW o \in Others \ others
               PROVE  Cardinality({k \in DOMAIN inbox : inbox[k] = Other(o)}) = 1
    BY DEF OthersKept
  <2>1. PICK k \in DOMAIN inbox : inbox[k] = Other(o) /\ \A j \in DOMAIN inbox : inbox[j] = Other(o) => j = k
    BY DEF KeptInv, Once
  <2>2. {j \in DOMAIN inbox : inbox[j] = Other(o)} = {k}
    BY <2>1
  <2> QED  BY <2>2, FS_Singleton
<1> QED  BY <1>1, <1>2, <1>3, PTL DEF Spec

-----------------------------------------------------------------------------
(* The order of the parts *)

(* The executor runs one function.  With a second one its buffer, its      *)
(* counter and its list are those the first has left.                      *)
OneFunction == Computations = 1

(* A list is not read again after its end: its names would be listed anew. *)
ListsReadOnce == \A s \in Scenes : s.form = "list" => s.calls <= Parts + 1

(* What the other node has under a name.                                   *)
ValueOf(n) ==
    IF n.part < 0 THEN metatitle ELSE IF n.part < Parts THEN Datum(n.part) ELSE endstreaming

(* What is stored, travels or is kept under a name of the function is its  *)
(* value, or a refusal.                                                    *)
Genuine ==
    /\ \A n \in DOMAIN store : store[n] = ValueOf(n)
    /\ \A p \in get_next_buffer : p.name \in Own => p.value \in {nack, ValueOf(p.name)}
    /\ \A k \in DOMAIN inbox :
          inbox[k].name \in Own => inbox[k].value \in {nack, ValueOf(inbox[k].name)}

(* The part that is waited for is the one after those returned.            *)
InnerProgress ==
    /\ get_next_part_counter = Len(results) /\ write_out_part_counter = wrote - 1
    /\ waiting \in {<<>>, <<Whole(1)>>, <<Part(1, get_next_part_counter), Whole(1)>>}

ListProgress ==
    /\ name_list_multiple \in {0, 1}
    /\ calls > 0 => calls + Len(results) = scene.calls
    /\ name_list_multiple = 0 => (waiting = <<>> /\ (results = <<>> \/ calls = 0))
    /\ name_list_multiple = 1 => pos_name_list_multiple \in 1 .. Parts
    /\ name_list_multiple = 1 /\ waiting = <<>> => (Len(results) = pos_name_list_multiple \/ calls = 0)
    /\ name_list_multiple = 1 /\ waiting # <<>> =>
          (/\ waiting = <<Part(1, pos_name_list_multiple - 1)>>
           /\ Len(results) = pos_name_list_multiple - 1)

Progress ==
    /\ current = 1
    /\ scene.form = "inner" => InnerProgress
    /\ scene.form = "list" => ListProgress

LEMMA ValuesDiffer ==
    /\ \A k, j : Datum(k) = Datum(j) => k = j
    /\ \A k : Datum(k) \notin {metatitle, endstreaming, nack, None}
    /\ metatitle # endstreaming /\ metatitle # nack /\ endstreaming # nack
BY DEF Datum, metatitle, endstreaming, nack, None

(* A value of the function's own that is read.                             *)
LEMMA GenuineNext ==
    ASSUME Types, OneFunction, Progress, Genuine, [Next]_vars
    PROVE  Genuine'
<1>1. ASSUME UNCHANGED <<store, get_next_buffer, inbox>>  PROVE Genuine'
  BY <1>1 DEF Genuine, ValueOf, Own, Datum, metatitle, endstreaming, nack
<1>2. CASE FromBuffer
  BY <1>1, <1>2 DEF FromBuffer, Got, producer
<1>3. CASE FromQueue
  <2> DEFINE p == Head(inbox)
             n == Len(inbox)
  <2>1. inbox # <<>> /\ store' = store
    BY <1>3 DEF FromQueue, Got, producer
  <2>2. /\ n \in Nat \ {0} /\ DOMAIN inbox = 1 .. n /\ p = inbox[1]
        /\ DOMAIN Tail(inbox) = 1 .. n - 1 /\ DOMAIN (Tail(inbox) \o <<>>) = 1 .. n - 1
        /\ \A k \in 1 .. n - 1 : /\ Tail(inbox)[k] = inbox[k + 1]
                                /\ (Tail(inbox) \o <<>>)[k] = inbox[k + 1]
        /\ LET r == Tail(inbox) \o <<p>> IN
           /\ DOMAIN r = 1 .. n /\ r[n] = inbox[1]
           /\ \A k \in 1 .. n - 1 : r[k] = inbox[k + 1]
    BY <2>1, Rotated DEF Types
  <2>3. /\ inbox' \in {Tail(inbox), Tail(inbox) \o <<>>, Tail(inbox) \o <<p>>}
        /\ get_next_buffer' \subseteq get_next_buffer \cup {p}
    BY <1>3 DEF FromQueue, NotMine
  <2> HIDE DEF p, n
  <2>4. /\ \A k \in DOMAIN inbox' : \E j \in DOMAIN inbox : inbox'[k] = inbox[j]
        /\ \E j \in DOMAIN inbox : p = inbox[j]
    <3>1. \A k \in 1 .. n - 1 : k + 1 \in DOMAIN inbox
      BY <2>2
    <3>2. 1 \in DOMAIN inbox
      BY <2>2
    <3>3. CASE inbox' \in {Tail(inbox), Tail(inbox) \o <<>>}
      BY <2>2, <3>1, <3>2, <3>3
    <3>4. CASE inbox' = Tail(inbox) \o <<p>>
      <4>1. DOMAIN inbox' = 1 .. n /\ inbox'[n] = inbox[1]
            /\ \A k \in 1 .. n - 1 : inbox'[k] = inbox[k + 1]
        BY <2>2, <3>4
      <4> QED  BY <2>2, <3>1, <3>2, <4>1
    <3> QED  BY <2>3, <3>3, <3>4
  <2>5. \A m \in DOMAIN store' : store'[m] = ValueOf(m)
    BY <2>1 DEF Genuine
  <2>6. \A q \in get_next_buffer' : q.name \in Own => q.value \in {nack, ValueOf(q.name)}
    BY <2>3, <2>4 DEF Genuine
  <2>7. \A k \in DOMAIN inbox' :
           inbox'[k].name \in Own => inbox'[k].value \in {nack, ValueOf(inbox'[k].name)}
    BY <2>4 DEF Genuine
  <2> QED  BY <2>5, <2>6, <2>7 DEF Genuine, ValueOf, Own, Datum, metatitle, endstreaming, nack
<1>4. CASE Write
  <2> DEFINE value == IF wrote = Parts THEN endstreaming ELSE Datum(wrote)
             n == Part(1, wrote)
  <2>1. write_out_part_counter + 1 = wrote /\ wrote \in 0 .. Parts /\ current = 1
    BY <1>4, StreamingAssumption
       DEF Write, Written, Progress, InnerProgress, Types, Counters, StreamingAssumption
  <2>2. store' = Stored(n, value)
    BY <1>4, <2>1 DEF Write, write_out
  <2>3. ValueOf(n) = value
    BY <2>1, StreamingAssumption DEF ValueOf, Part, StreamingAssumption
  <2>4. ValueOf(Whole(1)) = metatitle
    BY DEF ValueOf, Whole
  <2> HIDE DEF n, value
  <2>5. ASSUME NEW m \in DOMAIN store'  PROVE store'[m] = ValueOf(m)
    BY <2>1, <2>2, <2>3, <2>4, <2>5 DEF Stored, Genuine
  <2>6. UNCHANGED <<get_next_buffer, inbox>>
    BY <1>4 DEF Write, executor
  <2> QED  BY <2>5, <2>6 DEF Genuine, ValueOf, Own, Datum, metatitle, endstreaming, nack
<1>5. ASSUME NEW m \in Own, NEW v \in Values, v \in {nack, ValueOf(m)},
             inbox' = Append(inbox, Content(m, v)), UNCHANGED <<store, get_next_buffer>>
      PROVE  Genuine'
  <2> DEFINE n == Len(inbox)
             e == Content(m, v)
  <2>1. e \in Item /\ e.name = m /\ e.value = v
    BY DEF Content, Item
  <2>2. /\ n \in Nat /\ DOMAIN inbox = 1 .. n /\ DOMAIN inbox' = 1 .. n + 1
        /\ (\A k \in 1 .. n : inbox'[k] = inbox[k]) /\ inbox'[n + 1] = e
    BY <1>5, <2>1, Appended DEF Types
  <2> HIDE DEF n, e
  <2>3. \A k \in DOMAIN inbox' :
           inbox'[k].name \in Own => inbox'[k].value \in {nack, ValueOf(inbox'[k].name)}
    BY <1>5, <2>1, <2>2 DEF Genuine
  <2> QED  BY <1>5, <2>3 DEF Genuine, ValueOf, Own, Datum, metatitle, endstreaming, nack
<1>6. ASSUME NEW m \in requests \cup late, Answer(m)  PROVE Genuine'
  <2>1. m \in Own /\ store[m] \in Values /\ store[m] = ValueOf(m)
    BY <1>6 DEF Answer, Types, Genuine
  <2> QED  BY <1>5, <1>6, <2>1 DEF Answer, executor, producer
<1>7. ASSUME NEW m \in requests, Refuse(m)  PROVE Genuine'
  <2>1. m \in Own /\ nack \in Values
    BY DEF Types, Values
  <2> QED  BY <1>5, <1>7, <2>1 DEF Refuse, executor, producer
<1>8. ASSUME NEW o \in others, Arrive(o)  PROVE Genuine'
  <2> DEFINE n == Len(inbox)
  <2>1. Other(o) \in Item /\ Other(o).name \notin Own
    BY OtherIsNotOwn DEF Other, Item, Values, Types, Counters
  <2>2. /\ n \in Nat /\ DOMAIN inbox = 1 .. n /\ DOMAIN inbox' = 1 .. n + 1
        /\ (\A k \in 1 .. n : inbox'[k] = inbox[k]) /\ inbox'[n + 1] = Other(o)
    BY <1>8, <2>1, Appended DEF Types, Arrive
  <2> HIDE DEF n
  <2>3. \A k \in DOMAIN inbox' :
           inbox'[k].name \in Own => inbox'[k].value \in {nack, ValueOf(inbox'[k].name)}
    BY <2>1, <2>2 DEF Genuine
  <2>4. UNCHANGED <<store, get_next_buffer>>
    BY <1>8 DEF Arrive, executor, producer
  <2> QED  BY <2>3, <2>4 DEF Genuine, ValueOf, Own, Datum, metatitle, endstreaming, nack
<1>9. CASE GetNext \/ Return
  BY <1>1, <1>9 DEF GetNext, GetNextInner, GetNextMultiple, Return, executor, producer
<1>10. ASSUME NEW m \in requests, TooEarly(m)  PROVE Genuine'
  BY <1>1, <1>10 DEF TooEarly, executor, producer
<1>11. CASE UNCHANGED vars
  BY <1>1, <1>11 DEF vars, executor, producer
<1> QED
  BY <1>2, <1>3, <1>4, <1>6, <1>7, <1>8, <1>9, <1>10, <1>11 DEF Next, Function, Network

(* One more call of get_next returns, with the part that is due.           *)
LEMMA OneMore ==
    ASSUME Types, InOrder, NEW v \in Values,
           v = IF Len(results) < Parts THEN Datum(Len(results)) ELSE None,
           results' = Append(results, v)
    PROVE  InOrder' /\ Len(results) \in Nat /\ Len(results') = Len(results) + 1 /\ results' # <<>>
<1> DEFINE n == Len(results)
<1>1. /\ n \in Nat /\ DOMAIN results = 1 .. n /\ DOMAIN results' = 1 .. n + 1 /\ Len(results') = n + 1
      /\ (\A k \in 1 .. n : results'[k] = results[k]) /\ results'[n + 1] = v /\ results' # <<>>
  BY DEF Types
<1>2. v = IF n < Parts THEN Datum(n) ELSE None
  OBVIOUS
<1> HIDE DEF n
<1>3. ASSUME NEW k \in DOMAIN results'
      PROVE  results'[k] = IF k <= Parts THEN Datum(k - 1) ELSE None
  <2>1. CASE k \in 1 .. n
    BY <1>1, <2>1 DEF InOrder
  <2>2. CASE k = n + 1
    <3>1. k - 1 = n /\ (k <= Parts <=> n < Parts)
      BY <1>1, <2>2, StreamingAssumption DEF StreamingAssumption
    <3> QED  BY <1>1, <1>2, <2>2, <3>1
  <2> QED  BY <1>1, <2>1, <2>2
<1> QED  BY <1>1, <1>3 DEF InOrder, Datum, None, n

LEMMA StackOfTwo ==
    ASSUME NEW a, NEW b
    PROVE  /\ <<a>> \o <<b>> = <<a, b>> /\ Len(<<a, b>>) = 2 /\ <<a, b>>[1] = a
           /\ Len(<<a>>) = 1 /\ <<a>>[1] = a
<1> DEFINE S == {a, b}
<1>1. <<a>> \in Seq(S) /\ <<b>> \in Seq(S) /\ <<a, b>> \in Seq(S)
  OBVIOUS
<1>2. /\ Len(<<a>>) = 1 /\ <<a>>[1] = a /\ Len(<<b>>) = 1 /\ <<b>>[1] = b
      /\ Len(<<a, b>>) = 2 /\ <<a, b>>[1] = a /\ <<a, b>>[2] = b
  OBVIOUS
<1> HIDE DEF S
<1>3. <<a>> \o <<b>> \in Seq(S) /\ Len(<<a>> \o <<b>>) = 2
      /\ \A i \in 1 .. 2 : (<<a>> \o <<b>>)[i] = IF i <= 1 THEN <<a>>[i] ELSE <<b>>[i - 1]
  BY <1>1, <1>2, ConcatProperties
<1>4. \A i \in 1 .. 2 : (<<a>> \o <<b>>)[i] = <<a, b>>[i]
  BY <1>2, <1>3
<1> QED  BY <1>1, <1>2, <1>3, <1>4, SeqEqual

(* What get_content returns, or fails with, for the name it is called for. *)
LEMMA ReadProgress ==
    ASSUME Types, Progress, InOrder, waiting # <<>>,
           NEW p \in Item, p.name = waiting[1], p.name \in Own,
           p.value \in {nack, ValueOf(p.name)}, Got(p)
    PROVE  Progress' /\ InOrder'
<1>1. current = 1 /\ UNCHANGED <<scene, current, name_list_multiple, pos_name_list_multiple,
                                 write_out_part_counter, wrote>>
  BY DEF Progress, Got, producer
<1>2. scene.form \in {"inner", "list"} /\ Parts \in Nat \ {0} /\ Len(results) \in Nat
      /\ p.value \in Values /\ None \in Values /\ calls \in Int
  BY StreamingAssumption DEF StreamingAssumption, Types, Counters, Item, Values
<1>3. CASE GotNack(p)
  <2>1. waiting' = <<>> /\ calls' = 0 /\ UNCHANGED <<results, get_next_part_counter>>
    BY <1>3 DEF GotNack
  <2> QED  BY <1>1, <1>2, <2>1 DEF Progress, InnerProgress, ListProgress, InOrder, Datum, None
<1>4. CASE scene.form = "inner" /\ ~GotNack(p)
  <2> DEFINE n == Len(results)
             part == Part(1, get_next_part_counter)
  <2>1. get_next_part_counter = n /\ write_out_part_counter = wrote - 1
    BY <1>4 DEF Progress, InnerProgress
  <2>2. CASE waiting = <<Whole(1)>>
    <3>1. p.name = Whole(1) /\ ValueOf(p.name) = metatitle /\ p.name.of = 1
      BY <2>2 DEF ValueOf, Whole
    <3>2. GotMetatitle(p)
      BY <1>4, <3>1 DEF Got, GotPart, GotNack
    <3>3. waiting' = <<part>> \o <<Whole(1)>> /\ UNCHANGED <<results, calls, get_next_part_counter>>
      BY <2>2, <3>1, <3>2 DEF GotMetatitle
    <3>4. waiting' = <<part, Whole(1)>>
      BY <3>3, StackOfTwo
    <3>5. InnerProgress'
      BY <1>1, <2>1, <3>3, <3>4 DEF InnerProgress, Part, Whole
    <3> QED  BY <1>1, <1>4, <3>3, <3>5 DEF Progress, InOrder, Datum, None
  <2>3. CASE waiting = <<part, Whole(1)>>
    <3> DEFINE value == IF Ends(p.value) THEN None ELSE p.value
    <3>1. p.name = part /\ Len(waiting) = 2 /\ p.name.part = n
      BY <2>1, <2>3, StackOfTwo DEF Part
    <3>2. ValueOf(p.name) = IF n < Parts THEN Datum(n) ELSE endstreaming
      BY <1>2, <3>1 DEF ValueOf
    <3>3. p.value # metatitle
      BY <3>2, ValuesDiffer
    <3>4. GotPart(p)
      BY <1>4, <3>3 DEF Got, GotMetatitle
    <3>5. value = IF n < Parts THEN Datum(n) ELSE None
      BY <3>2, <3>4, ValuesDiffer DEF Ends, GotPart
    <3>6. value \in Values
      BY <1>2
    <3>7. /\ waiting' = <<>> /\ results' = Append(results, value)
          /\ get_next_part_counter' = get_next_part_counter + 1
      BY <3>1, <3>4 DEF GotPart
    <3> HIDE DEF value
    <3>8. InOrder' /\ Len(results') = n + 1
      BY <3>5, <3>6, <3>7, OneMore
    <3>9. InnerProgress'
      BY <1>1, <2>1, <3>7, <3>8 DEF InnerProgress
    <3> QED  BY <1>1, <1>4, <3>8, <3>9 DEF Progress
  <2> QED  BY <1>4, <2>2, <2>3 DEF Progress, InnerProgress
<1>5. CASE scene.form = "list" /\ ~GotNack(p)
  <2> DEFINE n == Len(results)
             part == Part(1, pos_name_list_multiple - 1)
  <2>1. /\ name_list_multiple = 1 /\ pos_name_list_multiple \in 1 .. Parts
        /\ waiting = <<part>> /\ n = pos_name_list_multiple - 1
        /\ calls > 0 => (calls + n = scene.calls)
    BY <1>5 DEF Progress, ListProgress
  <2>2. p.name = part /\ Len(waiting) = 1 /\ p.name.part = n /\ n \in 0 .. Parts - 1
    BY <1>2, <2>1, StackOfTwo DEF Part
  <2>3. ValueOf(p.name) = Datum(n)
    BY <1>2, <2>2 DEF ValueOf
  <2>4. GotPart(p)
    BY <1>5, <2>3, ValuesDiffer DEF Got, GotMetatitle
  <2>5. p.value = Datum(n)
    BY <2>3, <2>4 DEF GotPart
  <2>6. waiting' = <<>> /\ calls' = calls - 1 /\ results' = Append(results, p.value)
    BY <2>2, <2>4 DEF GotPart
  <2>7. p.value = IF n < Parts THEN Datum(n) ELSE None
    BY <1>2, <2>2, <2>5
  <2>8. InOrder' /\ Len(results') = n + 1
    BY <1>2, <2>6, <2>7, OneMore
  <2>9. scene.calls \in Nat
    BY StreamingAssumption DEF StreamingAssumption, Types, Counters
  <2> HIDE DEF n, part
  <2>10. ListProgress'
    BY <1>1, <1>2, <2>1, <2>2, <2>6, <2>8, <2>9 DEF ListProgress
  <2> QED  BY <1>1, <1>5, <2>8, <2>10 DEF Progress
<1> QED  BY <1>2, <1>3, <1>4, <1>5

LEMMA ProgressNext ==
    ASSUME Types, OneFunction, ListsReadOnce, Progress, Genuine, InOrder, [Next]_vars
    PROVE  Progress' /\ InOrder'
<1> USE DEF OneFunction
<1>1. ASSUME UNCHANGED <<script, name_list_multiple, pos_name_list_multiple, get_next_part_counter,
                         write_out_part_counter, wrote>>
      PROVE  Progress' /\ InOrder'
  BY <1>1 DEF script, Progress, InnerProgress, ListProgress, InOrder, Part, Whole, Datum, None
<1>2. CASE FromBuffer
  <2>1. PICK p \in get_next_buffer : p.name = waiting[1] /\ Got(p)
    BY <1>2 DEF FromBuffer
  <2>2. p \in Item /\ waiting # <<>>
    BY <1>2, <2>1 DEF FromBuffer, Types
  <2>3. p.name \in Own
    BY <2>1, <2>2, GotTypes
  <2> QED  BY <2>1, <2>2, <2>3, ReadProgress DEF Genuine
<1>3. CASE FromQueue
  <2> DEFINE p == Head(inbox)
  <2>1. waiting # <<>> /\ inbox # <<>> /\ p \in Item
    BY <1>3, ReadTypes DEF FromQueue
  <2>2. CASE Mine(p) /\ Got(p)
    <3>1. p.name = waiting[1] /\ p.name \in Own
      BY <2>1, <2>2, GotTypes DEF Mine
    <3>2. 1 \in DOMAIN inbox /\ p = inbox[1]
      BY <2>1, Rotated DEF Types
    <3>3. p.value \in {nack, ValueOf(p.name)}
      BY <3>1, <3>2 DEF Genuine
    <3> QED  BY <2>1, <2>2, <3>1, <3>3, ReadProgress
  <2>3. CASE UNCHANGED <<script, sent_interests, get_next_part_counter, name_list_multiple,
                         pos_name_list_multiple, producer, requests, late, others, refused>>
    BY <1>1, <2>3 DEF producer
  <2> QED  BY <1>3, <2>2, <2>3 DEF FromQueue
<1>4. CASE GetNext
  <2>1. /\ waiting = <<>> /\ calls > 0
        /\ UNCHANGED <<scene, current, write_out_part_counter, wrote, get_next_part_counter>>
    BY <1>4 DEF GetNext, GetNextInner, GetNextMultiple, executor, producer
  <2>2. CASE GetNextInner
    <3>1. scene.form = "inner" /\ waiting' = <<Whole(1)>> /\ UNCHANGED results
      BY <2>2 DEF GetNextInner, Progress
    <3> QED  BY <2>1, <3>1 DEF Progress, InnerProgress, InOrder, Whole, Datum, None
  <2>3. CASE GetNextMultiple
    <3> DEFINE list == IF name_list_multiple = 0 THEN current ELSE name_list_multiple
               pos == IF name_list_multiple = 0 THEN 0 ELSE pos_name_list_multiple
    <3>1. scene.form = "list" /\ ListProgress /\ current = 1
      BY <2>3 DEF GetNextMultiple, check_streaming, Progress
    <3>2. list = 1 /\ pos \in 0 .. Parts /\ Len(results) = pos
      <4>1. results = <<>> => Len(results) = 0
        OBVIOUS
      <4>2. Parts \in Nat \ {0} /\ calls \in Int
        BY StreamingAssumption DEF StreamingAssumption, Types, Counters
      <4> QED  BY <2>1, <3>1, <4>1, <4>2 DEF ListProgress
    <3>3. CASE Listed(pos)
      <4>1. /\ name_list_multiple' = 1 /\ pos_name_list_multiple' = pos + 1
            /\ waiting' = <<Part(1, pos)>> /\ UNCHANGED <<results, calls>>
        BY <2>3, <3>2, <3>3 DEF GetNextMultiple
      <4>2. pos + 1 \in 1 .. Parts /\ (pos + 1) - 1 = pos /\ waiting' # <<>>
        BY <3>2, <3>3, <4>1, StreamingAssumption DEF Listed, StreamingAssumption
      <4> HIDE DEF pos, list
      <4>3. ListProgress'
        BY <2>1, <3>1, <3>2, <4>1, <4>2 DEF ListProgress, Part
      <4> QED  BY <2>1, <3>1, <4>1, <4>3 DEF Progress, InOrder, Datum, None
    <3>4. CASE ~Listed(pos)
      <4>1. /\ name_list_multiple' = 0 /\ results' = Append(results, None) /\ calls' = calls - 1
            /\ waiting' = <<>>
        BY <2>1, <2>3, <3>4 DEF GetNextMultiple
      <4>2. pos = Parts /\ Parts \in Nat \ {0} /\ calls \in Int /\ scene.calls \in Nat
            /\ scene.calls <= Parts + 1
        BY <3>1, <3>2, <3>4, StreamingAssumption
           DEF Listed, StreamingAssumption, ListsReadOnce, Types, Counters
      <4>3. None = IF Len(results) < Parts THEN Datum(Len(results)) ELSE None
        BY <3>2, <4>2
      <4>4. InOrder' /\ Len(results') = Len(results) + 1
        <5>1. None \in Values
          BY DEF Values
        <5> QED  BY <4>1, <4>3, <5>1, OneMore
      <4>5. calls = 1
        BY <2>1, <3>1, <3>2, <4>2 DEF ListProgress
      <4> HIDE DEF pos, list
      <4>6. ListProgress'
        BY <4>1, <4>5 DEF ListProgress
      <4> QED  BY <2>1, <3>1, <4>4, <4>6 DEF Progress
    <3> QED  BY <3>3, <3>4
  <2> QED  BY <1>4, <2>2, <2>3 DEF GetNext
<1>5. CASE Return
  <2>1. UNCHANGED <<scene, current, calls, waiting, results, executor, wrote, write_out_part_counter>>
    BY <1>5 DEF Return, Progress
  <2> QED
    BY <2>1 DEF executor, Progress, InnerProgress, ListProgress, InOrder, Part, Whole, Datum, None
<1>6. CASE Write
  <2>1. /\ scene.form = "inner" /\ write_out_part_counter' = write_out_part_counter + 1
        /\ wrote' = wrote + 1 /\ UNCHANGED <<script, executor>>
    BY <1>6 DEF Write, write_out
  <2>2. write_out_part_counter' = wrote' - 1
    BY <2>1 DEF Progress, InnerProgress, Types, Counters
  <2> QED
    BY <2>1, <2>2
       DEF script, executor, Progress, InnerProgress, InOrder, Part, Whole, Datum, None
<1>7. CASE \/ \E m \in requests \cup late : Answer(m)
           \/ \E m \in requests : TooEarly(m) \/ Refuse(m)
           \/ \E o \in others : Arrive(o)
  BY <1>1, <1>7 DEF Answer, TooEarly, Refuse, Arrive, executor, producer
<1>8. CASE UNCHANGED vars
  BY <1>1, <1>8 DEF vars, executor, producer
<1> QED
  BY <1>2, <1>3, <1>4, <1>5, <1>6, <1>7, <1>8 DEF Next, Function, Network

(* However the contents of the parts, the requests made ahead, refusals    *)
(* and what belongs to others mix in the queue, get_next returns the parts *)
(* in the order they were written, each once, and None after the last.     *)
THEOREM InOrderCorrect ==
    ASSUME OneFunction, ListsReadOnce
    PROVE  Spec => []InOrder
<1>1. Init => Types /\ Progress /\ Genuine /\ InOrder
  <2> SUFFICES ASSUME Init  PROVE Types /\ Progress /\ Genuine /\ InOrder
    OBVIOUS
  <2>1. Len(<<>>) = 0 /\ DOMAIN results = {} /\ DOMAIN inbox = {}
    BY DEF Init
  <2>2. Progress
    BY <2>1, StreamingAssumption
       DEF Init, Progress, InnerProgress, ListProgress, StreamingAssumption
  <2>3. \A n \in DOMAIN store : store[n] = ValueOf(n)
    <3>1. CASE scene.form = "inner"
      BY <3>1 DEF Init
    <3>2. CASE scene.form # "inner"
      <4>1. DOMAIN store = {Part(c, k) : c \in 1 .. Computations, k \in 0 .. Parts - 1}
        BY <3>2 DEF Init
      <4>2. ASSUME NEW n \in DOMAIN store  PROVE store[n] = ValueOf(n)
        <5>1. PICK c \in 1 .. Computations, k \in 0 .. Parts - 1 : n = Part(c, k)
          BY <4>1
        <5>2. n.part = k /\ store[n] = Datum(n.part)
          BY <3>2, <4>1, <5>1 DEF Init, Part
        <5> QED  BY <5>2, StreamingAssumption DEF ValueOf, StreamingAssumption
      <4> QED  BY <4>2
    <3> QED  BY <3>1, <3>2
  <2>4. Genuine
    BY <2>1, <2>3 DEF Init, Genuine
  <2>5. InOrder
    BY <2>1 DEF InOrder
  <2> QED  BY <2>2, <2>4, <2>5, TypesInit
<1>2. Types /\ Progress /\ Genuine /\ InOrder /\ [Next]_vars
         => (Types /\ Progress /\ Genuine /\ InOrder)'
  BY TypesNext, GenuineNext, ProgressNext
<1> QED  BY <1>1, <1>2, PTL DEF Spec

===============================================================================

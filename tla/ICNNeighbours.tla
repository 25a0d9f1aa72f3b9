---------------------------- MODULE ICNNeighbours ----------------------------
(***************************************************************************)
(* A forwarder among neighbours that follow the protocol: a neighbour      *)
(* answers only interests it was sent, with content or a Nack, in any      *)
(* order, and packets may be lost on the way.  The consumers are the faces *)
(* that ask.  The forwarder is the one of ICNLayer, handler by handler.    *)
(***************************************************************************)
EXTENDS ICNLayer

CONSTANTS
    Consumers,  \* the faces interests come from
    MaxOwed,    \* answers a neighbour may still owe for one name: 1 if it
                \* aggregates a retransmission, 2 if it answers it as well
    LateAnswers \* answers may come after the PIT entry they were for is gone

ASSUME NeighbourAssumption ==
    /\ Consumers \subseteq Faces
    /\ MaxOwed \in Nat \ {0}
    /\ LateAnswers \in BOOLEAN

VARIABLE owes   \* how many answers each face owes for each name

nvars == <<vars, owes>>

Interests(out) == {<<m[1], m[2].name>> : m \in out.lower \ Replies(out.lower)}

(* The answers owed after a step that took one from each pair in paid and  *)
(* sent the interests in sent'.                                            *)
Owing(paid) ==
    owes' = [p \in Faces \X Names |->
                LET left == IF p \in paid THEN owes[p] - 1 ELSE owes[p] IN
                IF ~LateAnswers /\ pit'[p[2]] = None THEN 0
                ELSE IF p \in Interests(sent') /\ left < MaxOwed THEN left + 1
                ELSE left]

Consume(f, n) == InterestFromLower(f, n) /\ Owing({})

Answer(f, n) ==
    /\ owes[<<f, n>>] > 0 /\ pit[n] # None
    /\ \/ \E d \in Data : ContentArrives(f, n, d)
       \/ NackArrives(f, n, "upstream", FALSE)
    /\ Owing({<<f, n>>})

(* An interest or its answer is lost, or an answer comes too late and is   *)
(* dropped because its PIT entry is gone.                                  *)
Lose(f, n) ==
    /\ owes[<<f, n>>] > 0
    /\ sent' = Quiet
    /\ UNCHANGED <<pit, cs, fib, waiting, apps>>
    /\ Owing({<<f, n>>})

Tick == \E late \in SUBSET Pending, k \in Expiries : Ageing(late, k) /\ Owing({})

NInit == Init /\ owes = [p \in Faces \X Names |-> 0]

NNext ==
    \/ \E f \in Consumers, n \in Names : Consume(f, n)
    \/ \E f \in Faces, n \in Names : Answer(f, n) \/ Lose(f, n)
    \/ Tick

NSpec == NInit /\ [][NNext]_nvars

-----------------------------------------------------------------------------
(* A pending name has somebody to wait for: a neighbour that owes an       *)
(* answer, or one that the next ageing round asks again.                   *)
NeverStuck ==
    \A n \in Pending :
        (\E f \in Faces : owes[<<f, n>>] > 0) \/ Retransmissions(n) # {}

(* When a Nack is passed on to the consumers of a pending name, the answer *)
(* that caused it was the last one owed for the name.                      *)
NackMeansExhausted ==
    [][\A n \in Pending :
          (\E m \in Replies(sent'.lower) : m[2].type = "nack" /\ m[2].name = n)
          => \E f \in Faces : /\ owes[<<f, n>>] = 1
                             /\ \A g \in Faces \ {f} : owes[<<g, n>>] = 0]_nvars
=============================================================================

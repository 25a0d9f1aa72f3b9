---------------------------- MODULE MCAutoconfig ----------------------------
(***************************************************************************)
(* Two repositories that offer the same service, or one each, a forwarder  *)
(* with one or two prefixes, and a client that asks for two contents, one  *)
(* of a service nobody offers.                                             *)
(***************************************************************************)
EXTENDS Autoconfig

CONSTANTS R1, R2

MCRepos == {R1, R2}
MCSame == [r \in MCRepos |-> "testrepo"]
MCWants == [a |-> <<"local", "testrepo">>, b |-> <<"local", "other">>]
MCOnce == [r \in MCRepos |-> 1]
MCReturns == R1 :> 2 @@ R2 :> 1
MCAsks == [n \in {"a", "b"} |-> 1]

(* The client's packets are broadcast, and may be lost.                    *)
MCClients(p) == p.peer = "client"
MCAny(p) == TRUE
=============================================================================

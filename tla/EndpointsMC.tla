----------------------------- MODULE EndpointsMC -----------------------------
(* The endpoints and how they are reached, for TLC: the configuration of SCEP *)
(* and ACME endpoints, the envelope of ACME requests, the consent to Intune   *)
(* and the client that uses it, and the process that serves them.  As in      *)
(* ConsoleMC, each behaviour is about one part and leaves the others alone.   *)
EXTENDS ScepConfig, AcmeService, AcmeRequest, IntuneConnection, IntuneClient, Server, TLC

CONSTANTS x1, x2, y1, y2, z1, z2

(* Two pairs that may be exchanged and one that may not, shared by the parts. *)
TwoX == {x1, x2}
TwoY == {y1, y2}
TwoZ == {z1, z2}
OneZ == {z1}

ConfigConcerns == {"names", "methods", "challenges"}
AcmeAffairs == {"names", "binding", "revocation"}
ClientQuestions == {"roles", "lapse", "tenants"}
ThreeBuilds == {{1}, {1, 2}, {1, 2, 3}}
AllParts == {"config", "acme", "request", "connection", "intune", "server"}

CONSTANT Parts
VARIABLE part

partsVars == <<part, configVars, serviceVars, requestVars, connectionVars, clientVars, serverVars>>

Init ==
    /\ part \in Parts
    /\ ConfigInit /\ (part # "config" => concern = "names")
    /\ ServiceInit /\ (part # "acme" => about = "names")
    /\ RequestInit /\ ConnectionInit /\ ServerInit
    /\ ClientInit /\ (part # "intune" => question = "lapse")

Next ==
    /\ UNCHANGED part
    /\ \/ /\ part = "config" /\ ConfigNext
          /\ UNCHANGED <<serviceVars, requestVars, connectionVars, clientVars, serverVars>>
       \/ /\ part = "acme" /\ ServiceNext
          /\ UNCHANGED <<configVars, requestVars, connectionVars, clientVars, serverVars>>
       \/ /\ part = "request" /\ RequestNext
          /\ UNCHANGED <<configVars, serviceVars, connectionVars, clientVars, serverVars>>
       \/ /\ part = "connection" /\ ConnectionNext
          /\ UNCHANGED <<configVars, serviceVars, requestVars, clientVars, serverVars>>
       \/ /\ part = "intune" /\ ClientNext
          /\ UNCHANGED <<configVars, serviceVars, requestVars, connectionVars, serverVars>>
       \/ /\ part = "server" /\ ServerNext
          /\ UNCHANGED <<configVars, serviceVars, requestVars, connectionVars, clientVars>>

Spec == Init /\ [][Next]_partsVars

Interchangeable == Permutations(TwoX) \union Permutations(TwoY)
=============================================================================

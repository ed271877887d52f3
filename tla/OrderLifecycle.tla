--------------------------- MODULE OrderLifecycle ---------------------------
(* What an ACME order promises the client that created it: it starts ready,  *)
(* it ends once, either with one certificate of its own or retired, and an   *)
(* order that ended never changes again.  AcmeOrder implements this.         *)
CONSTANTS Orders, Certs, NoCert

VARIABLES status, cert

vars == <<status, cert>>

Init == /\ status = [o \in Orders |-> "absent"]
        /\ cert = [o \in Orders |-> NoCert]

Create(o) == /\ status[o] = "absent"
             /\ status' = [status EXCEPT ![o] = "ready"]
             /\ UNCHANGED cert

(* The certificate is one no order was ever given.                           *)
Issue(o, c) == /\ status[o] = "ready"
               /\ \A q \in Orders : cert[q] # c
               /\ status' = [status EXCEPT ![o] = "valid"]
               /\ cert' = [cert EXCEPT ![o] = c]

Retire(S) == /\ \A o \in S : status[o] = "ready"
             /\ status' = [o \in Orders |-> IF o \in S THEN "invalid" ELSE status[o]]
             /\ UNCHANGED cert

Next == \/ \E o \in Orders : Create(o) \/ \E c \in Certs : Issue(o, c)
        \/ \E S \in SUBSET Orders : Retire(S)

Spec == Init /\ [][Next]_vars
=============================================================================

--------------------------- MODULE ScepTransaction ---------------------------
(* What SCEP promises the devices of an endpoint: a transaction id is granted *)
(* to one message, with one certificate that no other was granted, and a      *)
(* grant is final.  Retries, refusals and failures show nothing else.         *)
(* ScepEnrollment implements this.                                            *)
CONSTANTS Txs, CSRs, Keys, Certs

VARIABLES
    status,     \* of each transaction id
    answers     \* <<id, CSR, key, certificate>> told to devices

vars == <<status, answers>>

Init == status = [t \in Txs |-> "none"] /\ answers = {}

Grant(t, r, k, c) ==
    /\ status[t] # "issued"
    /\ \A a \in answers : a[1] # t /\ a[4] # c
    /\ status' = [status EXCEPT ![t] = "issued"]
    /\ answers' = answers \union {<<t, r, k, c>>}

(* A device polls a transaction that failed and may try it again.             *)
NoteFailure(t) ==
    /\ status[t] # "issued"
    /\ status' = [status EXCEPT ![t] = "failed"]
    /\ UNCHANGED answers

Next == \E t \in Txs : \/ NoteFailure(t)
                       \/ \E r \in CSRs, k \in Keys, c \in Certs : Grant(t, r, k, c)

Spec == Init /\ [][Next]_vars
=============================================================================
